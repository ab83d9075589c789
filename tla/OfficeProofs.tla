------------------------------ MODULE OfficeProofs ------------------------------
(***************************************************************************)
(* Proofs about the parts of the server around the stock: the people of a  *)
(* tenant (Accounts), the daily jobs (Worker) and the recurring checkout   *)
(* at the provider (Gateway), for any users, browsers, tenants, alerts,    *)
(* attempts and times, and any number of checkouts, failures and changes   *)
(* from elsewhere.  The parts share no state.                              *)
(***************************************************************************)
EXTENDS Accounts, Worker, Gateway, Sums, SequenceTheorems, TLAPS

--------------------------------------------------------------------------------
(* The recurring checkout.                                                 *)

Early == {"cancel_old", "find", "create_customer", "find_again", "put_address",
          "profile", "subscribe"}
Late == {"poll", "assert", "withdraw", "persist"}
Agreement == [state : {"open", "canceled"}, pix : BOOLEAN, addressed : BOOLEAN]
Checkout == [at : {"idle"} \cup Early \cup Late, pix : BOOLEAN, agreement : Nat,
             bill : Bill, polls : 0 .. Polls, status : Status]

GatType ==
  /\ provider \in {"vindi", "pagbank"} /\ address \in BOOLEAN
  /\ row \in [agreement : Nat, status : Status] /\ row.agreement <= Len(agreements)
  /\ open \in {"none", "plain", "qr"} /\ customer \in {"none", "plain", "address"}
  /\ agreements \in Seq(Agreement)
  /\ checkout \in Checkout /\ checkout.agreement <= Len(agreements)
  /\ checkouts \in 0 .. MaxCheckouts /\ failures \in 0 .. MaxFailures /\ news \in 0 .. MaxNews
  /\ unsure \subseteq 1 .. Len(agreements) /\ superseded \subseteq 1 .. Len(agreements)

(* A checkout holds an agreement from the moment the provider has told it  *)
(* of one, and never polls more than it may.                               *)
HoldsLate ==
  /\ checkout.agreement # 0 <=> checkout.at \in Late
  /\ checkout.at = "idle" => checkout = Idle
  /\ checkout.at \notin Late => checkout.polls = 0
  /\ checkout.at = "poll" => checkout.polls < Polls
  /\ checkout.at = "cancel_old" => row.agreement # 0

(* Once a checkout by Pix that replaces a pending agreement is past the    *)
(* call that cancels it, that agreement is closed or in doubt.             *)
OldClosed ==
  /\ checkout.at \notin {"idle", "cancel_old"} /\ checkout.pix
  /\ checkout.status = "pending_payment" /\ row.agreement # 0
  => \/ agreements[row.agreement].state = "canceled"
     \/ row.agreement \in unsure

(* A checkout by Pix only comes to subscribe for a customer with address.  *)
PixReady ==
  /\ checkout.pix => provider = "vindi" /\ address
  /\ checkout.pix => checkout.at # "profile"
  /\ checkout.pix /\ checkout.at = "subscribe" => customer = "address"

GatInv == GatType /\ HoldsLate /\ OldClosed /\ PixReady /\ NoStrayAgreement /\ PixHasAddress

USE GatAssumption

LEMMA AnswerType ==
  ASSUME GatInv, NEW step, NEW o, Answer(step, o)
  PROVE  failures' \in 0 .. MaxFailures /\ checkout.at = step
BY DEF Answer, GatInv, GatType

LEMMA IdleType ==
  /\ Idle \in Checkout /\ Idle.agreement = 0 /\ Idle.polls = 0 /\ Idle.at = "idle" /\ Idle.pix = FALSE
BY DEF Idle, Checkout, NoBill, Bill, Status

LEMMA GatInitial ==
  GatInit => GatInv
<1> SUFFICES ASSUME GatInit PROVE GatInv
  OBVIOUS
<1>1. GatType
  <2>1. row \in [agreement : Nat, status : Status] /\ row.agreement = 0
    BY DEF GatInit, Status
  <2>2. agreements \in Seq(Agreement) /\ Len(agreements) = 0
    BY DEF GatInit
  <2>3. checkout \in Checkout /\ checkout.agreement = 0
    BY IdleType DEF GatInit
  <2>4. checkouts \in 0 .. MaxCheckouts /\ failures \in 0 .. MaxFailures
          /\ news \in 0 .. MaxNews
    BY DEF GatInit
  <2>5. address \in BOOLEAN
    BY Zenon DEF GatInit
  <2>6. /\ provider \in {"vindi", "pagbank"} /\ open = "none" /\ customer = "none"
        /\ unsure = {} /\ superseded = {}
    BY DEF GatInit
  <2> QED
    BY <2>1, <2>2, <2>3, <2>4, <2>5, <2>6 DEF GatType
<1>2. HoldsLate /\ OldClosed /\ PixReady
  BY IdleType DEF GatInit, HoldsLate, OldClosed, PixReady, Late
<1>3. DOMAIN agreements = {}
  BY DEF GatInit
<1> QED
  BY <1>1, <1>2, <1>3 DEF GatInv, NoStrayAgreement, PixHasAddress

(* A call that comes before the provider has made an agreement.            *)
LEMMA EarlyStep ==
  ASSUME GatInv, NEW step \in Early \ {"cancel_old"},
         checkout.at \in Early \ {"cancel_old"},
         checkout' \in {[checkout EXCEPT !.at = step], Idle},
         customer' \in {"none", "plain", "address"},
         checkout.pix => step # "profile",
         checkout.pix /\ step = "subscribe" /\ checkout' # Idle => customer' = "address",
         failures' \in 0 .. MaxFailures,
         UNCHANGED <<ours, agreements, bounds, unsure, superseded>>
  PROVE  GatInv'
<1> USE IdleType DEF ours, bounds
<1>1. checkout.agreement = 0
  BY DEF GatInv, HoldsLate, Early, Late
<1>2. CASE checkout' = Idle
  <2>1. GatType'
    BY <1>2 DEF GatInv, GatType
  <2>2. NoStrayAgreement'
    BY <1>1, <1>2 DEF GatInv, NoStrayAgreement
  <2> QED
    BY <1>2, <2>1, <2>2 DEF GatInv, HoldsLate, OldClosed, PixReady, PixHasAddress, Late
<1>3. CASE checkout' # Idle
  <2>1. /\ checkout' \in Checkout
        /\ checkout'.at = step /\ checkout'.pix = checkout.pix /\ checkout'.agreement = 0
        /\ checkout'.status = checkout.status /\ checkout'.polls = checkout.polls
    BY <1>1, <1>3 DEF GatInv, GatType, Checkout, Early
  <2>2. GatType'
    BY <2>1 DEF GatInv, GatType
  <2>3. HoldsLate'
    BY <2>1 DEF GatInv, HoldsLate, Early, Late
  <2>4. OldClosed'
    BY <2>1 DEF GatInv, OldClosed, Early
  <2>5. PixReady'
    BY <1>3, <2>1 DEF GatInv, PixReady
  <2>6. NoStrayAgreement'
    BY <1>1, <2>1 DEF GatInv, NoStrayAgreement
  <2> QED
    BY <2>2, <2>3, <2>4, <2>5, <2>6 DEF GatInv, PixHasAddress
<1> QED
  BY <1>2, <1>3

(* An agreement that is closed is closed, or the call is in doubt.         *)
LEMMA Closing ==
  ASSUME GatType, NEW o \in Outcome, NEW g \in 1 .. Len(agreements),
         Close(o, g), Doubt(o, g)
  PROVE  /\ agreements' \in Seq(Agreement) /\ Len(agreements') = Len(agreements)
         /\ unsure' \subseteq 1 .. Len(agreements) /\ unsure \subseteq unsure'
         /\ agreements'[g].state = "canceled" \/ g \in unsure'
         /\ \A k \in 1 .. Len(agreements) :
              /\ agreements'[k].pix = agreements[k].pix
              /\ agreements'[k].addressed = agreements[k].addressed
              /\ agreements'[k].state = "open" => agreements[k].state = "open"
              /\ agreements'[k].state \in {"open", "canceled"}
<1>1. agreements \in Seq(Agreement) /\ agreements[g] \in Agreement
        /\ unsure \subseteq 1 .. Len(agreements)
  BY DEF GatType
<1>0. unsure' = (IF o = "ok" THEN unsure ELSE unsure \cup {g})
  BY DEF Doubt
<1>4. ASSUME NEW k \in 1 .. Len(agreements)
       PROVE  agreements[k].state \in {"open", "canceled"}
  <2>1. agreements[k] \in Agreement
    BY <1>1
  <2> QED
    BY <2>1 DEF Agreement
<1>2. CASE CarriedOut(o)
  <2> DEFINE a == [agreements[g] EXCEPT !.state = "canceled"]
  <2>1. a \in Agreement /\ a.state = "canceled" /\ a.pix = agreements[g].pix
          /\ a.addressed = agreements[g].addressed
    BY <1>1 DEF Agreement
  <2>2. agreements' = [agreements EXCEPT ![g] = a]
    BY <1>2 DEF Close
  <2> HIDE DEF a
  <2>3. agreements' \in Seq(Agreement) /\ Len(agreements') = Len(agreements)
          /\ agreements'[g] = a
          /\ \A k \in 1 .. Len(agreements) : k # g => agreements'[k] = agreements[k]
    BY <1>1, <2>1, <2>2
  <2> QED
    BY <1>0, <1>1, <1>4, <2>1, <2>3
<1>3. CASE ~CarriedOut(o)
  <2>1. o = "refused" /\ agreements' = agreements
    BY <1>3 DEF CarriedOut, Close
  <2>2. unsure' = unsure \cup {g}
    BY <1>0, <2>1
  <2> QED
    BY <1>1, <1>4, <2>1, <2>2
<1> QED
  BY <1>2, <1>3

LEMMA CancelOldStep ==
  ASSUME GatInv, NEW o \in Outcome, CancelOld(o)
  PROVE  GatInv'
<1> USE DEF GatInv
<1> DEFINE g == row.agreement
<1>1. /\ checkout.at = "cancel_old" /\ checkout' = [checkout EXCEPT !.at = "find"]
      /\ failures' \in 0 .. MaxFailures
      /\ UNCHANGED <<provider, address, row, open, customer, checkouts, news, superseded>>
      /\ Close(o, g) /\ Doubt(o, g)
  BY AnswerType DEF CancelOld, GoOn, ours, bounds
<1>2. checkout.agreement = 0 /\ checkout' \in Checkout /\ checkout'.agreement = 0
        /\ checkout'.at = "find" /\ checkout'.pix = checkout.pix /\ checkout'.polls = 0
  BY <1>1 DEF GatType, HoldsLate, Checkout, Early, Late
<1>3. g \in 1 .. Len(agreements)
  BY <1>1 DEF GatType, HoldsLate
<1>4. /\ agreements' \in Seq(Agreement) /\ Len(agreements') = Len(agreements)
      /\ unsure' \subseteq 1 .. Len(agreements) /\ unsure \subseteq unsure'
      /\ agreements'[g].state = "canceled" \/ g \in unsure'
      /\ \A k \in 1 .. Len(agreements) :
           /\ agreements'[k].pix = agreements[k].pix
           /\ agreements'[k].addressed = agreements[k].addressed
           /\ agreements'[k].state = "open" => agreements[k].state = "open"
  BY <1>1, <1>3, Closing
<1>5. GatType'
  BY <1>1, <1>2, <1>4 DEF GatType
<1>6. HoldsLate' /\ PixReady'
  BY <1>1, <1>2 DEF HoldsLate, PixReady, Late
<1>7. OldClosed'
  BY <1>1, <1>4 DEF OldClosed
<1>8. DOMAIN agreements' = 1 .. Len(agreements) /\ DOMAIN agreements = 1 .. Len(agreements)
  BY <1>4 DEF GatType
<1>9. NoStrayAgreement'
  BY <1>1, <1>2, <1>4, <1>8 DEF NoStrayAgreement
<1>10. PixHasAddress'
  BY <1>4, <1>8 DEF PixHasAddress
<1> QED
  BY <1>5, <1>6, <1>7, <1>9, <1>10

LEMMA WithdrawStep ==
  ASSUME GatInv, NEW o \in Outcome, Withdraw(o)
  PROVE  GatInv'
<1> USE DEF GatInv
<1> DEFINE g == checkout.agreement
<1>1. /\ checkout.at = "withdraw" /\ checkout' = Idle
      /\ failures' \in 0 .. MaxFailures
      /\ UNCHANGED <<provider, address, row, open, customer, checkouts, news, superseded>>
      /\ Close(o, g) /\ Doubt(o, g)
  BY AnswerType DEF Withdraw, CloseMade, Fail, ours, bounds
<1>2. g \in 1 .. Len(agreements)
  BY <1>1 DEF GatType, HoldsLate, Late, Checkout
<1>3. /\ agreements' \in Seq(Agreement) /\ Len(agreements') = Len(agreements)
      /\ unsure' \subseteq 1 .. Len(agreements) /\ unsure \subseteq unsure'
      /\ agreements'[g].state = "canceled" \/ g \in unsure'
      /\ \A k \in 1 .. Len(agreements) :
           /\ agreements'[k].pix = agreements[k].pix
           /\ agreements'[k].addressed = agreements[k].addressed
           /\ agreements'[k].state = "open" => agreements[k].state = "open"
  BY <1>1, <1>2, Closing
<1>4. GatType'
  BY <1>1, <1>3, IdleType DEF GatType
<1>5. HoldsLate' /\ PixReady' /\ OldClosed'
  BY <1>1, IdleType DEF HoldsLate, PixReady, OldClosed, Late
<1>6. DOMAIN agreements' = 1 .. Len(agreements) /\ DOMAIN agreements = 1 .. Len(agreements)
  BY <1>3 DEF GatType
<1>7. NoStrayAgreement'
  BY <1>1, <1>3, <1>6, IdleType DEF NoStrayAgreement
<1>8. PixHasAddress'
  BY <1>3, <1>6 DEF PixHasAddress
<1> QED
  BY <1>4, <1>5, <1>7, <1>8

LEMMA CheckoutStep ==
  ASSUME GatInv, CheckoutCard \/ CheckoutPix
  PROVE  GatInv'
<1> USE DEF GatInv
<1>1. PICK pix \in BOOLEAN, step \in Early :
        /\ checkout = Idle /\ checkout' = Begun(pix, step)
        /\ checkouts' \in 0 .. MaxCheckouts
        /\ UNCHANGED <<provider, address, row, customer, agreements, failures, news,
                       unsure, superseded>>
        /\ open' \in {"none", "plain", "qr"}
        /\ pix => provider = "vindi" /\ address /\ (Replaceable <=> step = "cancel_old")
        /\ pix => step \in {"cancel_old", "find"}
        /\ step = "cancel_old" => Replaceable
  <2> DEFINE Begins(pix, step) ==
        /\ checkout' = Begun(pix, step) /\ open' \in {"none", "plain", "qr"}
        /\ pix => provider = "vindi" /\ address /\ (Replaceable <=> step = "cancel_old")
        /\ pix => step \in {"cancel_old", "find"}
        /\ step = "cancel_old" => Replaceable
  <2>1. \E pix \in BOOLEAN, step \in Early : Begins(pix, step)
    <3>1. CASE CheckoutCard
      <4>1. PICK step \in {"find", "subscribe"} : checkout' = Begun(FALSE, step)
        BY <3>1 DEF CheckoutCard
      <4>2. Begins(FALSE, step)
        BY <3>1, <4>1 DEF CheckoutCard, GatType
      <4>3. step \in Early
        BY DEF Early
      <4> HIDE DEF Begins
      <4> QED
        BY <4>2, <4>3
    <3>2. CASE CheckoutPix
      <4> DEFINE step == IF Replaceable THEN "cancel_old" ELSE "find"
      <4>1. Begins(TRUE, step) /\ step \in Early
        BY <3>2 DEF CheckoutPix, GatType, Early
      <4> HIDE DEF Begins, step
      <4> QED
        BY <4>1
    <3> QED
      BY <3>1, <3>2
  <2>2. \E pix \in BOOLEAN : BeginCheckout(pix)
    BY DEF CheckoutCard, CheckoutPix
  <2>3. /\ checkout = Idle /\ checkouts' \in 0 .. MaxCheckouts
        /\ UNCHANGED <<provider, address, row, customer, agreements, failures, news,
                       unsure, superseded>>
    BY <2>2 DEF BeginCheckout, theirs, GatType
  <2> QED
    BY <2>1, <2>3
<1>2. /\ checkout' \in Checkout /\ checkout'.agreement = 0 /\ checkout'.at = step
      /\ checkout'.pix = pix /\ checkout'.status = row.status /\ checkout'.polls = 0
  BY <1>1, IdleType DEF Begun, Idle, Checkout, GatType
<1>3. checkout.agreement = 0
  BY <1>1, IdleType
<1>4. GatType'
  BY <1>1, <1>2 DEF GatType
<1>5. HoldsLate'
  BY <1>1, <1>2 DEF HoldsLate, Replaceable, Early, Late
<1>6. OldClosed'
  BY <1>1, <1>2 DEF OldClosed, Replaceable
<1>7. PixReady'
  BY <1>1, <1>2 DEF PixReady
<1>8. NoStrayAgreement' /\ PixHasAddress'
  BY <1>1, <1>2, <1>3 DEF NoStrayAgreement, PixHasAddress
<1> QED
  BY <1>4, <1>5, <1>6, <1>7, <1>8

(* The calls about the customer, with the address in place when they lead  *)
(* a Pix to its subscription.                                              *)
LEMMA CustomerStep ==
  ASSUME GatInv, NEW o \in Outcome, NEW found \in BOOLEAN,
         \/ Find(o, found) \/ FindAgain(o, found) \/ CreateCustomer(o)
         \/ UpdateCustomer(o) \/ PaymentProfile(o) \/ CodeTaken
  PROVE  GatInv'
<1> DEFINE Moves(step) == checkout' \in {[checkout EXCEPT !.at = step], Idle}
<1> USE DEF ours, theirs, bounds
<1>0. customer \in {"none", "plain", "address"}
  BY DEF GatInv, GatType
<1>p. checkout.pix => /\ Paying = "subscribe" /\ PutAddress = "put_address"
                      /\ Addressed = "address"
  BY DEF GatInv, PixReady, Paying, PutAddress, Addressed
<1>q. Paying \in {"subscribe", "profile"} /\ PutAddress \in {"put_address", "subscribe", "profile"}
        /\ Addressed \in {"address", "plain"}
  BY DEF Paying, PutAddress, Addressed
<1>1. CASE Find(o, found)
  <2>1. checkout.at = "find" /\ failures' \in 0 .. MaxFailures
    BY <1>1, AnswerType DEF Find
  <2>2. PICK step \in {PutAddress, "create_customer"} : Moves(step)
    BY <1>1 DEF Find, NextOrFail, GoOn, Fail
  <2> QED
    BY <1>0, <1>1, <1>p, <1>q, <2>1, <2>2, EarlyStep DEF Find, Early
<1>2. CASE FindAgain(o, found)
  <2>1. checkout.at = "find_again" /\ failures' \in 0 .. MaxFailures
    BY <1>2, AnswerType DEF FindAgain
  <2>2. Moves(PutAddress)
    BY <1>2 DEF FindAgain, NextOrFail, GoOn, Fail
  <2> QED
    BY <1>0, <1>2, <1>p, <1>q, <2>1, <2>2, EarlyStep DEF FindAgain, Early
<1>3. CASE CreateCustomer(o)
  <2>1. checkout.at = "create_customer" /\ failures' \in 0 .. MaxFailures
    BY <1>3, AnswerType DEF CreateCustomer
  <2>2. Moves(Paying) /\ (checkout' # Idle => customer' = Addressed)
    BY <1>3 DEF CreateCustomer, NextOrFail, GoOn, Fail, CarriedOut
  <2>3. customer' \in {"none", "plain", "address"}
    BY <1>0, <1>3, <1>q DEF CreateCustomer
  <2> QED
    BY <1>3, <1>p, <1>q, <2>1, <2>2, <2>3, EarlyStep DEF CreateCustomer, Early
<1>4. CASE UpdateCustomer(o)
  <2>1. checkout.at = "put_address" /\ failures' \in 0 .. MaxFailures
    BY <1>4, AnswerType DEF UpdateCustomer
  <2>2. Moves(Paying) /\ (checkout' # Idle => customer' = Addressed)
    BY <1>4 DEF UpdateCustomer, NextOrFail, GoOn, Fail, CarriedOut
  <2>3. customer' \in {"none", "plain", "address"}
    BY <1>0, <1>4, <1>q DEF UpdateCustomer
  <2> QED
    BY <1>4, <1>p, <1>q, <2>1, <2>2, <2>3, EarlyStep DEF UpdateCustomer, Early
<1>5. CASE PaymentProfile(o)
  <2>1. checkout.at = "profile" /\ failures' \in 0 .. MaxFailures
    BY <1>5, AnswerType DEF PaymentProfile
  <2>2. Moves("subscribe") /\ ~checkout.pix
    BY <1>5, <2>1 DEF PaymentProfile, NextOrFail, GoOn, Fail, GatInv, PixReady
  <2> QED
    BY <1>0, <1>5, <2>1, <2>2, EarlyStep DEF PaymentProfile, Early
<1>6. CASE CodeTaken
  <2>1. checkout.at = "create_customer" /\ failures' \in 0 .. MaxFailures
    BY <1>6, AnswerType DEF CodeTaken
  <2>2. Moves("find_again")
    BY <1>6 DEF CodeTaken, GoOn
  <2> QED
    BY <1>0, <1>6, <2>1, <2>2, EarlyStep DEF CodeTaken, Early
<1> QED
  BY <1>1, <1>2, <1>3, <1>4, <1>5, <1>6

(* A subscription appends one agreement or none.                           *)
LEMMA Subscribing ==
  ASSUME GatInv, checkout.at = "subscribe",
         NEW state \in {"open", "canceled"}, NEW o \in Outcome,
         agreements' = IF CarriedOut(o) THEN Subscribed(state) ELSE agreements
  PROVE  /\ agreements' \in Seq(Agreement)
         /\ CarriedOut(o) => Len(agreements') = New
         /\ ~CarriedOut(o) => agreements' = agreements
         /\ \A k \in 1 .. Len(agreements) : agreements'[k] = agreements[k]
         /\ CarriedOut(o) => /\ agreements'[New].state = state
                             /\ agreements'[New].pix => agreements'[New].addressed
         /\ PixHasAddress'
<1> DEFINE a == [state |-> state, pix |-> checkout.pix, addressed |-> customer = "address"]
<1>1. a \in Agreement /\ a.state = state /\ (a.pix => a.addressed)
  <2>1. checkout.pix \in BOOLEAN
    BY DEF GatInv, GatType, Checkout
  <2>2. checkout.pix => customer = "address"
    BY DEF GatInv, PixReady
  <2> QED
    BY <2>1, <2>2 DEF Agreement
<1>2. agreements \in Seq(Agreement)
  BY DEF GatInv, GatType
<1>3. CarriedOut(o) => agreements' = Append(agreements, a)
  BY DEF Subscribed
<1> HIDE DEF a
<1>4. /\ agreements' \in Seq(Agreement)
      /\ CarriedOut(o) => Len(agreements') = New
      /\ ~CarriedOut(o) => agreements' = agreements
      /\ \A k \in 1 .. Len(agreements) : agreements'[k] = agreements[k]
      /\ CarriedOut(o) => agreements'[New] = a
  <2>1. CASE CarriedOut(o)
    <3>1. agreements' = Append(agreements, a) /\ a \in Agreement
      BY <1>1, <1>3, <2>1
    <3>2. /\ Append(agreements, a) \in Seq(Agreement)
          /\ Len(Append(agreements, a)) = Len(agreements) + 1
          /\ \A k \in 1 .. Len(agreements) : Append(agreements, a)[k] = agreements[k]
          /\ Append(agreements, a)[Len(agreements) + 1] = a
      BY <1>2, <3>1
    <3> QED
      BY <2>1, <3>1, <3>2, Zenon DEF New
  <2>2. CASE ~CarriedOut(o)
    <3>1. agreements' = agreements
      BY <2>2
    <3> QED
      BY <1>2, <2>2, <3>1
  <2> QED
    BY <2>1, <2>2
<1>5. PixHasAddress'
  <2>1. DOMAIN agreements = 1 .. Len(agreements) /\ DOMAIN agreements' = 1 .. Len(agreements')
    BY <1>2, <1>4
  <2>2. CASE CarriedOut(o)
    <3>1. \A k \in DOMAIN agreements' : k \in DOMAIN agreements \/ k = New
      BY <1>2, <1>4, <2>1, <2>2 DEF New
    <3> QED
      BY <1>1, <1>4, <2>1, <2>2, <3>1 DEF GatInv, PixHasAddress
  <2>3. CASE ~CarriedOut(o)
    BY <1>4, <2>3 DEF GatInv, PixHasAddress
  <2> QED
    BY <2>2, <2>3
<1> QED
  BY <1>1, <1>4, <1>5

LEMMA SubscribeStep ==
  ASSUME GatInv, NEW o \in Outcome,
         \/ \E bill \in Bill : SubscribeVindi(o, bill)
         \/ \E s \in {"active", "pending", "failed"} : SubscribePagBank(o, s)
  PROVE  GatInv'
<1> USE DEF GatInv
<1> DEFINE
    Fails(state) == checkout' = Idle /\ (o # "ok" \/ state = "canceled")
    Holds(at) ==
      /\ checkout' \in Checkout /\ checkout'.agreement = New /\ checkout'.at = at
      /\ checkout'.pix = checkout.pix /\ checkout'.status = checkout.status
      /\ checkout'.polls = 0
    Given(state) ==
      /\ agreements' = IF CarriedOut(o) THEN Subscribed(state) ELSE agreements
      /\ Fails(state) \/ (o = "ok" /\ \E at \in Late \ {"withdraw"} : Holds(at))
<1>1. /\ checkout.at = "subscribe" /\ failures' \in 0 .. MaxFailures
      /\ unsure' = IF o = "lost" THEN unsure \cup {New} ELSE unsure
      /\ UNCHANGED <<ours, customer, bounds, superseded>>
  BY AnswerType DEF SubscribeVindi, SubscribePagBank
<1>2. checkout.agreement = 0 /\ checkout \in Checkout
  BY <1>1 DEF GatType, HoldsLate, Late
<1>3. New \in Nat \ {0} /\ New = Len(agreements) + 1
  BY DEF New, GatType
<1>4. PICK state \in {"open", "canceled"} : Given(state)
  <2>1. ASSUME NEW bill \in Bill, SubscribeVindi(o, bill)
        PROVE  Given("open")
    <3> DEFINE at == IF checkout.pix /\ bill.status = "pending" /\ ~bill.qr THEN "poll" ELSE "assert"
    <3>1. at \in Late \ {"withdraw"}
      BY DEF Late
    <3> HIDE DEF at
    <3>2. CASE o = "ok"
      <4>1. checkout' = [checkout EXCEPT !.agreement = New, !.bill = bill, !.at = at]
        BY <2>1, <3>2 DEF SubscribeVindi, at
      <4>2. Holds(at)
        BY <1>1, <1>2, <1>3, <3>1, <4>1 DEF Checkout, HoldsLate, Late
      <4> QED
        BY <2>1, <3>1, <3>2, <4>2 DEF SubscribeVindi
    <3>3. CASE o # "ok"
      BY <2>1, <3>3 DEF SubscribeVindi, Fail
    <3> QED
      BY <3>2, <3>3
  <2>2. ASSUME NEW s \in {"active", "pending", "failed"}, SubscribePagBank(o, s)
        PROVE  Given(IF s = "failed" THEN "canceled" ELSE "open")
    <3> DEFINE paid == IF s = "active" THEN "paid" ELSE "none"
    <3>1. CASE o = "ok" /\ s # "failed"
      <4>1. checkout' = [checkout EXCEPT !.agreement = New, !.at = "persist", !.bill.status = paid]
        BY <2>2, <3>1 DEF SubscribePagBank
      <4>2. paid \in {"none", "pending", "paid", "failed"}
        OBVIOUS
      <4> HIDE DEF paid
      <4>3. [checkout.bill EXCEPT !.status = paid] \in Bill
        BY <1>2, <4>2 DEF Checkout, Bill
      <4>4. Holds("persist")
        BY <1>1, <1>2, <1>3, <4>1, <4>3 DEF Checkout, HoldsLate, Late
      <4>5. "persist" \in Late \ {"withdraw"}
        BY DEF Late
      <4> QED
        BY <2>2, <3>1, <4>4, <4>5 DEF SubscribePagBank
    <3>2. CASE o # "ok" \/ s = "failed"
      BY <2>2, <3>2 DEF SubscribePagBank, Fail
    <3> QED
      BY <3>1, <3>2
  <2> HIDE DEF Given
  <2> QED
    BY <2>1, <2>2
<1>5. /\ agreements' \in Seq(Agreement)
      /\ CarriedOut(o) => Len(agreements') = New
      /\ ~CarriedOut(o) => agreements' = agreements
      /\ \A k \in 1 .. Len(agreements) : agreements'[k] = agreements[k]
      /\ CarriedOut(o) => agreements'[New].state = state
      /\ PixHasAddress'
  BY <1>1, <1>4, Subscribing
<1>6. Len(agreements') \in Nat /\ Len(agreements) \in Nat /\ Len(agreements) <= Len(agreements')
  <2>1. CASE CarriedOut(o)
    BY <1>3, <1>5, <2>1 DEF GatType
  <2>2. CASE ~CarriedOut(o)
    BY <1>5, <2>2 DEF GatType
  <2> QED
    BY <2>1, <2>2
<1>6a. unsure' \subseteq 1 .. Len(agreements')
  <2>1. unsure \subseteq 1 .. Len(agreements')
    BY <1>6 DEF GatType
  <2>2. o = "lost" => New \in 1 .. Len(agreements')
    BY <1>3, <1>5 DEF CarriedOut
  <2> QED
    BY <1>1, <2>1, <2>2
<1>7. o = "ok" => CarriedOut(o)
  BY DEF CarriedOut
<1>8. GatType'
  <2>1. checkout' \in Checkout /\ checkout'.agreement <= Len(agreements')
    BY <1>3, <1>4, <1>5, <1>7, IdleType DEF GatType
  <2>2. row'.agreement <= Len(agreements') /\ superseded' \subseteq 1 .. Len(agreements')
    BY <1>1, <1>6 DEF GatType, ours
  <2> QED
    BY <1>1, <1>5, <1>6a, <2>1, <2>2 DEF GatType, ours, bounds
<1>9. HoldsLate' /\ PixReady'
  BY <1>1, <1>3, <1>4, IdleType DEF HoldsLate, PixReady, ours, Late
<1>10. OldClosed'
  <2> SUFFICES ASSUME checkout'.at \notin {"idle", "cancel_old"}, checkout'.pix,
                      checkout'.status = "pending_payment", row.agreement # 0
               PROVE  agreements'[row.agreement].state = "canceled" \/ row.agreement \in unsure'
    BY <1>1 DEF OldClosed, ours
  <2>1. checkout' # Idle
    BY IdleType
  <2>2. checkout.pix /\ checkout.status = "pending_payment"
    BY <1>4, <2>1
  <2>3. agreements[row.agreement].state = "canceled" \/ row.agreement \in unsure
    BY <1>1, <2>2 DEF OldClosed
  <2>4. row.agreement \in 1 .. Len(agreements)
    BY DEF GatType
  <2> QED
    BY <1>1, <1>5, <2>3, <2>4
<1>11. NoStrayAgreement'
  <2> SUFFICES ASSUME NEW g \in DOMAIN agreements', agreements'[g].state = "open"
               PROVE  g \in {row.agreement, checkout'.agreement} \cup unsure' \cup superseded
    BY <1>1 DEF NoStrayAgreement, ours
  <2>1. CASE g \in 1 .. Len(agreements)
    <3>1. g \in {row.agreement, checkout.agreement} \cup unsure \cup superseded
      <4>1. g \in DOMAIN agreements /\ agreements[g].state = "open"
        BY <1>5, <2>1 DEF GatType
      <4> QED
        BY <4>1 DEF NoStrayAgreement
    <3> QED
      BY <1>1, <1>2, <2>1, <3>1
  <2>2. CASE g = New /\ CarriedOut(o)
    <3>1. state = "open"
      BY <1>5, <2>2
    <3>2. CASE o = "ok"
      BY <1>4, <2>2, <3>1, <3>2
    <3>3. CASE o # "ok"
      BY <1>1, <2>2, <3>3 DEF CarriedOut, Outcome
    <3> QED
      BY <3>2, <3>3
  <2>3. g \in 1 .. Len(agreements) \/ (g = New /\ CarriedOut(o))
    BY <1>3, <1>5 DEF GatType
  <2> QED
    BY <2>1, <2>2, <2>3
<1> QED
  BY <1>5, <1>8, <1>9, <1>10, <1>11

(* The steps of a checkout that holds an agreement and keeps it.           *)
LEMMA LateStep ==
  ASSUME GatInv, NEW o \in Outcome, NEW qr \in BOOLEAN,
         PollBill(o, qr) \/ AssertInitialCharge \/ PersistFails
  PROVE  GatInv'
<1> USE DEF GatInv
<1>1. /\ checkout.at \in {"poll", "assert", "persist"} /\ failures' \in 0 .. MaxFailures
      /\ UNCHANGED <<provider, address, row, open, customer, agreements, checkouts, news,
                     unsure, superseded>>
  BY AnswerType DEF PollBill, AssertInitialCharge, PersistFails, GatType, ours, theirs, bounds
<1>2. checkout \in Checkout /\ checkout.agreement # 0
  BY <1>1 DEF GatType, HoldsLate, Late
<1> DEFINE Kept ==
      /\ checkout' \in Checkout /\ checkout'.at \in Late
      /\ checkout'.agreement = checkout.agreement /\ checkout'.pix = checkout.pix
      /\ checkout'.status = checkout.status
      /\ checkout'.at = "poll" => checkout'.polls < Polls
<1>3. Kept
  <2>1. CASE PollBill(o, qr)
    <3> DEFINE bill == [checkout.bill EXCEPT !.qr = qr, !.url = @ \/ o = "ok"]
               at == IF qr \/ LastPoll(checkout.polls) THEN "assert" ELSE "poll"
    <3>1. checkout.at = "poll"
      BY <2>1 DEF PollBill, Answer
    <3>2. bill \in Bill
      BY <1>2 DEF Checkout, Bill
    <3>3. checkout.polls + 1 \in 0 .. Polls /\ (at = "poll" => checkout.polls + 1 < Polls)
      BY <1>2, <3>1 DEF HoldsLate, Checkout, LastPoll
    <3>4. at \in Late /\ at \in {"assert", "poll"}
      BY DEF Late
    <3> HIDE DEF at
    <3>5. checkout' = [checkout EXCEPT !.bill = bill, !.polls = @ + 1, !.at = at]
      BY <1>2, <2>1 DEF PollBill, Checkout, Bill, at
    <3> HIDE DEF bill
    <3> QED
      BY <1>2, <3>2, <3>3, <3>4, <3>5 DEF Checkout
  <2>2. ASSUME NEW at \in {"persist", "withdraw"}, checkout' = [checkout EXCEPT !.at = at]
        PROVE  Kept
    BY <1>2, <2>2 DEF Checkout, Late
  <2>3. CASE AssertInitialCharge
    BY <2>2, <2>3 DEF AssertInitialCharge, GoOn
  <2>4. CASE PersistFails
    BY <2>2, <2>4 DEF PersistFails, GoOn
  <2> QED
    BY <2>1, <2>3, <2>4
<1>4. GatType'
  BY <1>1, <1>3 DEF GatType
<1>5. HoldsLate'
  BY <1>1, <1>2, <1>3 DEF HoldsLate, Late
<1>6. OldClosed' /\ PixReady'
  BY <1>1, <1>3 DEF OldClosed, PixReady, Late
<1>7. NoStrayAgreement' /\ PixHasAddress'
  BY <1>1, <1>3 DEF NoStrayAgreement, PixHasAddress
<1> QED
  BY <1>4, <1>5, <1>6, <1>7

(* The row takes the agreement over; the one it named is closed, in doubt  *)
(* or superseded.                                                          *)
LEMMA PersistStep ==
  ASSUME GatInv, Persist
  PROVE  GatInv'
<1> USE DEF GatInv
<1> DEFINE g == checkout.agreement
<1>1. /\ checkout.at = "persist" /\ checkout' = Idle
      /\ row' = [agreement |-> g, status |-> StatusAfter]
      /\ superseded' = IF Replaced \/ row.agreement = 0 THEN superseded
                       ELSE superseded \cup {row.agreement}
      /\ open' = OpenAfter
      /\ UNCHANGED <<provider, address, customer, agreements, checkouts, news, failures, unsure>>
  BY DEF Persist, theirs, bounds
<1>2. g \in 1 .. Len(agreements) /\ row.agreement \in 0 .. Len(agreements)
  BY <1>1 DEF GatType, HoldsLate, Late, Checkout
<1>3. StatusAfter \in Status /\ OpenAfter \in {"none", "plain", "qr"}
  BY DEF StatusAfter, OpenAfter, Status, GatType
<1>4. superseded' \subseteq 1 .. Len(agreements)
  <2>1. superseded \subseteq 1 .. Len(agreements) /\ Len(agreements) \in Nat
    BY DEF GatType
  <2>2. row.agreement = 0 \/ row.agreement \in 1 .. Len(agreements)
    BY <1>2, <2>1
  <2>3. superseded' \subseteq superseded \cup ({row.agreement} \ {0})
    BY <1>1
  <2> QED
    BY <2>1, <2>2, <2>3
<1>5. GatType'
  BY <1>1, <1>2, <1>3, <1>4, IdleType DEF GatType
<1>6. HoldsLate' /\ OldClosed' /\ PixReady'
  BY <1>1, IdleType DEF HoldsLate, OldClosed, PixReady, Late
<1>7. NoStrayAgreement'
  <2> SUFFICES ASSUME NEW k \in DOMAIN agreements, agreements[k].state = "open"
               PROVE  k \in {g} \cup unsure \cup superseded'
    BY <1>1, IdleType DEF NoStrayAgreement
  <2>1. k \in {row.agreement, g} \cup unsure \cup superseded
    BY DEF NoStrayAgreement
  <2>2. CASE k = row.agreement
    <3>1. k # 0
      BY DEF GatType
    <3>2. CASE Replaced
      BY <1>1, <2>2, <3>1, <3>2 DEF Replaced, OldClosed
    <3>3. CASE ~Replaced
      BY <1>1, <2>2, <3>1, <3>3
    <3> QED
      BY <3>2, <3>3
  <2> QED
    BY <1>1, <2>1, <2>2
<1> QED
  BY <1>1, <1>5, <1>6, <1>7 DEF PixHasAddress

LEMMA DiesStep ==
  ASSUME GatInv, RequestDies
  PROVE  GatInv'
<1> USE DEF GatInv
<1>1. /\ checkout' = Idle /\ failures' \in 0 .. MaxFailures
      /\ unsure' = unsure \cup ({checkout.agreement} \ {0})
      /\ UNCHANGED <<provider, address, row, open, customer, agreements, checkouts, news, superseded>>
  BY DEF RequestDies, Fail, GatType, ours, theirs, bounds
<1>2. unsure' \subseteq 1 .. Len(agreements)
  <2>1. unsure \subseteq 1 .. Len(agreements) /\ Len(agreements) \in Nat
          /\ checkout.agreement \in Nat /\ checkout.agreement <= Len(agreements)
    BY DEF GatType, Checkout
  <2>2. checkout.agreement = 0 \/ checkout.agreement \in 1 .. Len(agreements)
    BY <2>1
  <2> QED
    BY <1>1, <2>1, <2>2
<1>3. GatType'
  BY <1>1, <1>2, IdleType DEF GatType
<1>4. HoldsLate' /\ OldClosed' /\ PixReady'
  BY <1>1, IdleType DEF HoldsLate, OldClosed, PixReady, Late
<1>5. 0 \notin DOMAIN agreements
  BY DEF GatType
<1>6. NoStrayAgreement' /\ PixHasAddress'
  BY <1>1, <1>5, IdleType DEF NoStrayAgreement, PixHasAddress
<1> QED
  BY <1>3, <1>4, <1>6

LEMMA NewsStep ==
  ASSUME GatInv, SaveAddress \/ \E s \in Status : StatusChanges(s)
  PROVE  GatInv'
<1> USE DEF GatInv
<1>1. CASE SaveAddress
  <2>1. /\ news' \in 0 .. MaxNews /\ checkout = Idle /\ address' = TRUE
        /\ UNCHANGED <<provider, row, open, customer, agreements, checkout, checkouts, failures,
                       unsure, superseded>>
    BY <1>1 DEF SaveAddress, News, GatType, theirs
  <2>2. address' \in BOOLEAN
    BY <2>1, Zenon
  <2>3. GatType'
    BY <2>1, <2>2 DEF GatType
  <2>4. HoldsLate' /\ OldClosed' /\ PixReady'
    BY <2>1, IdleType DEF HoldsLate, OldClosed, PixReady
  <2> QED
    BY <2>1, <2>3, <2>4 DEF NoStrayAgreement, PixHasAddress
<1>2. ASSUME NEW s \in Status, StatusChanges(s) PROVE GatInv'
  <2>1. /\ news' \in 0 .. MaxNews /\ row' = [row EXCEPT !.status = s]
        /\ UNCHANGED <<provider, address, open, customer, agreements, checkout, checkouts,
                       failures, unsure, superseded>>
    BY <1>2 DEF StatusChanges, News, GatType, theirs
  <2>2. row' \in [agreement : Nat, status : Status] /\ row'.agreement = row.agreement
    BY <2>1 DEF GatType
  <2>3. GatType'
    BY <2>1, <2>2 DEF GatType
  <2>4. HoldsLate' /\ OldClosed' /\ PixReady'
    BY <2>1, <2>2 DEF HoldsLate, OldClosed, PixReady
  <2> QED
    BY <2>1, <2>2, <2>3, <2>4 DEF NoStrayAgreement, PixHasAddress
<1> QED
  BY <1>1, <1>2

LEMMA GatStep ==
  GatInv /\ [GatNext]_gatVars => GatInv'
<1> SUFFICES ASSUME GatInv, [GatNext]_gatVars PROVE GatInv'
  OBVIOUS
<1>1. CASE CheckoutCard \/ CheckoutPix
  BY <1>1, CheckoutStep
<1>2. CASE CodeTaken
  BY <1>2, CustomerStep DEF Outcome
<1>3. CASE AssertInitialCharge \/ PersistFails
  BY <1>3, LateStep DEF Outcome
<1>4. ASSUME NEW o \in Outcome,
             \/ CancelOld(o) \/ CreateCustomer(o) \/ UpdateCustomer(o)
             \/ PaymentProfile(o) \/ Withdraw(o)
      PROVE  GatInv'
  BY <1>4, CancelOldStep, WithdrawStep, CustomerStep
<1>5. ASSUME NEW o \in Outcome, NEW yes \in BOOLEAN,
             Find(o, yes) \/ FindAgain(o, yes) \/ PollBill(o, yes)
      PROVE  GatInv'
  BY <1>5, CustomerStep, LateStep
<1>6. ASSUME NEW o \in Outcome, NEW bill \in Bill, SubscribeVindi(o, bill)
      PROVE  GatInv'
  BY <1>6, SubscribeStep
<1>7. ASSUME NEW o \in Outcome, NEW s \in {"active", "pending", "failed"}, SubscribePagBank(o, s)
      PROVE  GatInv'
  BY <1>7, SubscribeStep
<1>8. CASE Persist
  BY <1>8, PersistStep
<1>9. CASE RequestDies
  BY <1>9, DiesStep
<1>10. CASE SaveAddress \/ \E s \in Status : StatusChanges(s)
  BY <1>10, NewsStep
<1>11. CASE UNCHANGED gatVars
  BY <1>11 DEF gatVars, GatInv, GatType, HoldsLate, OldClosed, PixReady,
                NoStrayAgreement, PixHasAddress
<1> QED
  BY <1>1, <1>2, <1>3, <1>4, <1>5, <1>6, <1>7, <1>8, <1>9, <1>10, <1>11 DEF GatNext

(* The strengthening: an agreement is held from the moment the provider    *)
(* tells of it until the row names it or it is withdrawn.                  *)
THEOREM GatInvariant == GatSpec => []GatInv
BY GatInitial, GatStep, PTL DEF GatSpec

(* The state of the checkout is well formed: the row and the checkout name *)
(* only agreements that the provider has, and a checkout polls no more     *)
(* often than it may (payments/providers/vindi.ts).                        *)
THEOREM GatTypeCorrect == GatSpec => []GatTypeOK
<1>1. GatInv => GatTypeOK
  <2> SUFFICES ASSUME GatInv PROVE GatTypeOK
    OBVIOUS
  <2>1. checkout \in Checkout /\ checkout.agreement <= Len(agreements)
    BY DEF GatInv, GatType
  <2>2. row.agreement \in 0 .. Len(agreements) /\ row.status \in Status
        /\ row = [agreement |-> row.agreement, status |-> row.status]
    BY DEF GatInv, GatType
  <2>3. checkout.agreement \in 0 .. Len(agreements)
    BY <2>1 DEF Checkout
  <2>4. checkout.pix \in BOOLEAN
    BY <2>1, Zenon DEF Checkout
  <2>5. /\ checkout.at \in {"idle", "cancel_old", "find", "create_customer", "find_again",
              "put_address", "profile", "subscribe", "poll", "assert", "withdraw", "persist"}
        /\ checkout.polls \in 0 .. Polls /\ checkout.bill \in Bill /\ checkout.status \in Status
    BY <2>1 DEF Checkout, Early, Late
  <2>6. address \in BOOLEAN
    BY Zenon DEF GatInv, GatType
  <2> QED
    BY <2>2, <2>3, <2>4, <2>5, <2>6 DEF GatInv, GatType, GatTypeOK, Agreement
<1> QED
  BY <1>1, GatInvariant, PTL

(* An agreement that is open at the provider is one the tenant's row names *)
(* or a checkout holds, however many calls are refused, lost or cut off by *)
(* a death, but for those of which a call failed and those that a checkout *)
(* by card or during a trial leaves behind (billing/subscriptions.ts,      *)
(* payments/providers/vindi.ts).                                           *)
THEOREM NoAgreementStrays == GatSpec => []NoStrayAgreement
<1>1. GatInv => NoStrayAgreement
  BY DEF GatInv
<1> QED
  BY <1>1, GatInvariant, PTL

(* Every agreement by Pix has a customer with a billing address at Vindi,  *)
(* however the customer came about (vindi.ts, getOrCreateCustomer).        *)
THEOREM PixAddressed == GatSpec => []PixHasAddress
<1>1. GatInv => PixHasAddress
  BY DEF GatInv
<1> QED
  BY <1>1, GatInvariant, PTL

--------------------------------------------------------------------------------
(* The people of a tenant.                                                 *)

Doing == {Ready} \cup [at : {"accept"}, user : User, password : Password]
                 \cup [at : {"unlock"}, browser : Browser, user : User]
Cookies == [user : User \cup {Nobody}, until : Nat]
Sessions == [user : User \cup {Nobody}, role : Role]
Typed == [browser : Browser, user : User, at : Time]
Counter == [count : Nat, until : Nat]

USE AccAssumption

LEMMA TimeIsNat ==
  ASSUME time \in Time
  PROVE  time \in Nat
BY DEF Time

LEMMA AccInitType ==
  AccInit => AccTypeOK
<1> SUFFICES ASSUME AccInit PROVE AccTypeOK
  OBVIOUS
<1>1. time \in Time /\ tenant \in {"active", "suspended"} /\ pin \in Pin \cup {NoPin}
  BY DEF AccInit, Time
<1>2. account \in [User -> Account]
  <2>1. Member("admin") \in Account /\ Member("vendedor") \in Account /\ Absent \in Account
    BY DEF Member, Absent, Account, Role
  <2> QED
    BY <2>1 DEF AccInit
<1>3. session \in [Browser -> Sessions] /\ unlocked \in [Browser -> Cookies]
  BY DEF AccInit, NoSession, NoCookie, Sessions, Cookies, Role
<1>4. invites = {} /\ platform \in [Browser -> Nat] /\ doing \in [Request -> Doing]
  BY DEF AccInit, Doing
<1>5. counter \in [User -> Counter] /\ passed \in [User -> [Time -> Nat]]
  BY DEF AccInit, NoCounter, Counter
<1>6. started \in 0 .. MaxOps /\ typed = {}
  BY DEF AccInit
<1> QED
  BY <1>1, <1>2, <1>3, <1>4, <1>5, <1>6 DEF AccTypeOK, Sessions, Cookies, Doing, Counter

LEMMA StartsType ==
  ASSUME AccTypeOK, Starts
  PROVE  started' \in 0 .. MaxOps
BY DEF AccTypeOK, Starts

LEMMA SessionType ==
  ASSUME AccTypeOK, NEW b \in Browser, SignedIn(b)
  PROVE  session[b].user \in User
BY DEF AccTypeOK, SignedIn

LEMMA CountType ==
  ASSUME AccTypeOK, NEW u \in User, Count(u)
  PROVE  counter' \in [User -> Counter]
<1>1. counter[u] \in Counter /\ time \in Nat
  BY TimeIsNat DEF AccTypeOK, Counter
<1> DEFINE c == IF Live(u) THEN [count |-> counter[u].count + 1, until |-> counter[u].until]
                           ELSE [count |-> 1, until |-> time + Window]
<1>2. c \in Counter
  BY <1>1 DEF Counter
<1>3. counter' = [counter EXCEPT ![u] = c]
  <2>1. CASE Live(u)
    BY <2>1 DEF Count
  <2>2. CASE ~Live(u)
    BY <2>2 DEF Count
  <2> QED
    BY <2>1, <2>2
<1> HIDE DEF c
<1> QED
  BY <1>2, <1>3 DEF AccTypeOK, Counter

(* The sessions and what is in the browser.                                *)
LEMMA SessionStepType ==
  ASSUME AccTypeOK, NEW b \in Browser,
         \/ Logout(b) \/ PlatformLogin(b) \/ LockManagerArea(b)
         \/ \E s \in {"active", "suspended"} : SetTenant(b, s)
         \/ \E u \in User, p \in Password : Login(b, u, p)
         \/ \E p \in Pin \cup {NoPin} : SetManagerPin(b, p)
  PROVE  AccTypeOK'
<1> USE DEF AccTypeOK
<1>1. CASE Logout(b)
  <2>1. NoSession \in Sessions
    BY DEF NoSession, Sessions, Role
  <2>2. session' \in [Browser -> Sessions]
    BY <1>1, <2>1 DEF Logout, Sessions
  <2> QED
    BY <1>1, <2>2 DEF Logout, Sessions
<1>2. CASE PlatformLogin(b)
  <2>1. platform' \in [Browser -> Nat]
    BY <1>2, TimeIsNat DEF PlatformLogin
  <2> QED
    BY <1>2, <2>1, StartsType DEF PlatformLogin
<1>3. CASE LockManagerArea(b)
  <2>1. NoCookie \in Cookies
    BY DEF NoCookie, Cookies
  <2>2. unlocked' \in [Browser -> Cookies] /\ typed' \subseteq Typed
    BY <1>3, <2>1 DEF LockManagerArea, Cookies, Typed
  <2> QED
    BY <1>3, <2>2 DEF LockManagerArea, Cookies, Typed
<1>4. ASSUME NEW s \in {"active", "suspended"}, SetTenant(b, s) PROVE AccTypeOK'
  BY <1>4 DEF SetTenant
<1>5. ASSUME NEW u \in User, NEW p \in Password, Login(b, u, p) PROVE AccTypeOK'
  <2>1. account[u].role \in Role
    BY DEF Account
  <2>2. session' \in [Browser -> Sessions]
    BY <1>5, <2>1 DEF Login, Sessions
  <2> QED
    BY <1>5, <2>2, StartsType DEF Login, Sessions
<1>6. ASSUME NEW p \in Pin \cup {NoPin}, SetManagerPin(b, p) PROVE AccTypeOK'
  BY <1>6, StartsType DEF SetManagerPin
<1> QED
  BY <1>1, <1>2, <1>3, <1>4, <1>5, <1>6

(* The accounts and what is done to them.                                  *)
LEMMA AccountStepType ==
  ASSUME AccTypeOK, NEW u \in User,
         \/ \E b \in Browser, r \in Role : InviteUser(b, u, r) \/ UpdateUserRole(b, u, r)
         \/ \E b \in Browser : ResendInvite(b, u)
         \/ RefuseTry(u)
  PROVE  AccTypeOK'
<1> USE DEF AccTypeOK
<1>1. Link(u) \in [user : User, until : Nat]
  BY TimeIsNat DEF Link
<1>2. account[u] \in Account
  OBVIOUS
<1>3. ASSUME NEW b \in Browser, NEW r \in Role, InviteUser(b, u, r) PROVE AccTypeOK'
  <2> DEFINE a == [account[u] EXCEPT !.status = "invited", !.role = r]
  <2>1. a \in Account
    BY <1>2 DEF Account
  <2>2. account' = [account EXCEPT ![u] = a]
    BY <1>2, <1>3 DEF InviteUser, Account
  <2> HIDE DEF a
  <2>3. account' \in [User -> Account]
    BY <2>1, <2>2
  <2> QED
    BY <1>1, <1>3, <2>3, StartsType DEF InviteUser
<1>4. ASSUME NEW b \in Browser, NEW r \in Role, UpdateUserRole(b, u, r) PROVE AccTypeOK'
  <2> DEFINE a == [account[u] EXCEPT !.role = r]
  <2>1. a \in Account
    BY <1>2 DEF Account
  <2>2. account' = [account EXCEPT ![u] = a]
    BY <1>4 DEF UpdateUserRole
  <2> HIDE DEF a
  <2>3. account' \in [User -> Account]
    BY <2>1, <2>2
  <2> QED
    BY <1>4, <2>3, StartsType DEF UpdateUserRole
<1>5. ASSUME NEW b \in Browser, ResendInvite(b, u) PROVE AccTypeOK'
  BY <1>1, <1>5, StartsType DEF ResendInvite
<1>6. CASE RefuseTry(u)
  <2>1. counter' \in [User -> Counter] /\ started' \in 0 .. MaxOps
    BY <1>6, CountType DEF RefuseTry
  <2> QED
    BY <1>6, <2>1 DEF RefuseTry, Counter
<1> QED
  BY <1>3, <1>4, <1>5, <1>6

(* What a request reads and what it writes later.                          *)
LEMMA RequestStepType ==
  ASSUME AccTypeOK, NEW q \in Request,
         \/ \E i \in invites, p \in Password : AcceptRead(q, i, p)
         \/ \E b \in Browser, p \in Pin : UnlockRead(q, b, p)
         \/ AcceptCommit(q) \/ UnlockDone(q)
  PROVE  AccTypeOK'
<1> USE DEF AccTypeOK
<1>1. doing \in [Request -> Doing] /\ Ready \in Doing
  BY DEF Doing
<1>2. ASSUME NEW i \in invites, NEW p \in Password, AcceptRead(q, i, p) PROVE AccTypeOK'
  <2>1. [at |-> "accept", user |-> i.user, password |-> p] \in Doing
    BY DEF Doing
  <2>2. doing' \in [Request -> Doing]
    BY <1>1, <1>2, <2>1 DEF AcceptRead
  <2> QED
    BY <1>2, <2>2, StartsType DEF AcceptRead, Doing
<1>3. ASSUME NEW b \in Browser, NEW p \in Pin, UnlockRead(q, b, p) PROVE AccTypeOK'
  <2>1. session[b].user \in User
    BY <1>3, SessionType DEF UnlockRead
  <2>2. [at |-> "unlock", browser |-> b, user |-> session[b].user] \in Doing
    BY <2>1 DEF Doing
  <2>3. doing' \in [Request -> Doing]
    BY <1>1, <1>3, <2>2 DEF UnlockRead
  <2>4. counter' \in [User -> Counter] /\ passed' \in [User -> [Time -> Nat]]
    <3> DEFINE u == session[b].user
    <3>1. CASE Passes(u)
      <4> DEFINE n == [passed[u] EXCEPT ![time] = @ + 1]
      <4>1. n \in [Time -> Nat]
        BY <2>1
      <4>2. passed' = [passed EXCEPT ![u] = n]
        BY <3>1 DEF Passes
      <4> HIDE DEF n
      <4>3. passed' \in [User -> [Time -> Nat]]
        BY <4>1, <4>2
      <4> QED
        BY <2>1, <3>1, <4>3, CountType DEF Passes
    <3>2. CASE Uncounted
      BY <3>2 DEF Uncounted, Counter
    <3> QED
      BY <1>3, <3>1, <3>2 DEF UnlockRead
  <2> QED
    BY <1>3, <2>3, <2>4, StartsType DEF UnlockRead, Doing, Counter
<1>4. CASE AcceptCommit(q)
  <2> DEFINE u == doing[q].user
  <2>1. u \in User /\ doing[q].password \in Password
    BY <1>4 DEF AcceptCommit, Ready
  <2> DEFINE a == [account[u] EXCEPT !.status = "active", !.password = doing[q].password]
  <2>1a. account[u] \in Account
    BY <2>1
  <2>2. a \in Account
    BY <2>1, <2>1a DEF Account
  <2>3. account' = [account EXCEPT ![u] = a]
    BY <1>4, <2>1 DEF AcceptCommit, Account
  <2> HIDE DEF a, u
  <2>4. account' \in [User -> Account]
    BY <2>2, <2>3
  <2>5. doing' \in [Request -> Doing]
    BY <1>1, <1>4 DEF AcceptCommit
  <2> QED
    BY <1>4, <2>4, <2>5 DEF AcceptCommit, Doing
<1>5. CASE UnlockDone(q)
  <2>1. doing[q].user \in User /\ doing[q].browser \in Browser
    BY <1>5 DEF UnlockDone, Ready
  <2>2. Cookie(q) \in Cookies
    BY <2>1, TimeIsNat DEF Cookie, Cookies
  <2>3. unlocked' \in [Browser -> Cookies]
    BY <1>5, <2>2 DEF UnlockDone, Cookies
  <2>4. typed' \subseteq Typed
    BY <1>5, <2>1 DEF UnlockDone, Typed
  <2>5. doing' \in [Request -> Doing]
    BY <1>1, <1>5 DEF UnlockDone
  <2> QED
    BY <1>5, <2>3, <2>4, <2>5 DEF UnlockDone, Cookies, Typed, Doing
<1> QED
  BY <1>2, <1>3, <1>4, <1>5

LEMMA AccStepType ==
  AccTypeOK /\ [AccNext]_accVars => AccTypeOK'
<1> SUFFICES ASSUME AccTypeOK, [AccNext]_accVars PROVE AccTypeOK'
  OBVIOUS
<1>1. CASE AccTick
  <2>1. time' \in Time
    <3>1. time \in 0 .. MaxTime /\ MaxTime \in Nat
      BY DEF AccTypeOK, Time
    <3>2. time < MaxTime /\ time' = time + 1
      BY <1>1 DEF AccTick
    <3> QED
      BY <3>1, <3>2 DEF Time
  <2> QED
    BY <1>1, <2>1 DEF AccTick, AccTypeOK
<1>2. CASE UNCHANGED accVars
  BY <1>2 DEF accVars, AccTypeOK
<1>3. CASE \E b \in Browser : Logout(b) \/ PlatformLogin(b) \/ LockManagerArea(b)
  BY <1>3, SessionStepType
<1>4. CASE \E b \in Browser, s \in {"active", "suspended"} : SetTenant(b, s)
  BY <1>4, SessionStepType
<1>5. CASE \E b \in Browser, u \in User, p \in Password : Login(b, u, p)
  BY <1>5, SessionStepType
<1>6. CASE \E b \in Browser, p \in Pin \cup {NoPin} : SetManagerPin(b, p)
  BY <1>6, SessionStepType
<1>7. CASE \/ \E b \in Browser, u \in User, r \in Role : InviteUser(b, u, r) \/ UpdateUserRole(b, u, r)
           \/ \E b \in Browser, u \in User : ResendInvite(b, u)
           \/ \E u \in User : RefuseTry(u)
  BY <1>7, AccountStepType
<1>8. CASE \/ \E q \in Request, i \in invites, p \in Password : AcceptRead(q, i, p)
           \/ \E q \in Request, b \in Browser, p \in Pin : UnlockRead(q, b, p)
           \/ \E q \in Request : AcceptCommit(q) \/ UnlockDone(q)
  BY <1>8, RequestStepType
<1> QED
  BY <1>1, <1>2, <1>3, <1>4, <1>5, <1>6, <1>7, <1>8 DEF AccNext

(* Accounts, sessions, cookies, counters and requests stay of their types. *)
THEOREM AccTypeCorrect == AccSpec => []AccTypeOK
BY AccInitType, AccStepType, PTL DEF AccSpec

--------------------------------------------------------------------------------
(* One step keeps an account that is settled.                              *)
LEMMA SettledStays ==
  ASSUME AccTypeOK, [AccNext]_accVars, NEW u \in User, Settled(u)
  PROVE  Settled(u)' /\ account'[u].password = account[u].password
<1> USE DEF Settled
<1>1. account[u].status = "active"
  OBVIOUS
<1>2. CASE UNCHANGED <<account, doing>>
  BY <1>2
<1>3. ASSUME NEW b \in Browser, NEW v \in User, NEW r \in Role,
             InviteUser(b, v, r) \/ UpdateUserRole(b, v, r)
      PROVE  Settled(u)' /\ account'[u].password = account[u].password
  <2>1. doing' = doing
    BY <1>3 DEF InviteUser, UpdateUserRole
  <2>2. account'[u].status = account[u].status /\ account'[u].password = account[u].password
    <3>1. CASE InviteUser(b, v, r)
      <4>1. v # u
        BY <1>1, <3>1 DEF InviteUser
      <4> QED
        BY <3>1, <4>1 DEF InviteUser, AccTypeOK
    <3>2. CASE UpdateUserRole(b, v, r)
      BY <3>2 DEF UpdateUserRole, AccTypeOK, Account
    <3> QED
      BY <1>3, <3>1, <3>2
  <2> QED
    BY <2>1, <2>2
<1>4. ASSUME NEW q \in Request, NEW i \in invites, NEW p \in Password, AcceptRead(q, i, p)
      PROVE  Settled(u)' /\ account'[u].password = account[u].password
  <2>1. i.user # u
    BY <1>4 DEF AcceptRead, Pending
  <2> QED
    BY <1>4, <2>1 DEF AcceptRead, AccTypeOK
<1>5. ASSUME NEW q \in Request, NEW b \in Browser, NEW p \in Pin, UnlockRead(q, b, p)
      PROVE  Settled(u)' /\ account'[u].password = account[u].password
  BY <1>5 DEF UnlockRead, AccTypeOK, Ready
<1>6. ASSUME NEW q \in Request, AcceptCommit(q)
      PROVE  Settled(u)' /\ account'[u].password = account[u].password
  <2>1. doing[q].user # u
    BY <1>6 DEF AcceptCommit
  <2> QED
    BY <1>6, <2>1 DEF AcceptCommit, AccTypeOK, Ready
<1>7. ASSUME NEW q \in Request, UnlockDone(q)
      PROVE  Settled(u)' /\ account'[u].password = account[u].password
  BY <1>7 DEF UnlockDone, AccTypeOK, Ready
<1>8. CASE \E b \in Browser :
             \/ Logout(b) \/ PlatformLogin(b) \/ LockManagerArea(b)
             \/ \E s \in {"active", "suspended"} : SetTenant(b, s)
             \/ \E v \in User : ResendInvite(b, v) \/ \E p \in Password : Login(b, v, p)
             \/ \E p \in Pin \cup {NoPin} : SetManagerPin(b, p)
  BY <1>2, <1>8 DEF Logout, PlatformLogin, LockManagerArea, SetTenant, ResendInvite, Login, SetManagerPin
<1>9. CASE AccTick \/ (\E v \in User : RefuseTry(v)) \/ UNCHANGED accVars
  BY <1>2, <1>9 DEF AccTick, RefuseTry, accVars
<1> QED
  BY <1>3, <1>4, <1>5, <1>6, <1>7, <1>8, <1>9 DEF AccNext

(* No link of an account that is active, and that nobody is accepting at   *)
(* the moment, ever changes its password again: neither a link that was    *)
(* sent anew nor an old one, whatever roles, sessions and PINs do          *)
(* meanwhile (auth/invite.ts, users.ts).                                   *)
THEOREM InvitesAreSpent == AccSpec => InviteSpent
<1>1. AccTypeOK /\ [AccNext]_accVars
        => [\A u \in User : Settled(u) =>
              Settled(u)' /\ account'[u].password = account[u].password]_accVars
  BY SettledStays
<1> QED
  BY <1>1, AccTypeCorrect, PTL DEF AccSpec, InviteSpent

--------------------------------------------------------------------------------
(* Behind each cookie of the PIN stands the answer to a right PIN, typed   *)
(* in that browser by that user, that explains how long it holds.          *)
CookieEarned ==
  \A b \in Browser :
    unlocked[b].user # Nobody =>
      \E e \in typed : /\ e.browser = b /\ e.user = unlocked[b].user
                       /\ unlocked[b].until <= e.at + UnlockTime

LEMMA CookieInitial ==
  AccInit => CookieEarned
BY DEF AccInit, CookieEarned, NoCookie

LEMMA CookieStep ==
  AccTypeOK /\ CookieEarned /\ [AccNext]_accVars => CookieEarned'
<1> SUFFICES ASSUME AccTypeOK, CookieEarned, [AccNext]_accVars PROVE CookieEarned'
  OBVIOUS
<1>1. CASE UNCHANGED <<unlocked, typed>>
  BY <1>1 DEF CookieEarned
<1>2. ASSUME NEW q \in Request, UnlockDone(q) PROVE CookieEarned'
  <2> DEFINE c == doing[q].browser
             e == [browser |-> c, user |-> doing[q].user, at |-> time]
  <2>1. c \in Browser /\ doing[q].user \in User
    BY <1>2 DEF UnlockDone, AccTypeOK, Ready
  <2>2. /\ typed' = typed \cup {e}
        /\ unlocked' = [unlocked EXCEPT ![c] = [user |-> doing[q].user, until |-> time + UnlockTime]]
    BY <1>2 DEF UnlockDone, Cookie
  <2>3. e \in typed' /\ e.browser = c /\ e.user = doing[q].user /\ e.at = time /\ time \in Nat
    BY <2>2, TimeIsNat DEF AccTypeOK
  <2> SUFFICES ASSUME NEW b \in Browser, unlocked'[b].user # Nobody
               PROVE  \E x \in typed' : /\ x.browser = b /\ x.user = unlocked'[b].user
                                        /\ unlocked'[b].until <= x.at + UnlockTime
    BY DEF CookieEarned
  <2> HIDE DEF e
  <2>4. CASE b = c
    <3>1. unlocked'[b] = [user |-> doing[q].user, until |-> time + UnlockTime]
      BY <2>2, <2>4 DEF AccTypeOK
    <3> QED
      BY <2>3, <2>4, <3>1
  <2>5. CASE b # c
    <3>1. unlocked'[b] = unlocked[b]
      BY <2>2, <2>5 DEF AccTypeOK
    <3> QED
      BY <2>2, <3>1 DEF CookieEarned
  <2> QED
    BY <2>4, <2>5
<1>3. ASSUME NEW c \in Browser, LockManagerArea(c) PROVE CookieEarned'
  <2>1. typed' = {e \in typed : e.browser # c} /\ unlocked' = [unlocked EXCEPT ![c] = NoCookie]
    BY <1>3 DEF LockManagerArea
  <2>2. ASSUME NEW b \in Browser, unlocked'[b].user # Nobody
        PROVE  b # c /\ unlocked'[b] = unlocked[b]
    BY <2>1, <2>2 DEF AccTypeOK, NoCookie
  <2> QED
    BY <2>1, <2>2 DEF CookieEarned
<1>4. CASE \E b \in Browser :
             \/ Logout(b) \/ PlatformLogin(b)
             \/ \E s \in {"active", "suspended"} : SetTenant(b, s)
             \/ \E v \in User : \/ ResendInvite(b, v)
                                \/ \E p \in Password : Login(b, v, p)
                                \/ \E r \in Role : InviteUser(b, v, r) \/ UpdateUserRole(b, v, r)
             \/ \E p \in Pin \cup {NoPin} : SetManagerPin(b, p)
  BY <1>1, <1>4 DEF Logout, PlatformLogin, SetTenant, ResendInvite, Login, InviteUser,
                    UpdateUserRole, SetManagerPin
<1>5. CASE \E q \in Request :
             \/ AcceptCommit(q) \/ \E i \in invites, p \in Password : AcceptRead(q, i, p)
             \/ \E b \in Browser, p \in Pin : UnlockRead(q, b, p)
  BY <1>1, <1>5 DEF AcceptCommit, AcceptRead, UnlockRead
<1>6. CASE AccTick \/ (\E v \in User : RefuseTry(v)) \/ UNCHANGED accVars
  BY <1>1, <1>6 DEF AccTick, RefuseTry, accVars
<1> QED
  BY <1>2, <1>3, <1>4, <1>5, <1>6 DEF AccNext

(* Who sees the financial area by a cookie typed the right PIN in that     *)
(* browser less than UnlockTime ago, and it has not been locked since,     *)
(* however the browser changed hands and however late the answer was       *)
(* (auth/manager-pin.ts).                                                  *)
THEOREM UnlocksAreEarned == AccSpec => []UnlockEarned
<1>1. AccTypeOK /\ CookieEarned => UnlockEarned
  <2> SUFFICES ASSUME AccTypeOK, CookieEarned, NEW b \in Browser,
                      FinanceOpen(b), ~SeesFinance(session[b].role)
               PROVE  \E e \in typed : /\ e.browser = b /\ e.user = session[b].user
                                       /\ time < e.at + UnlockTime
    BY DEF UnlockEarned
  <2>1. unlocked[b].user = session[b].user /\ session[b].user # Nobody
          /\ time < unlocked[b].until
    BY DEF FinanceOpen, Unlocked, SignedIn
  <2>2. PICK e \in typed : /\ e.browser = b /\ e.user = unlocked[b].user
                           /\ unlocked[b].until <= e.at + UnlockTime
    BY <2>1 DEF CookieEarned
  <2>3. e.at \in Nat /\ time \in Nat /\ unlocked[b].until \in Nat
    BY <2>2 DEF AccTypeOK, Time
  <2> QED
    BY <2>1, <2>2, <2>3
<1> QED
  BY <1>1, AccTypeCorrect, CookieInitial, CookieStep, PTL DEF AccSpec

--------------------------------------------------------------------------------
(* The limit of attempts.  A counter c and the attempts p of a user agree  *)
(* at time t: the window of c has begun by t; nothing has gone through     *)
(* after t or after the end of the window; since the window began as many  *)
(* attempts went through as c counts, at most Limit; and in the window's   *)
(* length before it, at most Limit as well.                                *)
From(p, n) == SumFunctionOnSet(p, {k \in Time : k >= n})
Within(p, m, n) == SumFunctionOnSet(p, {k \in Time : m <= k /\ k < n})
Starting(c) == c.until - Window

Agrees(c, p, t) ==
  /\ c.until <= t + Window
  /\ \A n \in Time : n > t \/ n >= c.until => p[n] = 0
  /\ From(p, Starting(c)) = IF c.count > Limit THEN Limit ELSE c.count
  /\ Within(p, Starting(c) - Window, Starting(c)) <= Limit

CountersAgree == \A u \in User : Agrees(counter[u], passed[u], time)

LEMMA TimeFinite ==
  /\ IsFiniteSet(Time) /\ Time \subseteq Nat
  /\ \A S \in SUBSET Time : IsFiniteSet(S)
<1>1. 0 \in Int /\ MaxTime \in Int
  OBVIOUS
<1>2. IsFiniteSet(Time)
  BY <1>1, FS_Interval DEF Time
<1>3. ASSUME NEW S \in SUBSET Time PROVE IsFiniteSet(S)
  BY <1>2, FS_Subset
<1>4. Time \subseteq Nat
  BY DEF Time
<1> QED
  BY <1>2, <1>3, <1>4

(* Another attempt in the same window, and the first of a new one.         *)
LEMMA AgreesPass ==
  ASSUME NEW c \in Counter, NEW p \in [Time -> Nat], NEW t \in Time, Agrees(c, p, t),
         ~(t < c.until /\ c.count + 1 > Limit)
  PROVE  Agrees(IF t < c.until THEN [count |-> c.count + 1, until |-> c.until]
                               ELSE [count |-> 1, until |-> t + Window],
                [p EXCEPT ![t] = @ + 1], t)
<1> DEFINE q == [p EXCEPT ![t] = @ + 1]
           S == {k \in Time : k >= Starting(c)}
<1>1. /\ q \in [Time -> Nat] /\ q[t] = p[t] + 1 /\ \A k \in Time \ {t} : q[k] = p[k]
      /\ t \in Nat /\ Time \subseteq Nat
  BY TimeFinite
<1>2. c.count \in Nat /\ c.until \in Nat /\ Starting(c) \in Int
  BY DEF Counter, Starting
<1>3. IsFiniteSet(S) /\ S \subseteq Time
  BY TimeFinite
<1> HIDE DEF q
<1>4. CASE t < c.until
  <2> DEFINE d == [count |-> c.count + 1, until |-> c.until]
  <2>1. d.until = c.until /\ d.count = c.count + 1 /\ Starting(d) = Starting(c)
    BY DEF Starting
  <2>2. t \in S
    BY <1>1, <1>2 DEF Agrees, Starting
  <2>3. From(q, Starting(c)) = From(p, Starting(c)) + 1
    <3>1. /\ \A k \in S : p[k] \in Int /\ q[k] \in Int
          /\ \A k \in S \ {t} : q[k] = p[k]
      BY <1>1, <1>3
    <3> HIDE DEF S
    <3>2. SumFunctionOnSet(q, S) = SumFunctionOnSet(p, S) + (q[t] - p[t])
      BY <1>3, <2>2, <3>1, SumChange
    <3>3. q[t] - p[t] = 1
      BY <1>1
    <3> QED
      BY <3>2, <3>3 DEF S, From
  <2>4. From(p, Starting(c)) = c.count /\ c.count < Limit
    BY <1>2, <1>4 DEF Agrees
  <2>5. Within(q, Starting(c) - Window, Starting(c)) = Within(p, Starting(c) - Window, Starting(c))
    <3> DEFINE R == {k \in Time : Starting(c) - Window <= k /\ k < Starting(c)}
    <3>1. \A k \in R : k \in Time /\ k # t
      BY <1>1, <1>2, <2>2
    <3>2. IsFiniteSet(R) /\ \A k \in R : p[k] \in Int /\ q[k] = p[k]
      BY <1>1, <3>1, TimeFinite
    <3> HIDE DEF R
    <3>3. SumFunctionOnSet(q, R) = SumFunctionOnSet(p, R)
      BY <3>2, SumSame
    <3> QED
      BY <3>3 DEF R, Within
  <2>6. \A n \in Time : n > t \/ n >= c.until => q[n] = 0
    BY <1>1, <1>2, <1>4 DEF Agrees
  <2>7. Agrees(d, q, t)
    <3>1. d.until <= t + Window
      BY <2>1 DEF Agrees
    <3>2. \A n \in Time : n > t \/ n >= d.until => q[n] = 0
      BY <2>1, <2>6
    <3>3. From(q, Starting(d)) = IF d.count > Limit THEN Limit ELSE d.count
      BY <1>2, <2>1, <2>3, <2>4
    <3>4. Within(q, Starting(d) - Window, Starting(d)) <= Limit
      BY <2>1, <2>5 DEF Agrees
    <3> QED
      BY <3>1, <3>2, <3>3, <3>4 DEF Agrees
  <2> QED
    BY <1>4, <2>7 DEF q
<1>5. CASE ~(t < c.until)
  <2> DEFINE d == [count |-> 1, until |-> t + Window]
  <2>1. d.until = t + Window /\ d.count = 1 /\ Starting(d) = t
    BY <1>1 DEF Starting
  <2>2. \A n \in Time : n >= t => p[n] = 0
    BY <1>1, <1>2, <1>5 DEF Agrees
  <2>3. From(q, t) = 1
    <3> DEFINE R == {k \in Time : k >= t}
    <3>1. IsFiniteSet(R) /\ t \in R /\ R \subseteq Time
      BY <1>1, TimeFinite
    <3>2. \A k \in R : p[k] = 0 /\ p[k] \in Int /\ q[k] \in Int /\ (k # t => q[k] = p[k])
      BY <1>1, <2>2
    <3> HIDE DEF R
    <3>3. SumFunctionOnSet(p, R) = 0
      BY <3>1, <3>2, SumOfZeros
    <3>4. SumFunctionOnSet(q, R) = SumFunctionOnSet(p, R) + (q[t] - p[t])
      BY <3>1, <3>2, SumChange
    <3>5. q[t] = 1 /\ p[t] = 0
      BY <1>1, <3>1, <3>2
    <3> QED
      BY <3>3, <3>4, <3>5 DEF R, From
  <2>4. Within(q, t - Window, t) <= Limit
    <3> DEFINE R == {k \in Time : t - Window <= k /\ k < t}
    <3>1. R \subseteq S /\ IsFiniteSet(R) /\ t \notin R
      <4>0. t \in Nat /\ \A k \in Time : k \in Nat
        BY <1>1 DEF Time
      <4>1. \A k \in R : k \in Time /\ k \in Nat /\ t - Window <= k /\ k # t
        <5>1. \A k \in R : k \in Time /\ t - Window <= k /\ k < t
          OBVIOUS
        <5> QED
          BY <4>0, <5>1
      <4>2. Starting(c) <= t - Window
        BY <1>1, <1>2, <1>5 DEF Starting
      <4>3. ASSUME NEW k \in R PROVE k \in S
        <5>1. k \in Nat /\ t - Window <= k /\ t - Window \in Int
          BY <1>1, <4>1
        <5>2. Starting(c) <= k
          BY <1>2, <4>2, <5>1
        <5> QED
          BY <4>1, <5>2
      <4>4. IsFiniteSet(R)
        BY TimeFinite
      <4> QED
        BY <4>1, <4>3, <4>4
    <3>2. \A k \in R : p[k] \in Int /\ q[k] = p[k]
      BY <1>1, <3>1
    <3>3. \A k \in S : p[k] \in Nat
      BY <1>3
    <3>4. From(p, Starting(c)) = SumFunctionOnSet(p, S)
      BY DEF From
    <3>r. Within(q, t - Window, t) = SumFunctionOnSet(q, R)
      BY DEF Within
    <3> HIDE DEF R, S
    <3>5. SumFunctionOnSet(q, R) = SumFunctionOnSet(p, R)
      BY <3>1, <3>2, SumSame
    <3>6. SumFunctionOnSet(p, R) <= SumFunctionOnSet(p, S)
          /\ SumFunctionOnSet(p, R) \in Nat /\ SumFunctionOnSet(p, S) \in Nat
      BY <1>3, <3>1, <3>3, SumOfPart
    <3>7. SumFunctionOnSet(p, S) <= Limit
      BY <1>2, <3>4 DEF Agrees
    <3> QED
      BY <3>5, <3>6, <3>7, <3>r
  <2>5. Agrees(d, q, t)
    <3>1. d.until <= t + Window
      BY <1>1, <2>1
    <3>2. \A n \in Time : n > t \/ n >= d.until => q[n] = 0
      BY <1>1, <2>1, <2>2
    <3>3. From(q, Starting(d)) = IF d.count > Limit THEN Limit ELSE d.count
      BY <2>1, <2>3
    <3>4. Within(q, Starting(d) - Window, Starting(d)) <= Limit
      BY <2>1, <2>4
    <3> QED
      BY <3>1, <3>2, <3>3, <3>4 DEF Agrees
  <2> QED
    BY <1>5, <2>5 DEF q
<1> QED
  BY <1>4, <1>5

(* An attempt that is refused is counted and changes nothing else.         *)
LEMMA AgreesRefused ==
  ASSUME NEW c \in Counter, NEW p, NEW t \in Time, Agrees(c, p, t), c.count + 1 > Limit
  PROVE  Agrees([count |-> c.count + 1, until |-> c.until], p, t)
<1> DEFINE d == [count |-> c.count + 1, until |-> c.until]
<1>1. d.until = c.until /\ Starting(d) = Starting(c) /\ d.count = c.count + 1 /\ c.count \in Nat
  BY DEF Starting, Counter
<1> HIDE DEF d
<1>2. (IF c.count > Limit THEN Limit ELSE c.count) = (IF d.count > Limit THEN Limit ELSE d.count)
  BY <1>1
<1>3. Agrees(d, p, t)
  BY <1>1, <1>2 DEF Agrees
<1> QED
  BY <1>3 DEF d

LEMMA AgreesLater ==
  ASSUME NEW c \in Counter, NEW p, NEW t \in Time, Agrees(c, p, t)
  PROVE  Agrees(c, p, t + 1)
<1>1. t \in Nat /\ Time \subseteq Nat /\ c.until \in Nat
  BY TimeFinite DEF Counter
<1> QED
  BY <1>1 DEF Agrees

(* What the agreement says of the last Window of time.                     *)
LEMMA AgreedTries ==
  ASSUME NEW c \in Counter, NEW p \in [Time -> Nat], NEW t \in Time, Agrees(c, p, t),
         NEW s, s = SumFunctionOnSet(p, {n \in 0 .. t : n >= t - Window + 1})
  PROVE  s <= 2 * Limit /\ (t < c.until /\ c.count + 1 > Limit => s >= Limit)
<1> DEFINE Z == {n \in 0 .. t : n >= t - Window + 1}
           S == {k \in Time : k >= Starting(c)}
           R == {k \in Time : Starting(c) - Window <= k /\ k < Starting(c)}
<1>1. t \in Nat /\ Time \subseteq Nat /\ 0 .. t \subseteq Time
  BY DEF Time
<1>2. c.count \in Nat /\ c.until \in Nat /\ Starting(c) \in Int
  BY DEF Counter, Starting
<1>3. Z \subseteq Time /\ S \subseteq Time /\ R \subseteq Time /\ S \cap R = {}
      /\ IsFiniteSet(Z) /\ IsFiniteSet(S) /\ IsFiniteSet(R) /\ IsFiniteSet(S \cup R)
  <2>1. Z \subseteq Time /\ S \subseteq Time /\ R \subseteq Time /\ S \cup R \subseteq Time
    BY <1>1
  <2>2. ASSUME NEW k \in S, k \in R PROVE FALSE
    <3>1. k \in Nat /\ k >= Starting(c) /\ k < Starting(c)
      BY <1>1, <2>2
    <3> QED
      BY <1>2, <3>1
  <2> HIDE DEF Z, S, R
  <2> QED
    BY <2>1, <2>2, TimeFinite
<1>4. SumFunctionOnSet(p, S) = IF c.count > Limit THEN Limit ELSE c.count
  BY DEF Agrees, From
<1>5. SumFunctionOnSet(p, R) <= Limit
  BY DEF Agrees, Within
<1>6. Z \subseteq S \cup R
  BY <1>1, <1>2 DEF Agrees, Starting
<1> DEFINE U == S \cap 0 .. t
<1>7. U \subseteq S /\ SumFunctionOnSet(p, S) = SumFunctionOnSet(p, U)
  <2> DEFINE O == S \ U
  <2>1. \A k \in O : p[k] = 0
    BY <1>1 DEF Agrees
  <2>2. IsFiniteSet(U) /\ IsFiniteSet(O) /\ U \cap O = {} /\ U \cup O = S
    BY <1>3, FS_Subset
  <2>3. \A k \in U \cup O : p[k] \in Nat
    BY <1>3, <2>2
  <2> HIDE DEF O, U, S
  <2>4. SumFunctionOnSet(p, O) = 0
    BY <2>1, <2>2, SumOfZeros
  <2>5. SumFunctionOnSet(p, U \cup O) = SumFunctionOnSet(p, U) + SumFunctionOnSet(p, O)
    BY <2>2, <2>3, SumOfUnion
  <2>6. SumFunctionOnSet(p, U) \in Int
    BY <2>2, <2>3, SumType
  <2>7. SumFunctionOnSet(p, S) = SumFunctionOnSet(p, U) + SumFunctionOnSet(p, O)
    BY <2>2, <2>5
  <2>8. U \subseteq S
    BY <2>2
  <2> QED
    BY <2>4, <2>6, <2>7, <2>8
<1>8. t < c.until => U \subseteq Z
  BY <1>1, <1>2 DEF Starting
<1>9. s = SumFunctionOnSet(p, Z)
  OBVIOUS
<1>10. \A k \in Time : p[k] \in Nat
  OBVIOUS
<1> HIDE DEF Z, S, R, U
<1>11. /\ SumFunctionOnSet(p, S \cup R) = SumFunctionOnSet(p, S) + SumFunctionOnSet(p, R)
       /\ SumFunctionOnSet(p, Z) <= SumFunctionOnSet(p, S \cup R)
       /\ SumFunctionOnSet(p, S) \in Nat /\ SumFunctionOnSet(p, R) \in Nat
       /\ SumFunctionOnSet(p, Z) \in Nat
  <2>1. \A k \in S \cup R : p[k] \in Nat /\ p[k] \in Int
    BY <1>3, <1>10
  <2>2. SumFunctionOnSet(p, S \cup R) = SumFunctionOnSet(p, S) + SumFunctionOnSet(p, R)
    BY <1>3, <2>1, SumOfUnion
  <2>3. SumFunctionOnSet(p, Z) <= SumFunctionOnSet(p, S \cup R) /\ SumFunctionOnSet(p, Z) \in Nat
    BY <1>3, <1>6, <2>1, SumOfPart
  <2>4. S \subseteq S \cup R /\ R \subseteq S \cup R
    OBVIOUS
  <2>5. SumFunctionOnSet(p, S) \in Nat
    BY <1>3, <2>1, <2>4, SumOfPart
  <2>6. SumFunctionOnSet(p, R) \in Nat
    BY <1>3, <2>1, <2>4, SumOfPart
  <2> QED
    BY <2>2, <2>3, <2>5, <2>6
<1>12. SumFunctionOnSet(p, S) <= Limit
  BY <1>2, <1>4
<1>13. s <= 2 * Limit
  BY <1>5, <1>9, <1>11, <1>12
<1>14. ASSUME t < c.until, c.count + 1 > Limit PROVE s >= Limit
  <2>1. SumFunctionOnSet(p, S) = Limit
    BY <1>2, <1>4, <1>14
  <2>2. U \subseteq Z /\ \A k \in Z : p[k] \in Nat
    BY <1>3, <1>8, <1>10, <1>14
  <2>3. SumFunctionOnSet(p, U) <= SumFunctionOnSet(p, Z)
    BY <1>3, <2>2, SumOfPart
  <2> QED
    BY <1>7, <1>9, <2>1, <2>3
<1> QED
  BY <1>13, <1>14

LEMMA TriesInitial ==
  AccInit => CountersAgree
<1> SUFFICES ASSUME AccInit, NEW u \in User PROVE Agrees(counter[u], passed[u], time)
  BY DEF CountersAgree
<1> DEFINE p == [t \in Time |-> 0]
           S == {k \in Time : k >= Starting(NoCounter)}
           R == {k \in Time : Starting(NoCounter) - Window <= k /\ k < Starting(NoCounter)}
<1>1. counter[u] = NoCounter /\ passed[u] = p /\ time = 0
  BY DEF AccInit
<1>2. IsFiniteSet(S) /\ IsFiniteSet(R) /\ \A k \in S \cup R : p[k] = 0
  BY TimeFinite
<1>3. From(p, Starting(NoCounter)) = 0 /\ Within(p, Starting(NoCounter) - Window, Starting(NoCounter)) = 0
  <2> HIDE DEF S, R, p
  <2>1. SumFunctionOnSet(p, S) = 0
    BY <1>2, SumOfZeros
  <2>2. SumFunctionOnSet(p, R) = 0
    BY <1>2, SumOfZeros
  <2> QED
    BY <2>1, <2>2 DEF S, R, From, Within
<1>4. NoCounter.count = 0 /\ NoCounter.until = 0
  BY DEF NoCounter
<1>5. \A n \in Time : p[n] = 0
  OBVIOUS
<1> HIDE DEF p
<1>6. Agrees(NoCounter, p, 0)
  BY <1>3, <1>4, <1>5 DEF Agrees
<1> QED
  BY <1>1, <1>6

LEMMA TriesStep ==
  AccTypeOK /\ CountersAgree /\ [AccNext]_accVars => CountersAgree'
<1> SUFFICES ASSUME AccTypeOK, CountersAgree, [AccNext]_accVars, NEW u \in User
             PROVE  Agrees(counter[u], passed[u], time)'
  BY DEF CountersAgree
<1>1. counter[u] \in Counter /\ passed[u] \in [Time -> Nat] /\ time \in Time
  BY DEF AccTypeOK, Counter
<1>2. Agrees(counter[u], passed[u], time)
  BY DEF CountersAgree
<1>3. CASE UNCHANGED <<counter, passed, time>>
  BY <1>2, <1>3
<1>4. CASE AccTick
  BY <1>1, <1>2, <1>4, AgreesLater DEF AccTick
<1>5. ASSUME NEW v \in User, Passes(v), time' = time
      PROVE  Agrees(counter[u], passed[u], time)'
  <2>1. CASE u = v
    <3>1. passed'[u] = [passed[u] EXCEPT ![time] = @ + 1]
      BY <1>1, <1>5, <2>1 DEF Passes, AccTypeOK
    <3>2. counter'[u] = IF time < counter[u].until
                          THEN [count |-> counter[u].count + 1, until |-> counter[u].until]
                          ELSE [count |-> 1, until |-> time + Window]
      <4>1. CASE Live(u)
        BY <1>5, <2>1, <4>1 DEF Passes, Count, AccTypeOK, Live
      <4>2. CASE ~Live(u)
        BY <1>5, <2>1, <4>2 DEF Passes, Count, AccTypeOK, Live
      <4> QED
        BY <4>1, <4>2
    <3>3. ~(time < counter[u].until /\ counter[u].count + 1 > Limit)
      BY <1>5, <2>1 DEF Passes, Exhausted, Live
    <3> QED
      BY <1>1, <1>2, <1>5, <3>1, <3>2, <3>3, AgreesPass
  <2>2. CASE u # v
    <3>1. passed'[u] = passed[u] /\ counter'[u] = counter[u]
      BY <1>5, <2>2 DEF Passes, Count, AccTypeOK
    <3> QED
      BY <1>2, <1>5, <3>1
  <2> QED
    BY <2>1, <2>2
<1>6. ASSUME NEW v \in User, RefuseTry(v) PROVE Agrees(counter[u], passed[u], time)'
  <2>1. passed' = passed /\ time' = time
    BY <1>6 DEF RefuseTry
  <2>2. CASE u = v
    <3>1. Live(u) /\ counter[u].count + 1 > Limit /\ Count(u)
      BY <1>6, <2>2 DEF RefuseTry, Exhausted
    <3>2. counter'[u] = [count |-> counter[u].count + 1, until |-> counter[u].until]
      BY <3>1 DEF Count, AccTypeOK
    <3> QED
      BY <1>1, <1>2, <2>1, <3>1, <3>2, AgreesRefused
  <2>3. CASE u # v
    <3>1. counter'[u] = counter[u]
      BY <1>6, <2>3 DEF RefuseTry, Count, AccTypeOK
    <3> QED
      BY <1>2, <2>1, <3>1
  <2> QED
    BY <2>2, <2>3
<1>7. ASSUME NEW q \in Request, NEW b \in Browser, NEW p \in Pin, UnlockRead(q, b, p)
      PROVE  Agrees(counter[u], passed[u], time)'
  <2>1. time' = time /\ (Passes(session[b].user) \/ Uncounted) /\ session[b].user \in User
    BY <1>7, SessionType DEF UnlockRead
  <2> QED
    BY <1>3, <1>5, <2>1 DEF Uncounted
<1>8. CASE \E b \in Browser :
             \/ Logout(b) \/ PlatformLogin(b) \/ LockManagerArea(b)
             \/ \E s \in {"active", "suspended"} : SetTenant(b, s)
             \/ \E v \in User : \/ ResendInvite(b, v)
                                \/ \E p \in Password : Login(b, v, p)
                                \/ \E r \in Role : InviteUser(b, v, r) \/ UpdateUserRole(b, v, r)
             \/ \E p \in Pin \cup {NoPin} : SetManagerPin(b, p)
  BY <1>3, <1>8 DEF Logout, PlatformLogin, LockManagerArea, SetTenant, ResendInvite, Login,
                    InviteUser, UpdateUserRole, SetManagerPin
<1>9. CASE \E q \in Request :
             \/ AcceptCommit(q) \/ UnlockDone(q)
             \/ \E i \in invites, p \in Password : AcceptRead(q, i, p)
  BY <1>3, <1>9 DEF AcceptCommit, UnlockDone, AcceptRead
<1>10. CASE UNCHANGED accVars
  BY <1>3, <1>10 DEF accVars
<1> QED
  BY <1>4, <1>6, <1>7, <1>8, <1>9, <1>10 DEF AccNext

(* However attempts, refusals and the failures of Redis follow each other, *)
(* no stretch of time as long as a window lets more than two limits of     *)
(* counted attempts through, and who is refused has used a whole limit up  *)
(* within it (lib/rate-limit.ts).                                          *)
THEOREM TriesAreCounted == AccSpec => []TriesCounted
<1>1. AccTypeOK /\ CountersAgree => TriesCounted
  <2> SUFFICES ASSUME AccTypeOK, CountersAgree, NEW u \in User
               PROVE  /\ Since(u, time - Window + 1) <= 2 * Limit
                      /\ Exhausted(u) => Since(u, time - Window + 1) >= Limit
    BY DEF TriesCounted
  <2>1. /\ counter[u] \in Counter /\ passed[u] \in [Time -> Nat] /\ time \in Time
        /\ Agrees(counter[u], passed[u], time)
    BY DEF AccTypeOK, Counter, CountersAgree
  <2>2. Since(u, time - Window + 1)
          = SumFunctionOnSet(passed[u], {n \in 0 .. time : n >= time - Window + 1})
    BY DEF Since
  <2> HIDE DEF Since
  <2> QED
    BY <2>1, <2>2, AgreedTries DEF Exhausted, Live
<1> QED
  BY <1>1, AccInitType, AccStepType, TriesInitial, TriesStep, PTL DEF AccSpec

--------------------------------------------------------------------------------
(* The daily jobs.                                                         *)

Note == [tenant : Tenant, of : Alert]
Run == [state : {"none", "active", "waiting", "orphan"}, tries : Int, stalls : Nat,
        todo : SUBSET Tenant]

WorkType ==
  /\ followed \in Job
  /\ now \in Nat /\ now > 0 /\ errors \in Nat
  /\ run \in Run
  /\ broken \subseteq Tenant
  /\ telling \subseteq Note /\ owed \subseteq Note
  /\ told \in [Tenant -> [Alert -> Nat]]

(* Each attempt but the one under way has cost an error, as long as no     *)
(* tenant fails the scan by itself.  An attempt cut off by a death is none *)
AttemptsCostErrors ==
  followed = "charge" \/ broken = {} =>
    /\ run.state \in {"active", "orphan"} => run.tries - 1 <= errors
    /\ run.state = "waiting" => run.tries <= errors

(* What is owed is still to be told, would be told now, and belongs to a   *)
(* tenant that the attempt under way has not come to.                      *)
OwedIsAhead ==
  followed = "scan" =>
    \A it \in owed :
      /\ it \in telling /\ Rested(it.tenant, it.of)
      /\ run.state = "active" => it.tenant \in run.todo

WorkInv == WorkType /\ AttemptsCostErrors /\ OwedIsAhead

USE WorkAssumption

LEMMA WorkInitial ==
  WorkInit => WorkInv
<1> SUFFICES ASSUME WorkInit PROVE WorkInv
  OBVIOUS
<1>1. WorkType
  BY DEF WorkInit, WorkType, NoRun, Run, Note, Job
<1> QED
  BY <1>1 DEF WorkInit, WorkInv, AttemptsCostErrors, OwedIsAhead, NoRun

(* An attempt starts over: every tenant is ahead of it.                    *)
LEMMA ActiveType ==
  ASSUME NEW r \in Run
  PROVE  /\ Active(r) \in Run /\ Active(r).state = "active"
         /\ Active(r).tries = r.tries + 1 /\ Active(r).todo = Tenant
<1>1. r.tries + 1 \in Int /\ Tenant \in SUBSET Tenant
  BY DEF Run
<1> DEFINE n == r.tries + 1
<1> HIDE DEF n
<1>2. Active(r) = [r EXCEPT !.state = "active", !.tries = n, !.todo = Tenant]
  BY DEF Active, n
<1>3. n \in Int
  BY <1>1 DEF n
<1>4. Active(r) \in Run
  BY <1>1, <1>2, <1>3 DEF Run
<1>5. Active(r).state = "active" /\ Active(r).tries = n /\ Active(r).todo = Tenant
  BY <1>2 DEF Run
<1> QED
  BY <1>4, <1>5 DEF n

LEMMA NoRunType ==
  NoRun \in Run /\ NoRun.state = "none" /\ NoRun.tries = 0
BY DEF NoRun, Run

(* Steps of the process and the clock.                                     *)
LEMMA ProcessStep ==
  ASSUME WorkInv, Boot \/ Schedule \/ ScheduleFails \/ Shutdown \/ Exit \/ Killed \/ WorkTick
  PROVE  WorkInv'
<1> USE DEF WorkInv
<1>1. CASE Boot \/ Schedule \/ Shutdown \/ Exit
  <2>1. UNCHANGED <<followed, now, run, broken, telling, notices, errors>>
    BY <1>1 DEF Boot, Schedule, Shutdown, Exit, faults
  <2> QED
    BY <2>1 DEF WorkType, AttemptsCostErrors, OwedIsAhead, Rested, notices
<1>2. CASE ScheduleFails
  <2>1. UNCHANGED <<followed, now, run, broken, telling, notices>> /\ errors' = errors + 1
    BY <1>2 DEF ScheduleFails
  <2>2. WorkType'
    BY <2>1 DEF WorkType, notices
  <2>3. AttemptsCostErrors'
    BY <2>1 DEF WorkType, Run, AttemptsCostErrors
  <2> QED
    BY <2>1, <2>2, <2>3 DEF OwedIsAhead, Rested, notices
<1>3. CASE Killed
  <2>1. /\ UNCHANGED <<followed, now, broken, telling, notices, errors>>
        /\ run' = Orphaned(run)
    BY <1>3 DEF Killed
  <2>2. run' \in Run /\ run'.tries = run.tries /\ run'.state # "active"
          /\ (run'.state = run.state \/ (run'.state = "orphan" /\ run.state = "active"))
    BY <2>1 DEF WorkType, Orphaned, Run
  <2> QED
    BY <2>1, <2>2 DEF WorkType, AttemptsCostErrors, OwedIsAhead, Rested, notices
<1>4. CASE WorkTick
  <2>1. UNCHANGED <<followed, run, broken, telling, notices, errors>> /\ now' = now + 1
    BY <1>4 DEF WorkTick, faults
  <2>2. WorkType'
    BY <2>1 DEF WorkType, notices
  <2>3. AttemptsCostErrors'
    BY <2>1 DEF AttemptsCostErrors
  <2>4. ASSUME NEW it \in owed, Rested(it.tenant, it.of)
        PROVE  Rested(it.tenant, it.of)'
    <3>1. told[it.tenant][it.of] \in Nat /\ now \in Nat /\ Recent \in Nat
      BY DEF WorkType, Note
    <3> QED
      BY <2>1, <2>4, <3>1 DEF Rested, notices
  <2>5. OwedIsAhead'
    BY <2>1, <2>4 DEF OwedIsAhead, notices
  <2> QED
    BY <2>2, <2>3, <2>5
<1> QED
  BY <1>1, <1>2, <1>3, <1>4

(* Steps of the queue.                                                     *)
LEMMA QueueStep ==
  ASSUME WorkInv, Take \/ TakeAgain \/ Stalled \/ Finish
  PROVE  WorkInv'
<1> USE DEF WorkInv
<1>1. CASE Take
  <2>1. /\ UNCHANGED <<followed, now, broken, telling, told, errors>>
        /\ run' = Active(NoRun)
        /\ owed' = {it \in telling : Rested(it.tenant, it.of)}
    BY <1>1 DEF Take, faults
  <2>2. run' \in Run /\ run'.state = "active" /\ run'.tries = 1 /\ run'.todo = Tenant
    BY <2>1, NoRunType, ActiveType
  <2>3. WorkType' /\ AttemptsCostErrors'
    BY <2>1, <2>2 DEF WorkType, AttemptsCostErrors
  <2>4. OwedIsAhead'
    BY <2>1, <2>2 DEF WorkType, OwedIsAhead, Rested, Note
  <2> QED
    BY <2>3, <2>4
<1>2. CASE TakeAgain
  <2>1. /\ UNCHANGED <<followed, now, broken, telling, notices, errors>>
        /\ run.state = "waiting" /\ run' = Active(run)
    BY <1>2 DEF TakeAgain, faults
  <2>2. run' \in Run /\ run'.state = "active" /\ run'.tries = run.tries + 1 /\ run'.todo = Tenant
    BY <2>1, ActiveType DEF WorkType
  <2>3. WorkType'
    BY <2>1, <2>2 DEF WorkType, notices
  <2>4. AttemptsCostErrors'
    BY <2>1, <2>2 DEF WorkType, Run, AttemptsCostErrors
  <2>5. OwedIsAhead'
    BY <2>1, <2>2 DEF WorkType, OwedIsAhead, Rested, Note, notices
  <2> QED
    BY <2>3, <2>4, <2>5
<1>3. CASE Stalled
  <2>1. /\ UNCHANGED <<followed, now, broken, telling, notices, errors>>
        /\ run.state = "orphan"
        /\ \/ run' = [run EXCEPT !.state = "waiting", !.tries = @ - 1, !.stalls = 1]
           \/ run' = NoRun
    BY <1>3 DEF Stalled, EndAs, faults
  <2>2. /\ run' \in Run /\ run'.state \in {"waiting", "none"}
        /\ run'.state = "waiting" => run'.tries = run.tries - 1
    <3> DEFINE n == run.tries - 1
    <3> HIDE DEF n
    <3>1. run \in Run /\ n \in Int
      BY DEF WorkType, Run, n
    <3> DEFINE r == [run EXCEPT !.state = "waiting", !.tries = n, !.stalls = 1]
    <3>2. r \in Run
      BY <3>1 DEF Run
    <3>3. r.state = "waiting" /\ r.tries = n
      BY <3>1 DEF Run
    <3>4. run' \in {r, NoRun}
      BY <2>1 DEF n
    <3> HIDE DEF r
    <3> QED
      BY <3>2, <3>3, <3>4, NoRunType DEF n
  <2>3. WorkType' /\ AttemptsCostErrors'
    BY <2>1, <2>2 DEF WorkType, AttemptsCostErrors, notices
  <2> QED
    BY <2>1, <2>2, <2>3 DEF OwedIsAhead, Rested, notices
<1>4. CASE Finish
  <2>1. UNCHANGED <<followed, now, broken, telling, notices, errors>> /\ run' = NoRun
    BY <1>4 DEF Finish, EndAs, faults
  <2> QED
    BY <2>1, NoRunType DEF WorkType, AttemptsCostErrors, OwedIsAhead, Rested, notices
<1> QED
  BY <1>1, <1>2, <1>3, <1>4

(* Steps of the processors.                                                *)
LEMMA VisitStep ==
  ASSUME WorkInv, Visit
  PROVE  WorkInv'
<1> USE DEF WorkInv
<1>1. run \in Run /\ errors \in Nat
  BY DEF WorkType
<1>2. ASSUME NEW t \in Tenant
      PROVE  /\ [run EXCEPT !.todo = @ \ {t}] \in Run
             /\ [run EXCEPT !.todo = @ \ {t}].state = run.state
             /\ [run EXCEPT !.todo = @ \ {t}].tries = run.tries
             /\ [run EXCEPT !.todo = @ \ {t}].todo = run.todo \ {t}
  BY <1>1 DEF Run
<1>3. ASSUME NEW t \in Tenant, Scan(t) PROVE WorkInv'
  <2>1. /\ UNCHANGED <<followed, now, broken, telling, errors>> /\ followed = "scan"
        /\ owed' = {it \in owed : told'[it.tenant][it.of] # now}
        /\ run' = [run EXCEPT !.todo = @ \ {t}]
    BY <1>3 DEF Scan, Handled, faults
  <2> DEFINE told1 == [a \in Alert |->
                IF [tenant |-> t, of |-> a] \in telling /\ Rested(t, a) THEN now ELSE told[t][a]]
  <2>2. told' = [told EXCEPT ![t] = told1]
    BY <1>3 DEF Scan, WorkType
  <2>3. told1 \in [Alert -> Nat]
    BY DEF WorkType
  <2>4. told' \in [Tenant -> [Alert -> Nat]] /\ told'[t] = told1
          /\ \A u \in Tenant : u # t => told'[u] = told[u]
    <3> HIDE DEF told1
    <3> QED
      BY <2>2, <2>3 DEF WorkType
  <2>5. WorkType'
    BY <1>2, <2>1, <2>4 DEF WorkType
  <2>6. AttemptsCostErrors'
    BY <1>2, <2>1 DEF AttemptsCostErrors
  <2>7. ASSUME NEW it \in owed, told'[it.tenant][it.of] # now
        PROVE  it.tenant # t
    <3>1. it \in Note /\ it \in telling /\ Rested(it.tenant, it.of)
      BY <2>1 DEF WorkType, OwedIsAhead
    <3>2. it = [tenant |-> it.tenant, of |-> it.of] /\ it.of \in Alert
      BY <3>1 DEF Note
    <3>3. it.tenant = t => told1[it.of] = now
      BY <3>1, <3>2
    <3> HIDE DEF told1
    <3> QED
      BY <2>4, <2>7, <3>3
  <2>8. OwedIsAhead'
    <3> SUFFICES ASSUME NEW it \in owed'
                 PROVE  /\ it \in telling /\ Rested(it.tenant, it.of)'
                        /\ run'.state = "active" => it.tenant \in run'.todo
      BY <2>1 DEF OwedIsAhead
    <3>1. it \in owed /\ it.tenant # t /\ it.tenant \in Tenant
      BY <2>1, <2>7 DEF WorkType, Note
    <3>2. told'[it.tenant] = told[it.tenant]
      BY <2>4, <3>1
    <3> QED
      BY <1>2, <2>1, <3>1, <3>2 DEF OwedIsAhead, Rested
  <2> QED
    BY <2>5, <2>6, <2>8
<1>4. ASSUME NEW t \in Tenant, Charge(t) \/ TenantFails(t) PROVE WorkInv'
  <2>1. /\ UNCHANGED <<followed, now, broken, telling, notices>> /\ followed = "charge"
        /\ errors' \in {errors, errors + 1}
        /\ run' = [run EXCEPT !.todo = @ \ {t}]
    BY <1>4 DEF Charge, TenantFails, Isolates, Throws, Handled, faults
  <2>2. WorkType' /\ AttemptsCostErrors'
    BY <1>1, <1>2, <2>1 DEF WorkType, AttemptsCostErrors, Run, notices
  <2> QED
    BY <2>1, <2>2 DEF OwedIsAhead
<1>5. CASE AttemptFails
  <2>1. /\ UNCHANGED <<followed, now, broken, telling, notices>>
        /\ run.state = "active"
        /\ errors' = errors + 1 \/ (followed # "charge" /\ broken # {} /\ errors' = errors)
        /\ run' = [run EXCEPT !.state = "waiting"] \/ run' = NoRun
    BY <1>5 DEF AttemptFails, Isolates, Throws, EndAs, WorkType
  <2>2. run' \in Run /\ run'.state \in {"waiting", "none"}
          /\ (run'.state = "waiting" => run'.tries = run.tries)
    BY <1>1, <2>1, NoRunType DEF Run
  <2>3. WorkType'
    BY <2>1, <2>2 DEF WorkType, notices
  <2>4. AttemptsCostErrors'
    BY <1>1, <2>1, <2>2 DEF AttemptsCostErrors, Run
  <2> QED
    BY <2>1, <2>2, <2>3, <2>4 DEF OwedIsAhead, Rested, notices
<1> QED
  BY <1>3, <1>4, <1>5 DEF Visit

(* What the tenants do.                                                    *)
LEMMA TenantStep ==
  ASSUME WorkInv, NEW t \in Tenant, Breaks(t) \/ \E a \in Alert : StockChanges(t, a)
  PROVE  WorkInv'
<1> USE DEF WorkInv
<1>1. CASE Breaks(t)
  <2>1. UNCHANGED <<followed, now, run, telling, notices, errors>> /\ broken = {} /\ broken' = {t}
    BY <1>1 DEF Breaks
  <2> QED
    BY <2>1 DEF WorkType, AttemptsCostErrors, OwedIsAhead, Rested, notices
<1>2. ASSUME NEW a \in Alert, StockChanges(t, a) PROVE WorkInv'
  <2> DEFINE it == [tenant |-> t, of |-> a]
  <2>1. /\ UNCHANGED <<followed, now, run, broken, told, errors>>
        /\ telling' \in {telling \ {it}, telling \cup {it}} /\ owed' = owed \ {it}
    BY <1>2 DEF StockChanges
  <2>2. it \in Note
    BY DEF Note
  <2> HIDE DEF it
  <2> QED
    BY <2>1, <2>2 DEF WorkType, AttemptsCostErrors, OwedIsAhead, Rested
<1> QED
  BY <1>1, <1>2

LEMMA WorkStep ==
  WorkInv /\ [WorkNext]_workVars => WorkInv'
<1> SUFFICES ASSUME WorkInv, [WorkNext]_workVars PROVE WorkInv'
  OBVIOUS
<1>1. CASE Boot \/ Schedule \/ ScheduleFails \/ Shutdown \/ Exit \/ Killed \/ WorkTick
  BY <1>1, ProcessStep
<1>2. CASE Take \/ TakeAgain \/ Stalled \/ Finish
  BY <1>2, QueueStep
<1>3. CASE AttemptFails \/ \E t \in Tenant : Scan(t) \/ Charge(t) \/ TenantFails(t)
  BY <1>3, VisitStep DEF Visit
<1>4. CASE \E t \in Tenant : Breaks(t) \/ \E a \in Alert : StockChanges(t, a)
  BY <1>4, TenantStep
<1>5. CASE UNCHANGED workVars
  BY <1>5 DEF workVars, WorkInv, WorkType, AttemptsCostErrors, OwedIsAhead, Rested, notices
<1> QED
  BY <1>1, <1>2, <1>3, <1>4, <1>5 DEF WorkNext

(* The strengthening: attempts cost errors, and what is owed lies ahead.   *)
THEOREM WorkInvariant == WorkSpec => []WorkInv
BY WorkInitial, WorkStep, PTL DEF WorkSpec

(* Attempts are numbered up to Tries: one that waits for its turn has not  *)
(* used up the last.                                                       *)
TriesLeft ==
  /\ run.state = "waiting" => run.tries < Tries
  /\ run.state \in {"active", "orphan"} => run.tries >= 1

LEMMA NextTimeType ==
  ASSUME now \in Nat
  PROVE  NextTime \in Nat
<1>1. Daily \in Nat /\ Daily > 0
  OBVIOUS
<1>2. now \div Daily \in Nat
  BY <1>1
<1> DEFINE k == now \div Daily + 1
<1>3. k \in Nat
  BY <1>2
<1> HIDE DEF k
<1>4. Daily * k \in Nat
  BY <1>1, <1>3
<1> QED
  BY <1>4 DEF NextTime, k

Runs == [state : {"none", "active", "waiting", "orphan"}, tries : 0 .. Tries,
         stalls : {0, 1}, todo : SUBSET Tenant]

LEMMA RunEnds ==
  NoRun \in Runs /\ NoRun.state = "none" /\ NoRun.tries = 0 /\ NoRun.stalls = 0
BY DEF NoRun, Runs

(* An attempt that starts, from none or from one that waited.              *)
LEMMA RunStarts ==
  ASSUME NEW r \in Runs, r.tries < Tries
  PROVE  /\ Active(r) \in Runs /\ Active(r).state = "active"
         /\ Active(r).tries >= 1
<1>1. r.tries + 1 \in 0 .. Tries /\ r.tries + 1 >= 1
  BY DEF Runs
<1>2. Active(r) = [r EXCEPT !.state = "active", !.tries = r.tries + 1, !.todo = Tenant]
  BY DEF Active
<1> QED
  BY <1>1, <1>2 DEF Runs

LEMMA WorkTypeInitial ==
  WorkInit => WorkTypeOK /\ TriesLeft
<1> SUFFICES ASSUME WorkInit PROVE WorkTypeOK /\ TriesLeft
  OBVIOUS
<1>1. run \in Runs /\ run.state = "none"
  BY RunEnds DEF WorkInit
<1>2. booted \in BOOLEAN
  BY Zenon DEF WorkInit
<1> QED
  BY <1>1, <1>2 DEF WorkInit, WorkTypeOK, TriesLeft, Runs, Job

LEMMA WorkTypeStep ==
  WorkTypeOK /\ TriesLeft /\ [WorkNext]_workVars => (WorkTypeOK /\ TriesLeft)'
<1> SUFFICES ASSUME WorkTypeOK, TriesLeft, [WorkNext]_workVars
             PROVE  WorkTypeOK' /\ TriesLeft'
  OBVIOUS
<1>0. run \in Runs /\ now \in Nat /\ NextTime \in Nat /\ booted \in BOOLEAN
  BY NextTimeType DEF WorkTypeOK, Runs
<1> USE DEF WorkTypeOK, TriesLeft, faults, notices
<1>1. CASE UNCHANGED workVars
  BY <1>1 DEF workVars
<1>2. CASE Boot \/ Schedule \/ ScheduleFails
  <2>1. booted' \in BOOLEAN
    BY <1>2, Zenon DEF Boot, Schedule, ScheduleFails
  <2>2. delayed' \subseteq Nat /\ process' \in {"up", "draining", "down"}
    BY <1>0, <1>2 DEF Boot, Schedule, ScheduleFails
  <2>4. errors' \in 0 .. MaxErrors
    BY <1>2 DEF Boot, Schedule, ScheduleFails
  <2>3. UNCHANGED <<followed, now, run, broken, telling, told, stops, changes, ended>>
    BY <1>2 DEF Boot, Schedule, ScheduleFails
  <2> QED
    BY <1>0, <2>1, <2>2, <2>3, <2>4 DEF Runs
<1>3. CASE Shutdown \/ Exit \/ WorkTick
  <2>1. now' \in Nat /\ stops' \in 0 .. MaxStops /\ process' \in {"up", "draining", "down"}
    BY <1>0, <1>3 DEF Shutdown, Exit, WorkTick
  <2>2. UNCHANGED <<followed, booted, delayed, run, broken, telling, told, errors, changes, ended>>
    BY <1>3 DEF Shutdown, Exit, WorkTick
  <2> QED
    BY <1>0, <2>1, <2>2 DEF Runs
<1>4. CASE Killed
  <2>1. run' \in Runs /\ TriesLeft'
    BY <1>0, <1>4 DEF Killed, Orphaned, Runs
  <2> QED
    BY <1>0, <1>4, <2>1 DEF Killed, Runs
<1>5. CASE Take
  <2>1. run' \in Runs /\ TriesLeft'
    BY <1>5, RunEnds, RunStarts DEF Take
  <2> QED
    BY <1>0, <1>5, <2>1 DEF Take, Runs
<1>6. CASE TakeAgain
  <2>1. run' \in Runs /\ TriesLeft'
    BY <1>0, <1>6, RunStarts DEF TakeAgain
  <2> QED
    BY <1>0, <1>6, <2>1 DEF TakeAgain, Runs
<1>7. CASE Stalled
  <2>1. run' \in Runs /\ TriesLeft'
    <3>1. run.tries \in 1 .. Tries
      BY <1>0, <1>7 DEF Stalled, Runs
    <3>2. CASE run.stalls = 0
      <4>1. run' = [run EXCEPT !.state = "waiting", !.tries = run.tries - 1, !.stalls = 1]
        BY <1>7, <3>2 DEF Stalled
      <4>2. run.tries - 1 \in 0 .. Tries /\ run.tries - 1 < Tries
        BY <3>1
      <4> QED
        BY <1>0, <4>1, <4>2 DEF Runs
    <3>3. CASE run.stalls # 0
      BY <1>7, <3>3, RunEnds DEF Stalled, EndAs
    <3> QED
      BY <3>2, <3>3
  <2> QED
    BY <1>0, <1>7, <2>1 DEF Stalled, EndAs, Runs
<1>8. CASE Finish
  BY <1>0, <1>8, RunEnds DEF Finish, EndAs, Runs
<1>9. CASE AttemptFails
  <2>1. run' \in Runs /\ TriesLeft'
    BY <1>0, <1>9, RunEnds DEF AttemptFails, EndAs, Runs, TriesAgain
  <2>2. errors' \in 0 .. MaxErrors
    BY <1>9 DEF AttemptFails, Throws
  <2> QED
    BY <1>0, <1>9, <2>1, <2>2 DEF AttemptFails, EndAs, Runs
<1>10. ASSUME NEW t \in Tenant, Scan(t) \/ Charge(t) \/ TenantFails(t) PROVE WorkTypeOK' /\ TriesLeft'
  <2>1. run' \in Runs /\ TriesLeft'
    BY <1>0, <1>10 DEF Scan, Charge, TenantFails, Handled, Runs
  <2>2. told' \in [Tenant -> [Alert -> Nat]]
    <3>1. CASE Scan(t)
      <4> DEFINE toldNow == [a \in Alert |->
            IF [tenant |-> t, of |-> a] \in telling /\ Rested(t, a) THEN now ELSE told[t][a]]
      <4>1. told' = [told EXCEPT ![t] = toldNow]
        BY <3>1 DEF Scan
      <4>2. toldNow \in [Alert -> Nat]
        BY <1>0
      <4> HIDE DEF toldNow
      <4> QED
        BY <4>1, <4>2
    <3>2. CASE Charge(t) \/ TenantFails(t)
      BY <3>2 DEF Charge, TenantFails
    <3> QED
      BY <1>10, <3>1, <3>2
  <2>3. errors' \in 0 .. MaxErrors
    BY <1>10 DEF Scan, Charge, TenantFails, Throws
  <2> QED
    BY <1>0, <1>10, <2>1, <2>2, <2>3 DEF Scan, Charge, TenantFails, Runs
<1>11. ASSUME NEW t \in Tenant, Breaks(t) \/ \E a \in Alert : StockChanges(t, a)
       PROVE WorkTypeOK' /\ TriesLeft'
  <2>1. changes' \in 0 .. MaxChanges
    <3>1. Changes
      BY <1>11 DEF Breaks, StockChanges
    <3> QED
      BY <3>1 DEF Changes
  <2>3. broken' \subseteq Tenant
    BY <1>11 DEF Breaks, StockChanges
  <2>4. telling' \subseteq [tenant : Tenant, of : Alert]
    <3>1. ASSUME NEW a \in Alert, StockChanges(t, a) PROVE telling' \subseteq [tenant : Tenant, of : Alert]
      <4> DEFINE it == [tenant |-> t, of |-> a]
      <4>1. it \in [tenant : Tenant, of : Alert]
        OBVIOUS
      <4>2. telling' = IF it \in telling THEN telling \ {it} ELSE telling \cup {it}
        BY <3>1 DEF StockChanges
      <4> HIDE DEF it
      <4> QED
        BY <4>1, <4>2
    <3> QED
      BY <1>11, <3>1 DEF Breaks
  <2>2. UNCHANGED <<followed, now, process, booted, delayed, run, told, stops, errors, ended>>
    BY <1>11 DEF Breaks, StockChanges
  <2> QED
    BY <1>0, <2>1, <2>2, <2>3, <2>4 DEF Runs
<1> QED
  BY <1>1, <1>2, <1>3, <1>4, <1>5, <1>6, <1>7, <1>8, <1>9, <1>10, <1>11 DEF WorkNext

(* The state of the daily jobs is well formed: no occurrence is attempted  *)
(* more often than its queue allows (attempts: 3) or stalls twice.         *)
THEOREM WorkTypeCorrect == WorkSpec => []WorkTypeOK
BY WorkTypeInitial, WorkTypeStep, PTL DEF WorkSpec

(* How an occurrence can end.                                              *)
LEMMA EndsHow ==
  ASSUME WorkInv, [WorkNext]_workVars, Ends
  PROVE  \/ run.todo = {} /\ run.state = "active"
         \/ GaveUp
         \/ followed = "scan" /\ broken # {}
<1> USE DEF Ends
<1>1. CASE Finish
  BY <1>1 DEF Finish
<1>2. CASE Stalled
  <2>1. CASE run.stalls = 0
    BY <1>2, <2>1 DEF Stalled, WorkInv, WorkType, Run
  <2>2. CASE run.stalls # 0
    BY <1>2, <2>2 DEF Stalled, EndAs, GaveUp
  <2> QED
    BY <2>1, <2>2
<1>3. CASE AttemptFails
  <2>1. run.state = "active" /\ run \in Run /\ errors \in Nat
    BY <1>3 DEF AttemptFails, WorkInv, WorkType
  <2>2. ~TriesAgain(run.tries)
    BY <1>3, <2>1 DEF AttemptFails, Run
  <2>3. Tries <= run.tries
    BY <2>1, <2>2 DEF TriesAgain, Run
  <2>4. errors' = errors + 1 \/ (followed # "charge" /\ broken # {})
    BY <1>3 DEF AttemptFails, Isolates, Throws
  <2>5. CASE followed = "charge" \/ broken = {}
    <3>1. run.tries - 1 <= errors
      BY <2>1, <2>5 DEF WorkInv, AttemptsCostErrors
    <3> QED
      BY <2>1, <2>3, <2>4, <2>5, <3>1 DEF GaveUp, Run
  <2>6. CASE followed # "charge" /\ broken # {}
    BY <2>6 DEF WorkInv, WorkType, Job
  <2> QED
    BY <2>5, <2>6
<1>4. CASE \/ Boot \/ Schedule \/ ScheduleFails \/ Shutdown \/ Exit \/ WorkTick
           \/ \E t \in Tenant : Breaks(t) \/ \E a \in Alert : StockChanges(t, a)
           \/ UNCHANGED workVars
  BY <1>4 DEF Boot, Schedule, ScheduleFails, Shutdown, Exit, WorkTick, Breaks, StockChanges, workVars
<1>5. CASE Killed
  BY <1>5 DEF Killed, Orphaned, WorkInv, WorkType, Run
<1>6. CASE Take \/ TakeAgain
  BY <1>6, NoRunType, ActiveType DEF Take, TakeAgain, WorkInv, WorkType
<1>7. CASE \E t \in Tenant : Scan(t) \/ Charge(t) \/ TenantFails(t)
  BY <1>7 DEF Scan, Charge, TenantFails, Handled, WorkInv, WorkType, Run
<1> QED
  BY <1>1, <1>2, <1>3, <1>4, <1>5, <1>6, <1>7 DEF WorkNext

(* A charge job that ends has come to every tenant, whichever tenants'     *)
(* charges failed, unless each of its attempts found the database out of   *)
(* reach or two processes died under it (billing/monthly-charge.ts).       *)
THEOREM ChargesReachAll == WorkSpec => ChargeReaches
<1>1. WorkInv /\ [WorkNext]_workVars
        => [followed = "charge" /\ Ends => run.todo = {} \/ GaveUp]_workVars
  BY EndsHow
<1> QED
  BY <1>1, WorkInvariant, PTL DEF WorkSpec, ChargeReaches

(* A scan that ends has told everything there was to tell when it came and *)
(* still is, however often it started over, unless a tenant fails by       *)
(* itself or the job is given up (stock/expiry-scan.ts).                   *)
THEOREM ScansReachAll == WorkSpec => ScanReaches
<1>1. ASSUME WorkInv, run.todo = {}, run.state = "active", followed = "scan"
      PROVE  owed = {}
  BY <1>1 DEF WorkInv, OwedIsAhead
<1>2. WorkInv /\ [WorkNext]_workVars
        => [followed = "scan" /\ Ends => owed = {} \/ broken # {} \/ GaveUp]_workVars
  BY <1>1, EndsHow
<1> QED
  BY <1>2, WorkInvariant, PTL DEF WorkSpec, ScanReaches

================================================================================

----------------------------- MODULE BillingProofs -----------------------------
(***************************************************************************)
(* Proofs about the subscription of a tenant, for any checkouts, chargers, *)
(* admins, agreements, charges and months.                                 *)
(***************************************************************************)
EXTENDS Billing, TLAPS

USE ConstantsAssumption, ActorsAssumption

TabOp ==
  {Idle} \cup
  [at : {"replace", "cancel", "ask", "persist", "local"}, method : {"card", "pix"},
   sub : Subscription, of : Agreement \cup {None}, charge : Charge \cup {None},
   paid : BOOLEAN]

ChargerOp == {Idle} \cup [at : {"charge"}, period : Date]

Invoice ==
  [rows : Nat, event : {"none", "created", "paid"},
   status : {"none", "pending", "paid", "failed"}, qr : BOOLEAN]

Bill ==
  [state : {"unused", "open", "refused", "paid", "canceled"},
   of : Agreement \cup {None}, key : Date]

GatewayType ==
  /\ agreement \in [Agreement -> {"unused", "live", "canceled"}]
  /\ bill \in [Charge -> Bill]
  /\ sent \subseteq Event

RowType ==
  /\ sub \in Subscription /\ invoice \in [Charge -> Invoice]
  /\ applied \in [Event -> 0 .. 2]
  /\ courtesy \subseteq {"grantAccess", "revokeAccess"}

OpType ==
  /\ op = [x \in Actor |-> op[x]]
  /\ \A t \in Tab : op[t] \in TabOp
  /\ \A k \in Charger : op[k] \in ChargerOp
  /\ \A x \in Admin \cup Visitor : op[x].at \in AdminOp \cup {"idle", "expire"}
  /\ ops \in 0 .. MaxOps

BillType ==
  /\ gateway \in {"vindi", "pagbank"} /\ now \in 0 .. MaxNow
  /\ GatewayType /\ RowType /\ OpType

(* What is known of a checkout that has still to write: its agreement and  *)
(* its first bill are its own, and no row names either.                    *)
Holds(t) ==
  /\ op[t].of \in Agreement /\ op[t].charge \in Charge
  /\ agreement[op[t].of] # "unused" /\ sub.agreement # op[t].of
  /\ bill[op[t].charge].state # "unused" /\ bill[op[t].charge].of = op[t].of
  /\ invoice[op[t].charge].rows = 0
  /\ op[t].paid => bill[op[t].charge].state = "paid"
  /\ \A u \in Tab : At(u, "persist") /\ u # t => op[u].of # op[t].of

Checkouts ==
  /\ sub.agreement # None => agreement[sub.agreement] # "unused"
  /\ \A t \in Tab :
       /\ op[t].at \in {"replace", "cancel"} => op[t].sub.agreement \in Agreement
       /\ At(t, "persist") => Holds(t)

(* What is known of a bill: no invoice precedes it, an event tells the     *)
(* truth, Vindi repeats the news of a payment for ever, and an order is    *)
(* paid only after its invoice was written.                                *)
BillTrue(c) ==
  /\ bill[c].state = "unused" => invoice[c].rows = 0
  /\ Tell("paid", c) \in sent => bill[c].state = "paid"
  /\ Tell("created", c) \in sent =>
       gateway = "vindi" /\ bill[c].state # "unused" /\ bill[c].of # None
  /\ bill[c].state = "paid" =>
       /\ gateway = "vindi" => Tell("paid", c) \in sent
       /\ bill[c].of = None => invoice[c].rows > 0

(* The end of a period has passed the keys of the orders written so far,   *)
(* unless a revoked courtesy has set it back.                              *)
Passed(c, period) ==
  period > bill[c].key \/ (period = Never /\ "revokeAccess" \in courtesy)

KeyPast(c) ==
  bill[c].state # "unused" /\ bill[c].of = None =>
    /\ bill[c].key <= now
    /\ invoice[c].rows > 0 =>
         /\ Passed(c, sub.period)
         /\ \A k \in Charger : At(k, "charge") => Passed(c, op[k].period)

OneCharger ==
  \A k \in Charger : At(k, "charge") =>
    /\ op[k].period <= now
    /\ \A m \in Charger : At(m, "charge") => m = k

(* A row that has not been paid since it was last written has room for a   *)
(* payment.                                                                *)
RoomToPay(c) ==
  /\ applied[Tell("paid", c)] <= invoice[c].rows
  /\ invoice[c].rows > 0 /\ invoice[c].event # "paid" =>
       applied[Tell("paid", c)] < invoice[c].rows

OneRow(c) ==
  bill[c].key # Never \/ "revokeAccess" \notin courtesy => invoice[c].rows <= 1

NotLost(c) ==
  bill[c].state = "paid" /\ invoice[c].rows > 0 =>
    applied[Tell("paid", c)] > 0 \/ Tell("paid", c) \in sent

Bills ==
  \A c \in Charge : BillTrue(c) /\ KeyPast(c) /\ RoomToPay(c) /\ OneRow(c) /\ NotLost(c)

BillInv == BillType /\ Checkouts /\ Bills /\ OneCharger /\ ActiveEarned

--------------------------------------------------------------------------------
(* Small facts.                                                            *)

LEMMA Telling ==
  /\ \A c \in Charge : \A type \in {"created", "paid", "failed"} : Tell(type, c) \in Event
  /\ \A a \in Agreement : Tell("canceled", a) \in Event
  /\ \A e \in Event : e = Tell(e.type, e.of)
  /\ \A e \in Event : e.type \in {"created", "paid", "failed"} => e.of \in Charge
  /\ \A e \in Event : e.type = "canceled" => e.of \in Agreement
<1>1. \A c \in Charge : \A type \in {"created", "paid", "failed"} : Tell(type, c) \in Event
  BY DEF Event, Tell
<1>2. \A a \in Agreement : Tell("canceled", a) \in Event
  BY DEF Event, Tell
<1>3. \A e \in Event : e = Tell(e.type, e.of)
  BY DEF Event, Tell
<1>4. \A e \in Event : e.type \in {"created", "paid", "failed"} => e.of \in Charge
  BY DEF Event
<1>5. \A e \in Event : e.type = "canceled" => e.of \in Agreement
  BY DEF Event
<1> QED
  BY <1>1, <1>2, <1>3, <1>4, <1>5

LEMMA TellApart ==
  \A type, other, x, y : Tell(type, x) = Tell(other, y) => type = other /\ x = y
<1> SUFFICES ASSUME NEW type, NEW other, NEW x, NEW y, Tell(type, x) = Tell(other, y)
             PROVE  type = other /\ x = y
  OBVIOUS
<1>1. Tell(type, x).type = Tell(other, y).type /\ Tell(type, x).of = Tell(other, y).of
  OBVIOUS
<1> QED
  BY <1>1 DEF Tell

LEMMA Dates ==
  /\ MaxNow \in Nat /\ MaxOps \in Nat /\ Never \in Date /\ Forever \in Date
  /\ \A n \in 0 .. MaxNow : n \in Date /\ n + 1 \in Date /\ n < Forever
BY DEF Date, Never, Forever

(* What an actor does changes its own operation and no other.              *)
LEMMA OpMoves ==
  ASSUME OpType, NEW x \in Actor, NEW v, op' = [op EXCEPT ![x] = v]
  PROVE  /\ op'[x] = v /\ \A y \in Actor : y # x => op'[y] = op[y]
         /\ op' = [y \in Actor |-> op'[y]]
BY DEF OpType

LEMMA TabMoves ==
  ASSUME OpType, ops' \in 0 .. MaxOps, NEW t \in Tab, NEW v \in TabOp,
         op' = [op EXCEPT ![t] = v]
  PROVE  /\ OpType' /\ op'[t] = v
         /\ \A y \in Tab : y # t => op'[y] = op[y]
         /\ \A k \in Charger : op'[k] = op[k]
<1>1. t \in Actor
  BY DEF Actor
<1>2. /\ op'[t] = v /\ \A y \in Actor : y # t => op'[y] = op[y]
      /\ op' = [y \in Actor |-> op'[y]]
  BY <1>1, OpMoves
<1>3. \A k \in Charger \cup Admin \cup Visitor : k # t /\ k \in Actor
  BY DEF Actor
<1>4. \A y \in Tab : y # t => op'[y] = op[y]
  BY <1>2 DEF Actor
<1>5. \A k \in Charger \cup Admin \cup Visitor : op'[k] = op[k]
  BY <1>2, <1>3
<1> QED
  BY <1>2, <1>4, <1>5 DEF OpType

LEMMA ChargerMoves ==
  ASSUME OpType, UNCHANGED ops, NEW k \in Charger, NEW v \in ChargerOp,
         op' = [op EXCEPT ![k] = v]
  PROVE  /\ OpType' /\ op'[k] = v
         /\ \A y \in Charger : y # k => op'[y] = op[y]
         /\ \A t \in Tab : op'[t] = op[t]
<1>1. k \in Actor
  BY DEF Actor
<1>2. /\ op'[k] = v /\ \A y \in Actor : y # k => op'[y] = op[y]
      /\ op' = [y \in Actor |-> op'[y]]
  BY <1>1, OpMoves
<1>3. \A y \in Tab \cup Admin \cup Visitor : y # k /\ y \in Actor
  BY DEF Actor
<1>4. \A y \in Charger : y # k => op'[y] = op[y]
  BY <1>2 DEF Actor
<1>5. \A y \in Tab \cup Admin \cup Visitor : op'[y] = op[y]
  BY <1>2, <1>3
<1> QED
  BY <1>2, <1>4, <1>5 DEF OpType

LEMMA OtherMoves ==
  ASSUME OpType, ops' \in 0 .. MaxOps, NEW x \in Admin \cup Visitor, NEW v,
         v.at \in AdminOp \cup {"idle", "expire"}, op' = [op EXCEPT ![x] = v]
  PROVE  /\ OpType'
         /\ \A y \in Tab \cup Charger : op'[y] = op[y]
<1>1. x \in Actor
  BY DEF Actor
<1>2. /\ op'[x] = v /\ \A y \in Actor : y # x => op'[y] = op[y]
      /\ op' = [y \in Actor |-> op'[y]]
  BY <1>1, OpMoves
<1>3. \A y \in Tab \cup Charger : y # x /\ y \in Actor
  BY DEF Actor
<1>4. \A y \in Tab \cup Charger : op'[y] = op[y]
  BY <1>2, <1>3
<1>5. \A y \in Admin \cup Visitor : op'[y].at \in AdminOp \cup {"idle", "expire"}
  BY <1>2 DEF Actor, OpType
<1> QED
  BY <1>2, <1>4, <1>5 DEF OpType

LEMMA IdleOps ==
  Idle \in TabOp /\ Idle \in ChargerOp /\ Idle.at = "idle"
BY DEF Idle, TabOp, ChargerOp

LEMMA TypesAgree ==
  ASSUME BillType PROVE TypeOK
BY DEF BillType, GatewayType, RowType, OpType, TypeOK, TabOp, ChargerOp, Invoice, Bill

LEMMA BillInitial ==
  Init => BillInv
<1> SUFFICES ASSUME Init PROVE BillInv
  OBVIOUS
<1>1. \A x \in Actor : op[x] = Idle
  BY DEF Init
<1>2. OpType
  BY <1>1, IdleOps, Dates DEF Init, OpType, Actor
<1>3. sub \in Subscription /\ sub.agreement = None /\ sub.status # "active"
  BY Dates DEF Init, SignedUp, Subscription, Date, Forever, Never
<1>4. GatewayType
  BY Dates DEF Init, GatewayType, NoBill, Bill
<1>5. RowType
  BY <1>3 DEF Init, RowType, NoInvoice, Invoice
<1>6. BillType
  BY <1>2, <1>4, <1>5, Dates DEF Init, BillType
<1>7. Checkouts /\ OneCharger
  BY <1>1, <1>3, IdleOps DEF Checkouts, OneCharger, At, Actor
<1>8. ASSUME NEW c \in Charge
      PROVE  BillTrue(c) /\ KeyPast(c) /\ RoomToPay(c) /\ OneRow(c) /\ NotLost(c)
  <2>1. bill[c].state = "unused" /\ invoice[c].rows = 0 /\ sent = {}
    BY DEF Init, NoBill, NoInvoice
  <2>2. applied[Tell("paid", c)] = 0
    BY Telling DEF Init
  <2> QED
    BY <2>1, <2>2 DEF BillTrue, KeyPast, RoomToPay, OneRow, NotLost
<1> QED
  BY <1>3, <1>6, <1>7, <1>8 DEF BillInv, Bills, ActiveEarned

--------------------------------------------------------------------------------
(* Steps of the gateway.                                                   *)

(* What a bill may become when no order of Pix is made.                    *)
BillMoves(c) ==
  /\ bill[c].state # "unused" =>
       /\ bill'[c].state # "unused"
       /\ bill'[c].of = bill[c].of /\ bill'[c].key = bill[c].key
  /\ bill[c].state = "paid" => bill'[c].state = "paid"
  /\ bill'[c].state = "paid" => bill[c].state = "paid" \/ Tell("paid", c) \in sent'
  /\ bill[c].state = "unused" /\ bill'[c].state # "unused" => bill'[c].of # None

LEMMA BillsKept ==
  ASSUME BillType, BillType', Bills, now <= now', UNCHANGED <<sub, invoice, applied, courtesy>>,
         sent \subseteq sent',
         \A c \in Charge : BillMoves(c) /\ BillTrue(c)',
         \A k \in Charger : At(k, "charge")' => At(k, "charge") /\ op'[k] = op[k]
  PROVE  Bills'
<1> SUFFICES ASSUME NEW c \in Charge
             PROVE  (KeyPast(c) /\ RoomToPay(c) /\ OneRow(c) /\ NotLost(c))'
  BY DEF Bills
<1>1. BillMoves(c) /\ BillTrue(c)' /\ BillTrue(c) /\ KeyPast(c) /\ RoomToPay(c) /\ OneRow(c)
      /\ NotLost(c)
  BY DEF Bills
<1>2. now \in Int /\ now' \in Int /\ invoice[c].rows \in Int /\ bill[c].key \in Int
  BY Dates DEF BillType, RowType, GatewayType, Invoice, Bill, Date, Never, Forever
<1>3. KeyPast(c)'
  <2>1. SUFFICES ASSUME bill'[c].state # "unused", bill'[c].of = None
                 PROVE  KeyPast(c)'
    BY DEF KeyPast
  <2>2. bill[c].state # "unused" /\ bill[c].of = None /\ bill'[c].key = bill[c].key
    BY <1>1, <2>1 DEF BillMoves
  <2>3. bill'[c].key <= now'
    BY <1>1, <1>2, <2>2 DEF KeyPast
  <2>4. ASSUME invoice'[c].rows > 0
        PROVE  /\ Passed(c, sub.period)'
               /\ \A k \in Charger : At(k, "charge")' => Passed(c, op[k].period)'
    <3>1. /\ Passed(c, sub.period)
          /\ \A k \in Charger : At(k, "charge") => Passed(c, op[k].period)
      BY <1>1, <2>2, <2>4 DEF KeyPast
    <3> QED
      BY <3>1, <2>2 DEF Passed
  <2> QED
    BY <2>3, <2>4 DEF KeyPast
<1>4. RoomToPay(c)'
  BY <1>1 DEF RoomToPay
<1>5. OneRow(c)'
  BY <1>1, <1>2 DEF OneRow, BillMoves, BillTrue
<1>6. NotLost(c)'
  <2>1. SUFFICES ASSUME bill'[c].state = "paid", invoice'[c].rows > 0
                 PROVE  applied'[Tell("paid", c)] > 0 \/ Tell("paid", c) \in sent'
    BY DEF NotLost
  <2>2. CASE bill[c].state = "paid"
    BY <1>1, <2>1, <2>2 DEF NotLost
  <2>3. CASE bill[c].state # "paid"
    BY <1>1, <2>1, <2>3 DEF BillMoves
  <2> QED
    BY <2>2, <2>3
<1> QED
  BY <1>3, <1>4, <1>5, <1>6

(* A checkout that has still to write keeps what it holds.                 *)
LEMMA HoldsKept ==
  ASSUME BillType, Checkouts, UNCHANGED <<sub, invoice>>,
         \A c \in Charge : BillMoves(c),
         \A a \in Agreement : agreement[a] # "unused" => agreement'[a] # "unused",
         \A t \in Tab : /\ op'[t].at \in {"replace", "cancel"} =>
                             op'[t].sub.agreement \in Agreement
                        /\ At(t, "persist")' => At(t, "persist") /\ op'[t] = op[t]
  PROVE  Checkouts'
<1>1. sub.agreement # None => agreement'[sub.agreement] # "unused"
  BY DEF Checkouts, BillType, RowType, Subscription
<1>2. ASSUME NEW t \in Tab, At(t, "persist")'
      PROVE  Holds(t)'
  <2>1. Holds(t) /\ op'[t] = op[t]
    BY <1>2 DEF Checkouts
  <2>2. BillMoves(op[t].charge)
    BY <2>1 DEF Holds
  <2>3. \A u \in Tab : At(u, "persist")' /\ u # t => op'[u].of # op'[t].of
    BY <2>1 DEF Holds
  <2> QED
    BY <2>1, <2>2, <2>3 DEF Holds, BillMoves
<1> QED
  BY <1>1, <1>2 DEF Checkouts

(* The gateway's own steps, and those of the calendar.                     *)
LEMMA GatewayMoves ==
  ASSUME BillInv, GatewayType', now' \in 0 .. MaxNow, now <= now',
         UNCHANGED <<gateway, sub, invoice, applied, courtesy, op, ops>>,
         sent \subseteq sent', \A c \in Charge : BillMoves(c) /\ BillTrue(c)',
         \A a \in Agreement : agreement[a] # "unused" => agreement'[a] # "unused"
  PROVE  BillInv'
<1>1. BillType'
  BY DEF BillInv, BillType, RowType, OpType
<1>2. \A k \in Charger : At(k, "charge")' => At(k, "charge") /\ op'[k] = op[k]
  BY DEF At
<1>3. Bills'
  BY <1>1, <1>2, BillsKept DEF BillInv
<1>4. \A t \in Tab : /\ op'[t].at \in {"replace", "cancel"} =>
                          op'[t].sub.agreement \in Agreement
                     /\ At(t, "persist")' => At(t, "persist") /\ op'[t] = op[t]
  BY DEF BillInv, Checkouts, At
<1>5. Checkouts'
  BY <1>4, HoldsKept DEF BillInv
<1>6. OneCharger'
  <2>1. ASSUME NEW k \in Charger, At(k, "charge")
        PROVE  op[k].period \in Int /\ op[k].period <= now
    BY <2>1 DEF BillInv, BillType, OpType, ChargerOp, At, OneCharger, Idle, Date
  <2> QED
    BY <2>1, Dates DEF BillInv, OneCharger, At, BillType
<1>7. ActiveEarned'
  BY DEF BillInv, ActiveEarned, BillMoves
<1> QED
  BY <1>1, <1>3, <1>5, <1>6, <1>7 DEF BillInv

(* An agreement is canceled with its unpaid bills.                         *)
LEMMA Canceling ==
  ASSUME BillInv, NEW a \in Agreement, Cancel(a), UNCHANGED <<gateway, invoice>>
  PROVE  /\ GatewayType' /\ sent \subseteq sent'
         /\ \A c \in Charge : BillMoves(c) /\ BillTrue(c)'
         /\ \A b \in Agreement : agreement[b] # "unused" => agreement'[b] # "unused"
<1>1. /\ agreement \in [Agreement -> {"unused", "live", "canceled"}]
      /\ bill \in [Charge -> Bill] /\ sent \subseteq Event
  BY DEF BillInv, BillType, GatewayType
<1>2. ASSUME NEW c \in Charge
      PROVE  /\ bill'[c] \in Bill /\ bill'[c].of = bill[c].of /\ bill'[c].key = bill[c].key
             /\ bill'[c].state = "unused" <=> bill[c].state = "unused"
             /\ bill'[c].state = "paid" <=> bill[c].state = "paid"
  <2>1. CASE c \in Unpaid(a)
    <3>1. bill'[c] = [bill[c] EXCEPT !.state = "canceled"] /\ bill[c] \in Bill
      BY <1>1, <2>1 DEF Cancel
    <3> QED
      BY <2>1, <3>1 DEF Bill, Unpaid
  <2>2. CASE c \notin Unpaid(a)
    BY <1>1, <2>2 DEF Cancel
  <2> QED
    BY <2>1, <2>2
<1>3. /\ agreement' \in [Agreement -> {"unused", "live", "canceled"}]
      /\ \A b \in Agreement : agreement[b] # "unused" => agreement'[b] # "unused"
  BY <1>1 DEF Cancel
<1>4. sent' \subseteq Event /\ sent \subseteq sent'
  BY <1>1, Telling DEF Cancel, Unpaid
<1>5. \A c \in Charge : /\ Tell("paid", c) \in sent' <=> Tell("paid", c) \in sent
                        /\ Tell("created", c) \in sent' <=> Tell("created", c) \in sent
  BY TellApart DEF Cancel
<1>6. bill' = [c \in Charge |-> bill'[c]]
  BY DEF Cancel
<1>7. GatewayType'
  BY <1>2, <1>3, <1>4, <1>6 DEF GatewayType
<1>8. ASSUME NEW c \in Charge PROVE BillMoves(c) /\ BillTrue(c)'
  <2>1. BillMoves(c)
    BY <1>2 DEF BillMoves
  <2>2. BillTrue(c)'
    BY <1>2, <1>5 DEF BillInv, Bills, BillTrue
  <2> QED
    BY <2>1, <2>2
<1> QED
  BY <1>3, <1>4, <1>7, <1>8

LEMMA GatewayStep ==
  ASSUME BillInv,
         \/ Tick
         \/ \E c \in Charge : Pay(c) \/ Refuse(c)
         \/ \E a \in Agreement : CancelAtGateway(a) \/ \E c \in Charge : BillCycle(a, c)
  PROVE  BillInv'
<1>0. /\ agreement \in [Agreement -> {"unused", "live", "canceled"}]
      /\ bill \in [Charge -> Bill] /\ sent \subseteq Event /\ now \in 0 .. MaxNow
      /\ \A c \in Charge : BillTrue(c)
  BY DEF BillInv, BillType, GatewayType, Bills
<1>1. CASE Tick
  <2>1. now' \in 0 .. MaxNow /\ now <= now'
    BY <1>0, <1>1, Dates DEF Tick
  <2>2. UNCHANGED <<gateway, sub, invoice, agreement, bill, sent, applied, courtesy, op, ops>>
    BY <1>1 DEF Tick, external, actors
  <2>3. GatewayType' /\ \A c \in Charge : BillMoves(c) /\ BillTrue(c)'
    BY <1>0, <2>2 DEF GatewayType, BillMoves, BillTrue
  <2> QED
    BY <2>1, <2>2, <2>3, GatewayMoves
<1>2. ASSUME NEW c \in Charge, Pay(c) PROVE BillInv'
  <2>1. UNCHANGED <<gateway, now, sub, invoice, agreement, applied, courtesy, op, ops>>
    BY <1>2 DEF Pay, actors
  <2>2. /\ bill' = [bill EXCEPT ![c].state = "paid"] /\ sent' = sent \cup {Tell("paid", c)}
        /\ bill[c].state \in {"open", "refused"}
        /\ bill[c].of = None => invoice[c].rows > 0
    BY <1>2 DEF Pay, Known
  <2>3. GatewayType' /\ sent \subseteq sent'
    BY <1>0, <2>1, <2>2, Telling DEF GatewayType, Bill
  <2>4. ASSUME NEW d \in Charge PROVE BillMoves(d) /\ BillTrue(d)'
    <3>1. CASE d = c
      <4>1. bill'[c] = [bill[c] EXCEPT !.state = "paid"] /\ bill[c] \in Bill
        BY <1>0, <2>2
      <4>2. bill'[c].state = "paid" /\ bill'[c].of = bill[c].of /\ bill'[c].key = bill[c].key
        BY <4>1 DEF Bill
      <4>3. /\ Tell("paid", c) \in sent'
            /\ Tell("created", c) \in sent' <=> Tell("created", c) \in sent
        BY <2>2, TellApart
      <4> QED
        BY <1>0, <2>1, <2>2, <3>1, <4>2, <4>3 DEF BillMoves, BillTrue
    <3>2. CASE d # c
      <4>1. /\ bill'[d] = bill[d]
            /\ Tell("paid", d) \in sent' <=> Tell("paid", d) \in sent
            /\ Tell("created", d) \in sent' <=> Tell("created", d) \in sent
        BY <1>0, <2>2, <3>2, TellApart
      <4> QED
        BY <1>0, <2>1, <4>1 DEF BillMoves, BillTrue
    <3> QED
      BY <3>1, <3>2
  <2> QED
    BY <1>0, <2>1, <2>3, <2>4, GatewayMoves
<1>3. ASSUME NEW c \in Charge, Refuse(c) PROVE BillInv'
  <2>1. UNCHANGED <<gateway, now, sub, invoice, agreement, applied, courtesy, op, ops>>
    BY <1>3 DEF Refuse, actors
  <2>2. /\ bill' = [bill EXCEPT ![c].state = "refused"] /\ bill[c].state = "open"
        /\ sent' = sent \cup {Tell("failed", c)}
    BY <1>3 DEF Refuse
  <2>3. GatewayType' /\ sent \subseteq sent'
    BY <1>0, <2>1, <2>2, Telling DEF GatewayType, Bill
  <2>4. ASSUME NEW d \in Charge PROVE BillMoves(d) /\ BillTrue(d)'
    <3>1. /\ bill'[d].of = bill[d].of /\ bill'[d].key = bill[d].key
          /\ bill'[d].state = "unused" <=> bill[d].state = "unused"
          /\ bill'[d].state = "paid" <=> bill[d].state = "paid"
      BY <1>0, <2>2 DEF Bill
    <3>2. /\ Tell("paid", d) \in sent' <=> Tell("paid", d) \in sent
          /\ Tell("created", d) \in sent' <=> Tell("created", d) \in sent
      BY <2>2, TellApart
    <3> QED
      BY <1>0, <2>1, <3>1, <3>2 DEF BillMoves, BillTrue
  <2> QED
    BY <1>0, <2>1, <2>3, <2>4, GatewayMoves
<1>4. ASSUME NEW a \in Agreement, CancelAtGateway(a) PROVE BillInv'
  <2>1. UNCHANGED <<gateway, now, sub, invoice, applied, courtesy, op, ops>> /\ Cancel(a)
    BY <1>4 DEF CancelAtGateway, actors
  <2> QED
    BY <1>0, <2>1, Canceling, GatewayMoves
<1>5. ASSUME NEW a \in Agreement, NEW c \in Charge, BillCycle(a, c) PROVE BillInv'
  <2>1. UNCHANGED <<gateway, now, sub, invoice, agreement, applied, courtesy, op, ops>>
    BY <1>5 DEF BillCycle, actors
  <2>2. /\ bill' = [bill EXCEPT ![c] = [state |-> "open", of |-> a, key |-> Never]]
        /\ bill[c].state = "unused" /\ gateway = "vindi"
        /\ sent' = sent \cup {Tell("created", c)}
    BY <1>5 DEF BillCycle, NoBill
  <2>3. GatewayType' /\ sent \subseteq sent'
    BY <1>0, <2>1, <2>2, Telling, Dates DEF GatewayType, Bill
  <2>4. ASSUME NEW d \in Charge PROVE BillMoves(d) /\ BillTrue(d)'
    <3>1. CASE d = c
      <4>1. bill'[c].state = "open" /\ bill'[c].of = a /\ a # None
        BY <1>0, <2>2
      <4>2. Tell("paid", c) \in sent' <=> Tell("paid", c) \in sent
        BY <2>2, TellApart
      <4> QED
        BY <1>0, <2>1, <2>2, <3>1, <4>1, <4>2 DEF BillMoves, BillTrue
    <3>2. CASE d # c
      <4>1. /\ bill'[d] = bill[d]
            /\ Tell("paid", d) \in sent' <=> Tell("paid", d) \in sent
            /\ Tell("created", d) \in sent' <=> Tell("created", d) \in sent
        BY <1>0, <2>2, <3>2, TellApart
      <4> QED
        BY <1>0, <2>1, <4>1 DEF BillMoves, BillTrue
    <3> QED
      BY <3>1, <3>2
  <2> QED
    BY <1>0, <2>1, <2>3, <2>4, GatewayMoves
<1> QED
  BY <1>1, <1>2, <1>3, <1>4, <1>5

--------------------------------------------------------------------------------
(* Webhooks.                                                               *)

BillOK(c) == BillTrue(c) /\ KeyPast(c) /\ RoomToPay(c) /\ OneRow(c) /\ NotLost(c)

(* A charge that a step does not touch.                                    *)
LEMMA BillSame ==
  ASSUME NEW c \in Charge, BillOK(c), UNCHANGED <<gateway, now>>,
         bill'[c] = bill[c],
         invoice'[c].rows = invoice[c].rows, invoice'[c].event = invoice[c].event,
         applied'[Tell("paid", c)] = applied[Tell("paid", c)],
         Tell("paid", c) \in sent' <=> Tell("paid", c) \in sent,
         Tell("created", c) \in sent' <=> Tell("created", c) \in sent,
         courtesy \subseteq courtesy',
         sub'.period = sub.period \/ (bill[c].key <= now => Passed(c, sub.period)'),
         \A k \in Charger : At(k, "charge")' =>
           \/ At(k, "charge") /\ op'[k] = op[k]
           \/ op'[k].period = sub.period
  PROVE  BillOK(c)'
<1>1. BillTrue(c)' /\ RoomToPay(c)' /\ OneRow(c)' /\ NotLost(c)'
  BY DEF BillOK, BillTrue, RoomToPay, OneRow, NotLost
<1>2. KeyPast(c)'
  <2>1. SUFFICES ASSUME bill[c].state # "unused", bill[c].of = None
                 PROVE  KeyPast(c)'
    BY DEF KeyPast
  <2>2. bill'[c].key <= now'
    BY <2>1 DEF BillOK, KeyPast
  <2>3. ASSUME invoice'[c].rows > 0
        PROVE  /\ Passed(c, sub.period)'
               /\ \A k \in Charger : At(k, "charge")' => Passed(c, op[k].period)'
    <3>1. /\ Passed(c, sub.period)
          /\ \A k \in Charger : At(k, "charge") => Passed(c, op[k].period)
      BY <2>1, <2>3 DEF BillOK, KeyPast
    <3>2. bill[c].key <= now
      BY <2>1 DEF BillOK, KeyPast
    <3> QED
      BY <3>1, <3>2 DEF Passed
  <2> QED
    BY <2>2, <2>3 DEF KeyPast
<1> QED
  BY <1>1, <1>2 DEF BillOK

(* What a webhook leaves alone.                                            *)
LEMMA WebhookRest ==
  ASSUME BillInv, UNCHANGED <<gateway, now, agreement, bill, courtesy, op, ops>>,
         RowType', sent' \subseteq sent,
         UNCHANGED <<sub.agreement, sub.period>>,
         \A c \in Charge : BillOK(c)',
         \A t \in Tab : At(t, "persist") => invoice'[op[t].charge].rows = 0,
         sub'.status = "active" => sub.status = "active" \/ \E c \in Charge : bill[c].state = "paid"
  PROVE  BillInv'
<1>1. BillType'
  BY DEF BillInv, BillType, GatewayType, OpType
<1>2. OneCharger'
  BY DEF BillInv, OneCharger, At
<1>3. ActiveEarned'
  BY DEF BillInv, ActiveEarned
<1>4. Checkouts'
  <2>1. \A t \in Tab : At(t, "persist") => Holds(t)'
    BY DEF BillInv, Checkouts, Holds, At
  <2> QED
    BY <2>1 DEF BillInv, Checkouts, At
<1> QED
  BY <1>1, <1>2, <1>3, <1>4 DEF BillInv, Bills, BillOK

LEMMA WebhookStep ==
  ASSUME BillInv, (\E e \in Event : Deliver(e)) \/ (\E c \in Charge : PixUpdated(c))
  PROVE  BillInv'
<1>0. /\ sub \in Subscription /\ invoice \in [Charge -> Invoice]
      /\ applied \in [Event -> 0 .. 2] /\ sent \subseteq Event
      /\ courtesy \subseteq {"grantAccess", "revokeAccess"}
      /\ \A c \in Charge : BillOK(c)
      /\ \A t \in Tab : At(t, "persist") => Holds(t)
  BY DEF BillInv, BillType, RowType, GatewayType, Bills, BillOK, Checkouts
<1>1. ASSUME NEW e \in Event, Drop(e) PROVE BillInv'
  <2>1. /\ UNCHANGED <<gateway, now, sub, invoice, agreement, bill, applied, courtesy, op, ops>>
        /\ sent' = sent \ {e} /\ gateway = "pagbank" /\ ~Matched(e)
    BY <1>1 DEF Drop, Drops, actors
  <2>2. ASSUME NEW c \in Charge PROVE BillOK(c)'
    <3>1. CASE e = Tell("paid", c)
      <4>1. ~(invoice[c].rows > 0)
        BY <2>1, <3>1 DEF Matched, Known, Tell
      <4> QED
        BY <1>0, <2>1, <4>1 DEF BillOK, BillTrue, KeyPast, Passed, RoomToPay, OneRow, NotLost, At
    <3>2. CASE e # Tell("paid", c)
      <4>1. Tell("paid", c) \in sent' <=> Tell("paid", c) \in sent
        BY <2>1, <3>2
      <4> QED
        BY <1>0, <2>1, <4>1 DEF BillOK, BillTrue, KeyPast, Passed, RoomToPay, OneRow, NotLost, At
    <3> QED
      BY <3>1, <3>2
  <2>3. RowType' /\ \A t \in Tab : At(t, "persist") => invoice'[op[t].charge].rows = 0
    BY <1>0, <2>1 DEF RowType, Holds
  <2> QED
    BY <2>1, <2>2, <2>3, WebhookRest
<1>2. ASSUME NEW c \in Charge, Created(c) PROVE BillInv'
  <2>1. UNCHANGED <<gateway, now, agreement, bill, sent, courtesy, op, ops>>
    BY <1>2 DEF Created, Handles, external, actors
  <2>2. CASE Known(c)
    <3>1. UNCHANGED <<sub, invoice, applied>>
      BY <1>2, <2>2 DEF Created, Ignore
    <3>2. \A d \in Charge : BillOK(d)'
      BY <1>0, <2>1, <3>1, BillSame DEF At
    <3> QED
      BY <1>0, <2>1, <3>1, <3>2, WebhookRest DEF RowType, Holds
  <2>3. CASE ~Known(c)
    <3>1. /\ invoice' = [invoice EXCEPT ![c] = [rows |-> 1, status |-> "pending",
                                                event |-> "created", qr |-> FALSE]]
          /\ UNCHANGED <<sub, applied>> /\ Tell("created", c) \in sent
          /\ Matched(Tell("created", c))
      BY <1>2, <2>3 DEF Created, Handles
    <3>2. sub.agreement = bill[c].of
      BY <2>3, <3>1 DEF Matched, Tell
    <3>3. invoice[c].rows = 0
      BY <1>0, <2>3 DEF Known, Invoice
    <3>4. RowType'
      BY <1>0, <2>1, <3>1 DEF RowType, Invoice
    <3>5. ASSUME NEW t \in Tab, At(t, "persist") PROVE invoice'[op[t].charge].rows = 0
      <4>1. op[t].charge # c /\ op[t].charge \in Charge /\ invoice[op[t].charge].rows = 0
        BY <1>0, <3>2, <3>5 DEF Holds
      <4> QED
        BY <1>0, <3>1, <4>1
    <3>6. ASSUME NEW d \in Charge PROVE BillOK(d)'
      <4>1. CASE d = c
        <5>1. /\ invoice'[c].rows = 1 /\ invoice'[c].event = "created"
              /\ bill[c].state # "unused" /\ bill[c].of # None
              /\ gateway = "vindi"
          BY <1>0, <3>1 DEF BillOK, BillTrue
        <5>2. BillTrue(c)'
          BY <1>0, <2>1, <5>1 DEF BillOK, BillTrue
        <5>3. KeyPast(c)' /\ OneRow(c)'
          BY <2>1, <5>1 DEF KeyPast, OneRow
        <5>4. applied[Tell("paid", c)] = 0
          BY <1>0, <3>3, Telling DEF BillOK, RoomToPay
        <5>5. RoomToPay(c)'
          BY <3>1, <5>1, <5>4 DEF RoomToPay
        <5>6. NotLost(c)'
          BY <1>0, <2>1, <5>1 DEF BillOK, BillTrue, NotLost
        <5> QED
          BY <4>1, <5>2, <5>3, <5>5, <5>6 DEF BillOK
      <4>2. CASE d # c
        <5>1. invoice'[d] = invoice[d]
          BY <1>0, <3>1, <4>2
        <5> QED
          BY <1>0, <2>1, <3>1, <5>1, BillSame DEF At
      <4> QED
        BY <4>1, <4>2
    <3> QED
      BY <2>1, <3>1, <3>4, <3>5, <3>6, WebhookRest
  <2> QED
    BY <2>2, <2>3
<1>3. ASSUME NEW c \in Charge, Paid(c) PROVE BillInv'
  <2>1. /\ UNCHANGED <<gateway, now, agreement, bill, sent, courtesy, op, ops>>
        /\ Tell("paid", c) \in sent /\ invoice[c].rows > 0
    BY <1>3, TellApart DEF Paid, Handles, external, actors, Matched, Known, Tell
  <2>2. CASE invoice[c].event = "paid"
    <3>1. UNCHANGED <<sub, invoice, applied>>
      BY <1>3, <2>2 DEF Paid, PaidBefore, Ignore
    <3>2. \A d \in Charge : BillOK(d)'
      BY <1>0, <2>1, <3>1, BillSame DEF At
    <3> QED
      BY <1>0, <2>1, <3>1, <3>2, WebhookRest DEF RowType, Holds
  <2>3. CASE invoice[c].event # "paid"
    <3> DEFINE e == Tell("paid", c)
    <3>1. /\ invoice' = [invoice EXCEPT ![c].status = "paid", ![c].event = "paid"]
          /\ sub' = [sub EXCEPT !.status = "active"]
          /\ applied' = [applied EXCEPT ![e] = IF @ < 2 THEN @ + 1 ELSE @]
      BY <1>3, <2>3 DEF Paid, PaidBefore, Apply
    <3>2. bill[c].state = "paid" /\ e \in Event
      BY <1>0, <2>1, Telling DEF BillOK, BillTrue
    <3>3. RowType'
      <4>1. sub' \in Subscription
        BY <1>0, <3>1 DEF Subscription
      <4>2. [invoice[c] EXCEPT !.status = "paid", !.event = "paid"] \in Invoice
        BY <1>0 DEF Invoice
      <4>3. invoice' = [invoice EXCEPT ![c] =
                          [invoice[c] EXCEPT !.status = "paid", !.event = "paid"]]
        BY <1>0, <3>1 DEF Invoice
      <4>4. invoice' \in [Charge -> Invoice]
        BY <1>0, <4>2, <4>3
      <4>5. applied' \in [Event -> 0 .. 2]
        BY <1>0, <3>1, <3>2
      <4> QED
        BY <1>0, <2>1, <4>1, <4>4, <4>5 DEF RowType
    <3>4. sub'.agreement = sub.agreement /\ sub'.period = sub.period
      BY <1>0, <3>1 DEF Subscription
    <3>5. /\ invoice'[c].rows = invoice[c].rows /\ invoice'[c].event = "paid"
          /\ \A d \in Charge : invoice'[d].rows = invoice[d].rows
          /\ \A d \in Charge : d # c => invoice'[d] = invoice[d]
      BY <1>0, <3>1 DEF Invoice
    <3>6. ASSUME NEW d \in Charge PROVE BillOK(d)'
      <4>1. CASE d = c
        <5>1. BillTrue(c)' /\ KeyPast(c)' /\ OneRow(c)'
          BY <1>0, <2>1, <3>4, <3>5 DEF BillOK, BillTrue, KeyPast, Passed, OneRow, At
        <5>2. applied[e] < invoice[c].rows /\ applied[e] \in Nat /\ invoice[c].rows \in Nat
          BY <1>0, <2>1, <2>3, <3>2 DEF BillOK, RoomToPay, Invoice
        <5>3. applied'[e] <= applied[e] + 1 /\ applied'[e] \in Nat
          BY <1>0, <3>1, <3>2
        <5>4. RoomToPay(c)'
          BY <3>5, <5>2, <5>3 DEF RoomToPay
        <5>5. NotLost(c)'
          BY <2>1 DEF NotLost
        <5> QED
          BY <4>1, <5>1, <5>4, <5>5 DEF BillOK
      <4>2. CASE d # c
        <5>1. Tell("paid", d) # e /\ Tell("paid", d) \in Event
          BY <4>2, TellApart, Telling
        <5>2. applied'[Tell("paid", d)] = applied[Tell("paid", d)]
          BY <1>0, <3>1, <5>1
        <5> QED
          BY <1>0, <2>1, <3>4, <3>5, <4>2, <5>2, BillSame DEF At
      <4> QED
        BY <4>1, <4>2
    <3>7. \A t \in Tab : At(t, "persist") => invoice'[op[t].charge].rows = 0
      BY <1>0, <3>5 DEF Holds
    <3> QED
      BY <2>1, <3>2, <3>3, <3>4, <3>6, <3>7, WebhookRest
  <2> QED
    BY <2>2, <2>3
<1>4. ASSUME NEW c \in Charge, Failed(c) PROVE BillInv'
  <2>1. UNCHANGED <<gateway, now, agreement, bill, sent, courtesy, op, ops>>
    BY <1>4 DEF Failed, Handles, external, actors
  <2>2. CASE invoice[c].status = "failed"
    <3>1. UNCHANGED <<sub, invoice, applied>>
      BY <1>4, <2>2 DEF Failed, Ignore
    <3>2. \A d \in Charge : BillOK(d)'
      BY <1>0, <2>1, <3>1, BillSame DEF At
    <3> QED
      BY <1>0, <2>1, <3>1, <3>2, WebhookRest DEF RowType, Holds
  <2>3. CASE invoice[c].status # "failed"
    <3> DEFINE e == Tell("failed", c)
    <3>1. /\ invoice' = [invoice EXCEPT ![c].status = "failed"]
          /\ sub' = [sub EXCEPT !.status = "past_due"]
          /\ applied' = [applied EXCEPT ![e] = IF @ < 2 THEN @ + 1 ELSE @]
          /\ e \in Event
      BY <1>4, <2>3, Telling DEF Failed, Apply
    <3>2. RowType'
      BY <1>0, <2>1, <3>1 DEF RowType, Invoice, Subscription
    <3>3. /\ sub'.agreement = sub.agreement /\ sub'.period = sub.period
          /\ sub'.status = "past_due"
      BY <1>0, <3>1 DEF Subscription
    <3>4. \A d \in Charge : /\ invoice'[d].rows = invoice[d].rows
                            /\ invoice'[d].event = invoice[d].event
      BY <1>0, <3>1 DEF Invoice
    <3>5. ASSUME NEW d \in Charge PROVE BillOK(d)'
      <4>1. Tell("paid", d) # e /\ Tell("paid", d) \in Event
        BY TellApart, Telling
      <4>2. applied'[Tell("paid", d)] = applied[Tell("paid", d)]
        BY <1>0, <3>1, <4>1
      <4> QED
        BY <1>0, <2>1, <3>3, <3>4, <4>2, BillSame DEF At
    <3>6. \A t \in Tab : At(t, "persist") => invoice'[op[t].charge].rows = 0
      BY <1>0, <3>4 DEF Holds
    <3> QED
      BY <2>1, <3>2, <3>3, <3>5, <3>6, WebhookRest
  <2> QED
    BY <2>2, <2>3
<1>5. ASSUME NEW a \in Agreement, Canceled(a) PROVE BillInv'
  <2>1. UNCHANGED <<gateway, now, agreement, bill, sent, courtesy, op, ops, invoice>>
    BY <1>5 DEF Canceled, Handles, external, actors, Ignore
  <2>2. CASE sub.status = "canceled"
    <3>1. UNCHANGED <<sub, applied>>
      BY <1>5, <2>2 DEF Canceled, Ignore
    <3>2. \A d \in Charge : BillOK(d)'
      BY <1>0, <2>1, <3>1, BillSame DEF At
    <3> QED
      BY <1>0, <2>1, <3>1, <3>2, WebhookRest DEF RowType, Holds
  <2>3. CASE sub.status # "canceled"
    <3> DEFINE e == Tell("canceled", a)
    <3>1. /\ sub' = [sub EXCEPT !.status = "canceled"]
          /\ applied' = [applied EXCEPT ![e] = IF @ < 2 THEN @ + 1 ELSE @]
          /\ e \in Event
      BY <1>5, <2>3, Telling DEF Canceled, Apply
    <3>2. RowType'
      BY <1>0, <2>1, <3>1 DEF RowType, Subscription
    <3>3. /\ sub'.agreement = sub.agreement /\ sub'.period = sub.period
          /\ sub'.status = "canceled"
      BY <1>0, <3>1 DEF Subscription
    <3>4. ASSUME NEW d \in Charge PROVE BillOK(d)'
      <4>1. Tell("paid", d) # e /\ Tell("paid", d) \in Event
        BY TellApart, Telling
      <4>2. applied'[Tell("paid", d)] = applied[Tell("paid", d)]
        BY <1>0, <3>1, <4>1
      <4> QED
        BY <1>0, <2>1, <3>3, <4>2, BillSame DEF At
    <3> QED
      BY <1>0, <2>1, <3>2, <3>3, <3>4, WebhookRest DEF Holds
  <2> QED
    BY <2>2, <2>3
<1>6. ASSUME NEW c \in Charge, PixUpdated(c) PROVE BillInv'
  <2>1. /\ UNCHANGED <<gateway, now, agreement, bill, sent, courtesy, op, ops, sub, applied>>
        /\ invoice' = [invoice EXCEPT ![c].qr = TRUE]
    BY <1>6 DEF PixUpdated, external, actors
  <2>2. \A d \in Charge : /\ invoice'[d].rows = invoice[d].rows
                          /\ invoice'[d].event = invoice[d].event
    BY <1>0, <2>1 DEF Invoice
  <2>3. RowType'
    <3>1. [invoice[c] EXCEPT !.qr = TRUE] \in Invoice
      BY <1>0 DEF Invoice
    <3>2. invoice' \in [Charge -> Invoice]
      BY <1>0, <2>1, <3>1
    <3> QED
      BY <1>0, <2>1, <3>2 DEF RowType
  <2>4. \A d \in Charge : BillOK(d)'
    BY <1>0, <2>1, <2>2, BillSame DEF At
  <2> QED
    BY <1>0, <2>1, <2>2, <2>3, <2>4, WebhookRest DEF Holds
<1> QED
  BY <1>1, <1>2, <1>3, <1>4, <1>5, <1>6, Telling DEF Deliver

--------------------------------------------------------------------------------
(* Checkouts.                                                              *)

TabShape(r) ==
  /\ r.at \in {"idle", "replace", "cancel", "ask", "persist", "local"}
  /\ r.at # "idle" =>
       /\ r.method \in {"card", "pix"} /\ r.sub \in Subscription
       /\ r.of \in Agreement \cup {None} /\ r.charge \in Charge \cup {None}
       /\ r.paid \in BOOLEAN

LEMMA TabReads ==
  ASSUME BillType, NEW t \in Tab
  PROVE  op[t] \in TabOp /\ TabShape(op[t])
BY DEF BillType, OpType, TabOp, TabShape, Idle

(* A step of a checkout that writes no row and makes no agreement.         *)
LEMMA CheckoutMoves ==
  ASSUME BillInv, NEW t \in Tab, NEW v \in TabOp, op' = [op EXCEPT ![t] = v],
         ops' \in 0 .. MaxOps,
         UNCHANGED <<gateway, now, sub, invoice, applied, courtesy>>,
         GatewayType', sent \subseteq sent', \A c \in Charge : BillMoves(c) /\ BillTrue(c)',
         \A a \in Agreement : agreement[a] # "unused" => agreement'[a] # "unused",
         v.at \in {"replace", "cancel"} => v.sub.agreement \in Agreement,
         v.at # "persist"
  PROVE  BillInv'
<1>1. /\ OpType' /\ op'[t] = v
      /\ \A y \in Tab : y # t => op'[y] = op[y]
      /\ \A k \in Charger : op'[k] = op[k]
  BY TabMoves DEF BillInv, BillType
<1>2. BillType'
  BY <1>1 DEF BillInv, BillType, RowType
<1>3. Bills'
  <2>1. \A k \in Charger : At(k, "charge")' => At(k, "charge") /\ op'[k] = op[k]
    BY <1>1 DEF At
  <2>2. now <= now'
    BY DEF BillInv, BillType
  <2> QED
    BY <1>2, <2>1, <2>2, BillsKept DEF BillInv
<1>4. Checkouts'
  <2>1. ASSUME NEW y \in Tab
        PROVE  /\ op'[y].at \in {"replace", "cancel"} => op'[y].sub.agreement \in Agreement
               /\ At(y, "persist")' => At(y, "persist") /\ op'[y] = op[y]
    <3>1. CASE y = t
      BY <1>1, <3>1 DEF At
    <3>2. CASE y # t
      BY <1>1, <3>2 DEF At, BillInv, Checkouts
    <3> QED
      BY <3>1, <3>2
  <2> QED
    BY <2>1, HoldsKept DEF BillInv
<1>5. OneCharger'
  BY <1>1 DEF BillInv, OneCharger, At
<1>6. ActiveEarned'
  BY DEF BillInv, ActiveEarned, BillMoves
<1> QED
  BY <1>2, <1>3, <1>4, <1>5, <1>6 DEF BillInv

LEMMA GatewayStill ==
  ASSUME BillInv, UNCHANGED <<gateway, invoice, agreement, bill, sent>>
  PROVE  /\ GatewayType' /\ sent \subseteq sent'
         /\ \A c \in Charge : BillMoves(c) /\ BillTrue(c)'
         /\ \A b \in Agreement : agreement[b] # "unused" => agreement'[b] # "unused"
BY DEF BillInv, BillType, GatewayType, Bills, BillMoves, BillTrue

LEMMA CheckoutGateway ==
  ASSUME BillInv, NEW t \in Tab,
         \/ \E method \in {"card", "pix"} : CheckoutRead(t, method)
         \/ CancelOld(t) \/ GatewayRefuses(t) \/ PersistFails(t)
  PROVE  BillInv'
<1>0. /\ op[t] \in TabOp /\ TabShape(op[t]) /\ ops \in 0 .. MaxOps /\ sub \in Subscription
      /\ op[t].at \in {"replace", "cancel"} => op[t].sub.agreement \in Agreement
      /\ At(t, "persist") => op[t].of \in Agreement
      /\ op = [x \in Actor |-> op[x]] /\ t \in Actor
  BY TabReads DEF BillInv, BillType, OpType, RowType, Checkouts, Holds, Actor
<1>1. ASSUME NEW method \in {"card", "pix"}, CheckoutRead(t, method) PROVE BillInv'
  <2> DEFINE at == CASE Replaces(method)                     -> "replace"
                     [] gateway = "pagbank" /\ method = "pix" -> "local"
                     [] OTHER                                -> "ask"
             v == [at |-> at, method |-> method, sub |-> sub,
                   of |-> None, charge |-> None, paid |-> FALSE]
  <2>1. /\ op' = [op EXCEPT ![t] = v] /\ ops' = ops + 1 /\ ops < MaxOps
        /\ UNCHANGED <<gateway, now, sub, invoice, agreement, bill, sent, applied, courtesy>>
    BY <1>1 DEF CheckoutRead, Start, external
  <2>2. at \in {"replace", "local", "ask"} /\ (at = "replace" => Replaces(method))
    BY DEF BillInv
  <2> HIDE DEF at
  <2>3. v \in TabOp
    BY <1>0, <2>2 DEF TabOp
  <2>4. v.at \in {"replace", "cancel"} => v.sub.agreement \in Agreement
    BY <1>0, <2>2 DEF Replaces, Subscription
  <2>5. v.at # "persist"
    BY <2>2
  <2>6. ops' \in 0 .. MaxOps
    BY <1>0, <2>1, Dates
  <2> HIDE DEF v
  <2> QED
    BY <2>1, <2>3, <2>4, <2>5, <2>6, GatewayStill, CheckoutMoves
<1>2. CASE CancelOld(t)
  <2> DEFINE v == [op[t] EXCEPT !.at = "ask"]
  <2>1. /\ op' = [op EXCEPT ![t] = v] /\ op[t].at = "cancel"
        /\ UNCHANGED <<gateway, now, sub, invoice, applied, courtesy, ops>>
        /\ Cancel(op[t].sub.agreement) \/ UNCHANGED <<agreement, bill, sent>>
    BY <1>0, <1>2 DEF CancelOld, Goto, At, external
  <2>2. v \in TabOp /\ v.at = "ask"
    BY <1>0, <2>1 DEF TabOp, Idle
  <2>3. /\ GatewayType' /\ sent \subseteq sent'
        /\ \A c \in Charge : BillMoves(c) /\ BillTrue(c)'
        /\ \A b \in Agreement : agreement[b] # "unused" => agreement'[b] # "unused"
    <3>1. CASE Cancel(op[t].sub.agreement)
      BY <1>0, <2>1, <3>1, Canceling
    <3>2. CASE UNCHANGED <<agreement, bill, sent>>
      BY <2>1, <3>2, GatewayStill
    <3> QED
      BY <2>1, <3>1, <3>2
  <2> HIDE DEF v
  <2> QED
    BY <1>0, <2>1, <2>2, <2>3, CheckoutMoves
<1>3. CASE GatewayRefuses(t)
  <2>1. /\ op' = [op EXCEPT ![t] = Idle]
        /\ UNCHANGED <<gateway, now, sub, invoice, agreement, bill, sent, applied, courtesy, ops>>
    BY <1>3 DEF GatewayRefuses, Finish, external
  <2> QED
    BY <1>0, <2>1, IdleOps, GatewayStill, CheckoutMoves
<1>4. CASE PersistFails(t)
  <2>1. /\ op' = [op EXCEPT ![t] = Idle] /\ At(t, "persist")
        /\ UNCHANGED <<gateway, now, sub, invoice, applied, courtesy, ops>>
        /\ Cancel(op[t].of) \/ UNCHANGED <<agreement, bill, sent>>
    BY <1>4 DEF PersistFails, Finish, external
  <2>2. /\ GatewayType' /\ sent \subseteq sent'
        /\ \A c \in Charge : BillMoves(c) /\ BillTrue(c)'
        /\ \A b \in Agreement : agreement[b] # "unused" => agreement'[b] # "unused"
    <3>1. CASE Cancel(op[t].of)
      BY <1>0, <2>1, <3>1, Canceling
    <3>2. CASE UNCHANGED <<agreement, bill, sent>>
      BY <2>1, <3>2, GatewayStill
    <3> QED
      BY <2>1, <3>1, <3>2
  <2> QED
    BY <1>0, <2>1, <2>2, IdleOps, CheckoutMoves
<1> QED
  BY <1>1, <1>2, <1>3, <1>4

LEMMA AskStep ==
  ASSUME BillInv, NEW t \in Tab, AskGateway(t)
  PROVE  BillInv'
<1>0. /\ op[t] \in TabOp /\ TabShape(op[t])
      /\ op = [x \in Actor |-> op[x]] /\ t \in Actor
      /\ agreement \in [Agreement -> {"unused", "live", "canceled"}]
      /\ bill \in [Charge -> Bill] /\ sent \subseteq Event
      /\ \A c \in Charge : BillTrue(c)
      /\ \A u \in Tab : At(u, "persist") => Holds(u)
      /\ sub.agreement # None => agreement[sub.agreement] # "unused"
  BY TabReads DEF BillInv, BillType, OpType, GatewayType, Checkouts, Bills, Actor
<1>1. PICK a \in Agreement, c \in Charge, state \in {"open", "paid"} :
        /\ agreement[a] = "unused" /\ bill[c] = NoBill
        /\ agreement' = [agreement EXCEPT ![a] = "live"]
        /\ bill' = [bill EXCEPT ![c] = [state |-> state, of |-> a, key |-> Never]]
        /\ sent' = sent \cup (IF gateway = "vindi" THEN {Tell("created", c)} ELSE {})
                        \cup (IF state = "paid" THEN {Tell("paid", c)} ELSE {})
        /\ op' = [op EXCEPT ![t].at = "persist", ![t].of = a, ![t].charge = c,
                            ![t].paid = (state = "paid")]
  BY DEF AskGateway
<1>2. op[t].at = "ask" /\ UNCHANGED <<gateway, now, sub, invoice, applied, courtesy, ops>>
  BY DEF AskGateway, At
<1> DEFINE p == state = "paid"
           v == [op[t] EXCEPT !.at = "persist", !.of = a, !.charge = c, !.paid = p]
<1>p. p \in BOOLEAN /\ (p => state = "paid")
  OBVIOUS
<1>3. op' = [op EXCEPT ![t] = v]
  BY <1>0, <1>1
<1> HIDE DEF p
<1>4. v \in TabOp
  <2>1. op[t] # Idle
    BY <1>2, IdleOps
  <2>2. op[t] \in TabOp \ {Idle}
    BY <1>0, <2>1
  <2>3. v \in TabOp \ {Idle}
    BY <1>p, <2>2 DEF TabOp, Idle
  <2> QED
    BY <2>3
<1>5. v.at = "persist" /\ v.of = a /\ v.charge = c /\ (v.paid => state = "paid")
  BY <1>0, <1>2, <1>p DEF TabOp, Idle
<1> HIDE DEF v
<1>u. agreement[a] = "unused"
  BY <1>1
<1>6. /\ OpType' /\ op'[t] = v
      /\ \A y \in Tab : y # t => op'[y] = op[y]
      /\ \A k \in Charger : op'[k] = op[k]
  BY <1>2, <1>3, <1>4, TabMoves DEF BillInv, BillType, OpType
<1>7. /\ bill[c].state = "unused" /\ bill'[c].state = state /\ bill'[c].of = a
      /\ \A d \in Charge : d # c => bill'[d] = bill[d]
      /\ a # None
  BY <1>0, <1>1 DEF NoBill
<1>8. ASSUME NEW d \in Charge
      PROVE  /\ Tell("paid", d) \in sent' <=>
                  Tell("paid", d) \in sent \/ (d = c /\ state = "paid")
             /\ Tell("created", d) \in sent' <=>
                  Tell("created", d) \in sent \/ (d = c /\ gateway = "vindi")
  BY <1>1, TellApart
<1>9. ASSUME NEW d \in Charge PROVE BillMoves(d) /\ BillTrue(d)'
  <2>1. CASE d = c
    <3>1. BillMoves(c)
      BY <1>7, <1>8 DEF BillMoves
    <3>2. BillTrue(c)'
      BY <1>0, <1>2, <1>7, <1>8 DEF BillTrue
    <3> QED
      BY <2>1, <3>1, <3>2
  <2>2. CASE d # c
    BY <1>0, <1>2, <1>7, <1>8, <2>2 DEF BillMoves, BillTrue
  <2> QED
    BY <2>1, <2>2
<1>10. GatewayType'
  <2>1. sent' \subseteq Event
    BY <1>0, <1>1, Telling
  <2>2. [state |-> state, of |-> a, key |-> Never] \in Bill
    BY Dates DEF Bill
  <2> QED
    BY <1>0, <1>1, <2>1, <2>2 DEF GatewayType
<1>11. BillType'
  BY <1>2, <1>6, <1>10 DEF BillInv, BillType, RowType
<1>12. Bills'
  <2>1. now <= now' /\ sent \subseteq sent'
    BY <1>1, <1>2 DEF BillInv, BillType
  <2>2. \A k \in Charger : At(k, "charge")' => At(k, "charge") /\ op'[k] = op[k]
    BY <1>6 DEF At
  <2> QED
    BY <1>2, <1>9, <1>11, <2>1, <2>2, BillsKept DEF BillInv
<1>13. Checkouts'
  <2>1. agreement'[a] = "live" /\ \A b \in Agreement : b # a => agreement'[b] = agreement[b]
    BY <1>0, <1>1
  <2>2. sub.agreement # a
    BY <1>0, <1>u
  <2>3. Holds(t)'
    <3>1. \A u \in Tab : At(u, "persist")' /\ u # t => op'[u].of # a
      BY <1>0, <1>u, <1>6 DEF At, Holds
    <3>2. invoice'[c].rows = 0
      BY <1>0, <1>2, <1>7 DEF BillTrue
    <3>3. /\ op'[t].of = a /\ op'[t].charge = c
          /\ op'[t].paid => bill'[c].state = "paid"
          /\ bill'[c].state # "unused"
      BY <1>5, <1>6, <1>7
    <3> QED
      BY <1>2, <1>7, <2>1, <2>2, <3>1, <3>2, <3>3 DEF Holds
  <2>4. ASSUME NEW u \in Tab, u # t, At(u, "persist") PROVE Holds(u)'
    <3>1. Holds(u) /\ op'[u] = op[u] /\ op[u].of # a
      BY <1>0, <1>u, <1>6, <2>4 DEF Holds
    <3>2. bill'[op[u].charge] = bill[op[u].charge]
      BY <1>7, <3>1 DEF Holds
    <3>3. \A y \in Tab : At(y, "persist")' /\ y # u => op'[y].of # op[u].of
      BY <1>5, <1>6, <3>1 DEF Holds, At
    <3> QED
      BY <1>2, <2>1, <3>1, <3>2, <3>3 DEF Holds
  <2>5. sub'.agreement # None => agreement'[sub'.agreement] # "unused"
    BY <1>0, <1>2, <2>1, <2>2 DEF BillInv, BillType, RowType, Subscription
  <2> QED
    BY <1>5, <1>6, <2>3, <2>4, <2>5 DEF Checkouts, BillInv, At
<1>14. OneCharger'
  BY <1>2, <1>6 DEF BillInv, OneCharger, At
<1>15. ActiveEarned'
  BY <1>2, <1>9 DEF BillInv, ActiveEarned, BillMoves
<1> QED
  BY <1>11, <1>12, <1>13, <1>14, <1>15 DEF BillInv

LEMMA PersistStep ==
  ASSUME BillInv, NEW t \in Tab, Persist(t)
  PROVE  BillInv'
<1>0. /\ op[t] \in TabOp /\ TabShape(op[t])
      /\ sub \in Subscription /\ invoice \in [Charge -> Invoice] /\ now \in 0 .. MaxNow
      /\ applied \in [Event -> 0 .. 2]
      /\ \A d \in Charge : BillOK(d)
      /\ \A u \in Tab : At(u, "persist") => Holds(u)
  BY TabReads DEF BillInv, BillType, OpType, RowType, Checkouts, Bills, BillOK
<1>1. /\ op[t].at = "persist" /\ op' = [op EXCEPT ![t] = Idle] /\ Holds(t)
      /\ UNCHANGED <<gateway, now, agreement, bill, sent, applied, courtesy, ops>>
      /\ sub' = [sub EXCEPT
           !.status = IF op[t].paid THEN "active" ELSE StatusUntilPaid(op[t].sub),
           !.method = op[t].method, !.agreement = op[t].of,
           !.period = IF op[t].method = "card" THEN NextMonth ELSE @]
  BY <1>0 DEF Persist, At, Finish, external
<1>2. PICK c \in Charge, a \in Agreement :
        /\ op[t].charge = c /\ op[t].of = a
        /\ invoice[c].rows = 0 /\ bill[c].of = a /\ a # None
  BY <1>1 DEF Holds
<1>3. PICK qr \in BOOLEAN :
        invoice' = IF gateway = "pagbank" THEN invoice
                   ELSE [invoice EXCEPT ![c] = [rows |-> @.rows + 1,
                          status |-> IF op[t].paid THEN "paid" ELSE "pending",
                          event |-> "none", qr |-> qr]]
  BY <1>2 DEF Persist
<1>4. /\ OpType' /\ op'[t] = Idle
      /\ \A y \in Tab : y # t => op'[y] = op[y]
      /\ \A k \in Charger : op'[k] = op[k]
  BY <1>1, IdleOps, TabMoves DEF BillInv, BillType, OpType
<1>5. /\ sub' \in Subscription /\ sub'.agreement = a
      /\ sub'.period = sub.period \/ sub'.period = now + 1
      /\ sub'.status = "active" => op[t].paid
  <2>1. op[t].method \in {"card", "pix"} /\ op[t].paid \in BOOLEAN
    BY <1>0, <1>1 DEF TabShape
  <2>2. StatusUntilPaid(op[t].sub) \in {"trialing", "pending_payment"}
    BY DEF StatusUntilPaid
  <2>3. NextMonth \in Date /\ NextMonth = now + 1
    BY <1>0, Dates DEF NextMonth
  <2> QED
    BY <1>0, <1>1, <1>2, <2>1, <2>2, <2>3 DEF Subscription
<1>6. ASSUME gateway = "vindi"
      PROVE  /\ invoice'[c].rows = 1 /\ invoice'[c].event = "none"
             /\ invoice' \in [Charge -> Invoice]
             /\ \A d \in Charge : d # c => invoice'[d] = invoice[d]
  BY <1>0, <1>3, <1>2, <1>6 DEF Invoice
<1>7. gateway = "pagbank" => invoice' = invoice
  BY <1>3
<1>8. gateway \in {"vindi", "pagbank"}
  BY DEF BillInv, BillType
<1>9. BillType'
  <2>1. invoice' \in [Charge -> Invoice]
    BY <1>0, <1>6, <1>7, <1>8
  <2> QED
    BY <1>1, <1>4, <1>5, <2>1 DEF BillInv, BillType, RowType, GatewayType
<1>10. ASSUME NEW d \in Charge, invoice'[d] = invoice[d] PROVE BillOK(d)'
  <2>1. BillOK(d) /\ bill[d].key \in Int /\ now \in Int
    BY <1>0, Dates DEF BillInv, BillType, GatewayType, Bill, Date, Never, Forever
  <2>2. sub'.period = sub.period \/ (bill[d].key <= now => Passed(d, sub.period)')
    BY <1>1, <1>5, <2>1 DEF Passed
  <2> QED
    BY <1>1, <1>4, <1>10, <2>1, <2>2, BillSame DEF At
<1>11. ASSUME gateway = "vindi" PROVE BillOK(c)'
  <2>1. BillOK(c) /\ bill[c].state # "unused"
    BY <1>0, <1>1, <1>2 DEF Holds
  <2>2. applied[Tell("paid", c)] = 0
    BY <1>0, <1>2, <2>1, Telling DEF BillOK, RoomToPay
  <2>3. BillTrue(c)' /\ NotLost(c)'
    BY <1>1, <1>2, <1>6, <1>11, <2>1 DEF BillOK, BillTrue, NotLost
  <2>4. RoomToPay(c)' /\ OneRow(c)'
    BY <1>1, <1>6, <1>11, <2>2 DEF RoomToPay, OneRow
  <2>5. KeyPast(c)'
    BY <1>1, <1>2 DEF KeyPast
  <2> QED
    BY <2>3, <2>4, <2>5 DEF BillOK
<1>12. Bills'
  <2>1. ASSUME NEW d \in Charge PROVE BillOK(d)'
    <3>1. CASE invoice'[d] = invoice[d]
      BY <1>10, <3>1
    <3>2. CASE invoice'[d] # invoice[d]
      <4>1. gateway = "vindi" /\ d = c
        BY <1>6, <1>7, <1>8, <3>2
      <4> QED
        BY <1>11, <4>1
    <3> QED
      BY <3>1, <3>2
  <2> QED
    BY <2>1 DEF Bills, BillOK
<1>13. Checkouts'
  <2>1. ASSUME NEW u \in Tab, At(u, "persist")' PROVE Holds(u)'
    <3>1. u # t /\ op'[u] = op[u] /\ Holds(u) /\ At(u, "persist")
      BY <1>0, <1>4, <2>1, IdleOps DEF At
    <3>2. op[u].of # a /\ op[u].charge # c
      BY <1>1, <1>2, <3>1 DEF Holds
    <3>3. invoice'[op[u].charge].rows = 0
      BY <1>6, <1>7, <1>8, <3>1, <3>2 DEF Holds
    <3>4. \A y \in Tab : At(y, "persist")' /\ y # u => op'[y].of # op'[u].of
      BY <1>4, <3>1, IdleOps DEF Holds, At
    <3> QED
      BY <1>1, <1>5, <3>1, <3>2, <3>3, <3>4 DEF Holds
  <2>2. agreement'[sub'.agreement] # "unused"
    BY <1>1, <1>5 DEF Holds
  <2>3. \A u \in Tab : op'[u].at \in {"replace", "cancel"} =>
                         op'[u].sub.agreement \in Agreement
    BY <1>4, IdleOps DEF BillInv, Checkouts
  <2> QED
    BY <2>1, <2>2, <2>3 DEF Checkouts
<1>14. OneCharger'
  BY <1>1, <1>4 DEF BillInv, OneCharger, At
<1>15. ActiveEarned'
  <2>1. op[t].paid => bill[c].state = "paid"
    BY <1>1, <1>2 DEF Holds
  <2> QED
    BY <1>1, <1>2, <1>5, <2>1 DEF ActiveEarned
<1> QED
  BY <1>9, <1>12, <1>13, <1>14, <1>15 DEF BillInv

(* A step that writes rows and makes no agreement.                         *)
LEMMA RowRest ==
  ASSUME BillInv, UNCHANGED <<gateway, now, agreement, sent>>,
         bill' \in [Charge -> Bill], RowType', OpType', OneCharger',
         sub'.agreement = sub.agreement, courtesy \subseteq courtesy',
         \A c \in Charge : BillOK(c)',
         \A c \in Charge : bill[c].state # "unused" => bill'[c] = bill[c],
         \A t \in Tab :
           /\ At(t, "persist")' => At(t, "persist") /\ op'[t] = op[t]
           /\ op'[t].at \in {"replace", "cancel"} => op'[t].sub.agreement \in Agreement
           /\ At(t, "persist") => invoice'[op[t].charge].rows = 0,
         sub'.status = "active" => sub.status = "active" \/ "grantAccess" \in courtesy'
  PROVE  BillInv'
<1>1. BillType'
  BY DEF BillInv, BillType, GatewayType
<1>2. Bills'
  BY DEF Bills, BillOK
<1>3. Checkouts'
  <2>1. ASSUME NEW t \in Tab, At(t, "persist")' PROVE Holds(t)'
    <3>1. Holds(t) /\ op'[t] = op[t] /\ invoice'[op[t].charge].rows = 0
      BY <2>1 DEF BillInv, Checkouts
    <3>2. bill'[op[t].charge] = bill[op[t].charge]
      BY <3>1 DEF Holds
    <3>3. \A u \in Tab : At(u, "persist")' /\ u # t => op'[u].of # op'[t].of
      BY <3>1 DEF Holds
    <3> QED
      BY <3>1, <3>2, <3>3 DEF Holds
  <2> QED
    BY <2>1 DEF BillInv, Checkouts
<1>4. ActiveEarned'
  BY DEF BillInv, ActiveEarned
<1> QED
  BY <1>1, <1>2, <1>3, <1>4 DEF BillInv

LEMMA CheckoutRows ==
  ASSUME BillInv, NEW t \in Tab, FailOpen(t) \/ LocalPix(t)
  PROVE  BillInv'
<1>0. /\ op[t] \in TabOp /\ TabShape(op[t])
      /\ op = [x \in Actor |-> op[x]] /\ t \in Actor
      /\ sub \in Subscription /\ invoice \in [Charge -> Invoice]
      /\ applied \in [Event -> 0 .. 2] /\ bill \in [Charge -> Bill]
      /\ courtesy \subseteq {"grantAccess", "revokeAccess"}
      /\ \A d \in Charge : BillOK(d)
      /\ \A u \in Tab : /\ op[u].at \in {"replace", "cancel"} =>
                             op[u].sub.agreement \in Agreement
                        /\ At(u, "persist") => Holds(u)
  BY TabReads
     DEF BillInv, BillType, OpType, RowType, GatewayType, Checkouts, Bills, BillOK, Actor
<1>1. CASE FailOpen(t)
  <2> DEFINE v == [op[t] EXCEPT !.at = "cancel"]
  <2>1. /\ op' = [op EXCEPT ![t] = v] /\ op[t].at = "replace"
        /\ UNCHANGED <<gateway, now, sub, agreement, bill, sent, applied, courtesy, ops>>
        /\ invoice' = [c \in Charge |->
                         IF c \in Open THEN [invoice[c] EXCEPT !.status = "failed"]
                                       ELSE invoice[c]]
    BY <1>0, <1>1 DEF FailOpen, Goto, At, external
  <2>2. v \in TabOp /\ v.at = "cancel" /\ v.sub.agreement \in Agreement
    <3>1. op[t] # Idle
      BY <2>1, IdleOps
    <3>2. op[t] \in TabOp \ {Idle}
      BY <1>0, <3>1
    <3>3. v \in TabOp \ {Idle} /\ v.at = "cancel" /\ v.sub = op[t].sub
      BY <3>2 DEF TabOp, Idle
    <3> QED
      BY <1>0, <2>1, <3>3
  <2> HIDE DEF v
  <2>3. /\ OpType' /\ op'[t] = v
        /\ \A y \in Tab : y # t => op'[y] = op[y]
        /\ \A k \in Charger : op'[k] = op[k]
    BY <2>1, <2>2, TabMoves DEF BillInv, BillType, OpType
  <2>4. ASSUME NEW c \in Charge
        PROVE  /\ invoice'[c].rows = invoice[c].rows /\ invoice'[c].event = invoice[c].event
               /\ invoice'[c] \in Invoice
    BY <1>0, <2>1 DEF Invoice
  <2>5. RowType'
    <3>1. invoice' \in [Charge -> Invoice]
      BY <2>1, <2>4
    <3> QED
      BY <1>0, <2>1, <3>1 DEF RowType
  <2>6. \A c \in Charge : BillOK(c)'
    BY <1>0, <2>1, <2>3, <2>4, BillSame DEF At
  <2>7. OneCharger'
    BY <2>1, <2>3 DEF BillInv, OneCharger, At
  <2>8. ASSUME NEW u \in Tab
        PROVE  /\ At(u, "persist")' => At(u, "persist") /\ op'[u] = op[u]
               /\ op'[u].at \in {"replace", "cancel"} => op'[u].sub.agreement \in Agreement
               /\ At(u, "persist") => invoice'[op[u].charge].rows = 0
    <3>1. At(u, "persist") => invoice'[op[u].charge].rows = 0
      BY <1>0, <2>4 DEF Holds
    <3>2. CASE u = t
      BY <2>2, <2>3, <3>1, <3>2 DEF At
    <3>3. CASE u # t
      BY <1>0, <2>3, <3>1, <3>3 DEF At
    <3> QED
      BY <3>2, <3>3
  <2> QED
    BY <1>0, <2>1, <2>3, <2>5, <2>6, <2>7, <2>8, RowRest
<1>2. CASE LocalPix(t)
  <2>1. /\ op' = [op EXCEPT ![t] = Idle]
        /\ UNCHANGED <<gateway, now, invoice, agreement, bill, sent, applied, courtesy, ops>>
        /\ sub' = [sub EXCEPT !.status = StatusUntilPaid(op[t].sub), !.method = "pix"]
    BY <1>2 DEF LocalPix, Finish, external
  <2>2. StatusUntilPaid(op[t].sub) \in {"trialing", "pending_payment"}
    BY DEF StatusUntilPaid
  <2>3. /\ sub' \in Subscription /\ sub'.agreement = sub.agreement
        /\ sub'.period = sub.period /\ sub'.status # "active"
    BY <1>0, <2>1, <2>2 DEF Subscription
  <2>4. /\ OpType' /\ op'[t] = Idle
        /\ \A y \in Tab : y # t => op'[y] = op[y]
        /\ \A k \in Charger : op'[k] = op[k]
    BY <2>1, IdleOps, TabMoves DEF BillInv, BillType, OpType
  <2>5. RowType'
    BY <1>0, <2>1, <2>3 DEF RowType
  <2>6. \A c \in Charge : BillOK(c)'
    BY <1>0, <2>1, <2>3, <2>4, BillSame DEF At
  <2>7. OneCharger'
    BY <2>1, <2>4 DEF BillInv, OneCharger, At
  <2>8. \A u \in Tab :
          /\ At(u, "persist")' => At(u, "persist") /\ op'[u] = op[u]
          /\ op'[u].at \in {"replace", "cancel"} => op'[u].sub.agreement \in Agreement
          /\ At(u, "persist") => invoice'[op[u].charge].rows = 0
    BY <1>0, <2>1, <2>4, IdleOps DEF At, Holds
  <2> QED
    BY <1>0, <2>1, <2>3, <2>4, <2>5, <2>6, <2>7, <2>8, RowRest
<1> QED
  BY <1>1, <1>2

--------------------------------------------------------------------------------
(* Charges.                                                                *)

(* The order of a charge: the one its key already has, or a new one.       *)
LEMMA Ordering ==
  ASSUME BillInv, NEW k \in Charger, At(k, "charge"), NEW c \in Charge, Order(k, c)
  PROVE  /\ bill' \in [Charge -> Bill]
         /\ \A d \in Charge : d # c => bill'[d] = bill[d]
         /\ \A d \in Charge : bill[d].state # "unused" => bill'[d] = bill[d]
         /\ bill'[c].state # "unused" /\ bill'[c].of = None
         /\ bill'[c].key = op[k].period
         /\ bill'[c] = bill[c] \/ (bill[c].state = "unused" /\ bill'[c].state = "open")
         /\ Tell("created", c) \notin sent
<1> DEFINE same == {d \in Charge : bill[d].state # "unused" /\ bill[d].of = None
                                    /\ bill[d].key = op[k].period}
<1>0. bill \in [Charge -> Bill] /\ op[k].period \in Date /\ BillTrue(c)
  BY IdleOps
     DEF BillInv, BillType, GatewayType, OpType, ChargerOp, At, Bills
<1>1. CASE same # {}
  <2>1. c \in same /\ bill' = bill
    BY <1>1 DEF Order
  <2> QED
    BY <1>0, <2>1 DEF BillTrue
<1>2. CASE same = {}
  <2>1. /\ bill[c].state = "unused"
        /\ bill' = [bill EXCEPT ![c] = [state |-> "open", of |-> None, key |-> op[k].period]]
    BY <1>2 DEF Order, NoBill
  <2>2. [state |-> "open", of |-> None, key |-> op[k].period] \in Bill
    BY <1>0 DEF Bill
  <2>3. bill'[c] = [state |-> "open", of |-> None, key |-> op[k].period]
    BY <1>0, <2>1
  <2> QED
    BY <1>0, <2>1, <2>2, <2>3 DEF BillTrue
<1> QED
  BY <1>1, <1>2

LEMMA ChargeStep ==
  ASSUME BillInv, NEW k \in Charger, ChargeRead(k) \/ ChargeCommit(k) \/ ChargeFails(k)
  PROVE  BillInv'
<1>0. /\ sub \in Subscription /\ invoice \in [Charge -> Invoice] /\ now \in 0 .. MaxNow
      /\ applied \in [Event -> 0 .. 2] /\ bill \in [Charge -> Bill]
      /\ courtesy \subseteq {"grantAccess", "revokeAccess"}
      /\ op[k] \in ChargerOp
      /\ \A d \in Charge : BillOK(d)
      /\ \A u \in Tab : /\ op[u].at \in {"replace", "cancel"} =>
                             op[u].sub.agreement \in Agreement
                        /\ At(u, "persist") => Holds(u)
      /\ \A m \in Charger : At(m, "charge") =>
           /\ op[m].period <= now
           /\ \A n \in Charger : At(n, "charge") => n = m
  BY DEF BillInv, BillType, OpType, RowType, GatewayType, Checkouts, Bills, BillOK, OneCharger
<1>1. CASE ChargeRead(k)
  <2> DEFINE v == [at |-> "charge", period |-> sub.period]
  <2>1. /\ op' = [op EXCEPT ![k] = v] /\ \A m \in Charger : At(m, "idle")
        /\ UNCHANGED <<gateway, now, sub, invoice, agreement, bill, sent, applied, courtesy, ops>>
        /\ sub.period <= now
    BY <1>1 DEF ChargeRead, LockFree, Billable, Due, Start, external
  <2>2. v \in ChargerOp
    BY <1>0 DEF ChargerOp, Subscription
  <2>3. /\ OpType' /\ op'[k] = v
        /\ \A y \in Charger : y # k => op'[y] = op[y]
        /\ \A t \in Tab : op'[t] = op[t]
    BY <2>1, <2>2, ChargerMoves DEF BillInv, BillType, OpType
  <2>4. \A m \in Charger : At(m, "charge")' => m = k
    BY <2>1, <2>3 DEF At
  <2>5. OneCharger'
    BY <2>1, <2>3, <2>4 DEF OneCharger
  <2>6. ASSUME NEW c \in Charge PROVE BillOK(c)'
    BY <1>0, <2>1, <2>3, <2>4, BillSame
  <2>7. RowType'
    BY <1>0, <2>1 DEF RowType
  <2>8. \A u \in Tab :
          /\ At(u, "persist")' => At(u, "persist") /\ op'[u] = op[u]
          /\ op'[u].at \in {"replace", "cancel"} => op'[u].sub.agreement \in Agreement
          /\ At(u, "persist") => invoice'[op[u].charge].rows = 0
    BY <1>0, <2>1, <2>3 DEF At, Holds
  <2> QED
    BY <1>0, <2>1, <2>3, <2>5, <2>6, <2>7, <2>8, RowRest
<1>2. ASSUME op' = [op EXCEPT ![k] = Idle], UNCHANGED ops, UNCHANGED <<gateway, now>>
      PROVE  /\ OpType' /\ op'[k] = Idle /\ OneCharger'
             /\ \A t \in Tab : op'[t] = op[t]
             /\ \A m \in Charger : At(m, "charge")' => At(m, "charge") /\ op'[m] = op[m]
             /\ At(k, "charge") => \A m \in Charger : ~At(m, "charge")'
  <2>1. /\ OpType' /\ op'[k] = Idle
        /\ \A y \in Charger : y # k => op'[y] = op[y]
        /\ \A t \in Tab : op'[t] = op[t]
    BY <1>2, IdleOps, ChargerMoves DEF BillInv, BillType, OpType
  <2>2. \A m \in Charger : At(m, "charge")' => m # k /\ At(m, "charge") /\ op'[m] = op[m]
    BY <2>1, IdleOps DEF At
  <2>3. OneCharger'
    BY <1>0, <1>2, <2>2 DEF OneCharger
  <2>4. At(k, "charge") => \A m \in Charger : ~At(m, "charge")'
    BY <1>0, <2>2
  <2> QED
    BY <2>1, <2>2, <2>3, <2>4
<1>3. CASE ChargeCommit(k)
  <2>1. /\ At(k, "charge") /\ op' = [op EXCEPT ![k] = Idle]
        /\ UNCHANGED <<gateway, now, agreement, sent, applied, courtesy, ops>>
        /\ sub' = [sub EXCEPT !.period = NextMonth]
    BY <1>3 DEF ChargeCommit, Finish
  <2>2. PICK c \in Charge :
          /\ Order(k, c)
          /\ invoice' = [invoice EXCEPT ![c] = [rows |-> @.rows + 1, status |-> "pending",
                                                event |-> "none", qr |-> TRUE]]
    BY <1>3 DEF ChargeCommit
  <2>3. /\ bill' \in [Charge -> Bill]
        /\ \A d \in Charge : d # c => bill'[d] = bill[d]
        /\ \A d \in Charge : bill[d].state # "unused" => bill'[d] = bill[d]
        /\ bill'[c].state # "unused" /\ bill'[c].of = None
        /\ bill'[c].key = op[k].period
        /\ bill'[c] = bill[c] \/ (bill[c].state = "unused" /\ bill'[c].state = "open")
        /\ Tell("created", c) \notin sent
    BY <2>1, <2>2, Ordering
  <2>4. NextMonth \in Date /\ NextMonth = now + 1
    BY <1>0, Dates DEF NextMonth
  <2>5. /\ sub' \in Subscription /\ sub'.agreement = sub.agreement
        /\ sub'.period = now + 1 /\ sub'.status = sub.status
    BY <1>0, <2>1, <2>4 DEF Subscription
  <2>6. /\ invoice' \in [Charge -> Invoice]
        /\ invoice'[c].rows = invoice[c].rows + 1 /\ invoice'[c].event = "none"
        /\ invoice[c].rows \in Nat
        /\ \A d \in Charge : d # c => invoice'[d] = invoice[d]
    BY <1>0, <2>2 DEF Invoice
  <2>7. /\ OpType' /\ OneCharger' /\ \A t \in Tab : op'[t] = op[t]
        /\ \A m \in Charger : ~At(m, "charge")'
    BY <1>2, <2>1
  <2>8. RowType'
    BY <1>0, <2>1, <2>5, <2>6 DEF RowType
  <2>9. ASSUME NEW d \in Charge, d # c PROVE BillOK(d)'
    <3>1. bill[d].key \in Int /\ now \in Int
      BY <1>0, Dates DEF Bill, Date, Never, Forever
    <3>2. bill[d].key <= now => Passed(d, sub.period)'
      BY <2>3, <2>5, <2>9, <3>1 DEF Passed
    <3> QED
      BY <1>0, <2>1, <2>3, <2>6, <2>7, <2>9, <3>2, BillSame
  <2>10. BillOK(c)'
    <3>1. BillOK(c) /\ op[k].period \in Int /\ op[k].period <= now
      BY <1>0, <2>1, IdleOps, Dates DEF At, ChargerOp, Date, Never, Forever
    <3>2. bill'[c].state = "paid" => bill[c].state = "paid" /\ bill[c].of = None
      BY <2>3
    <3>3. BillTrue(c)'
      <4>1. Tell("paid", c) \in sent => bill'[c].state = "paid"
        BY <2>3, <3>1 DEF BillOK, BillTrue
      <4>2. bill'[c].state = "paid" /\ gateway = "vindi" => Tell("paid", c) \in sent
        BY <3>1, <3>2 DEF BillOK, BillTrue
      <4>3. invoice'[c].rows > 0
        BY <2>6
      <4> QED
        BY <2>1, <2>3, <4>1, <4>2, <4>3 DEF BillTrue
    <3>4. KeyPast(c)'
      <4>1. Passed(c, sub.period)'
        BY <1>0, <2>3, <2>5, <3>1 DEF Passed
      <4> QED
        BY <2>1, <2>3, <2>7, <3>1, <4>1 DEF KeyPast
    <3>5. RoomToPay(c)'
      <4>1. applied[Tell("paid", c)] <= invoice[c].rows /\ applied[Tell("paid", c)] \in Nat
        BY <1>0, <3>1, Telling DEF BillOK, RoomToPay
      <4> QED
        BY <2>1, <2>6, <4>1 DEF RoomToPay
    <3>6. OneRow(c)'
      <4>1. CASE invoice[c].rows = 0
        BY <2>6, <4>1 DEF OneRow
      <4>2. CASE invoice[c].rows # 0
        <5>1. invoice[c].rows > 0 /\ bill[c].state # "unused"
          BY <2>6, <3>1, <4>2 DEF BillOK, BillTrue
        <5>2. bill[c].of = None /\ bill[c].key = op[k].period
          BY <2>3, <5>1
        <5>3. Passed(c, op[k].period)
          BY <2>1, <3>1, <5>1, <5>2 DEF BillOK, KeyPast
        <5>4. op[k].period = Never /\ "revokeAccess" \in courtesy
          BY <3>1, <5>2, <5>3 DEF Passed
        <5> QED
          BY <2>1, <2>3, <5>4 DEF OneRow
      <4> QED
        BY <4>1, <4>2
    <3>7. NotLost(c)'
      <4>1. SUFFICES ASSUME bill'[c].state = "paid"
                     PROVE  applied[Tell("paid", c)] > 0 \/ Tell("paid", c) \in sent
        BY <2>1 DEF NotLost
      <4>2. bill[c].state = "paid" /\ invoice[c].rows > 0
        BY <3>1, <3>2, <4>1 DEF BillOK, BillTrue
      <4> QED
        BY <3>1, <4>2 DEF BillOK, NotLost
    <3> QED
      BY <3>3, <3>4, <3>5, <3>6, <3>7 DEF BillOK
  <2>11. ASSUME NEW u \in Tab
         PROVE  /\ At(u, "persist")' => At(u, "persist") /\ op'[u] = op[u]
                /\ op'[u].at \in {"replace", "cancel"} => op'[u].sub.agreement \in Agreement
                /\ At(u, "persist") => invoice'[op[u].charge].rows = 0
    <3>1. ASSUME At(u, "persist") PROVE invoice'[op[u].charge].rows = 0
      <4>1. Holds(u)
        BY <1>0, <3>1
      <4>2. bill'[op[u].charge].of # None
        BY <2>3, <4>1 DEF Holds
      <4> QED
        BY <2>3, <2>6, <4>1, <4>2 DEF Holds
    <3> QED
      BY <1>0, <2>7, <3>1 DEF At
  <2>12. \A d \in Charge : BillOK(d)'
    BY <2>9, <2>10
  <2> QED
    BY <2>1, <2>3, <2>5, <2>7, <2>8, <2>11, <2>12, RowRest
<1>4. CASE ChargeFails(k)
  <2>1. /\ At(k, "charge") /\ op' = [op EXCEPT ![k] = Idle]
        /\ UNCHANGED <<gateway, now, sub, invoice, agreement, sent, applied, courtesy, ops>>
        /\ UNCHANGED bill \/ \E c \in Charge : Order(k, c)
    BY <1>4 DEF ChargeFails, Finish
  <2>2. /\ OpType' /\ OneCharger' /\ \A t \in Tab : op'[t] = op[t]
        /\ \A m \in Charger : ~At(m, "charge")'
    BY <1>2, <2>1
  <2>3. /\ bill' \in [Charge -> Bill]
        /\ \A d \in Charge : bill[d].state # "unused" => bill'[d] = bill[d]
        /\ \A d \in Charge :
             \/ bill'[d] = bill[d]
             \/ /\ bill[d].state = "unused" /\ bill'[d].state = "open"
                /\ bill'[d].key <= now /\ Tell("created", d) \notin sent
    <3>1. CASE UNCHANGED bill
      BY <1>0, <3>1
    <3>2. ASSUME NEW c \in Charge, Order(k, c)
          PROVE  /\ bill' \in [Charge -> Bill]
                 /\ \A d \in Charge : bill[d].state # "unused" => bill'[d] = bill[d]
                 /\ \A d \in Charge :
                      \/ bill'[d] = bill[d]
                      \/ /\ bill[d].state = "unused" /\ bill'[d].state = "open"
                         /\ bill'[d].key <= now /\ Tell("created", d) \notin sent
      BY <1>0, <2>1, <3>2, Ordering
    <3> QED
      BY <2>1, <3>1, <3>2
  <2>4. ASSUME NEW d \in Charge PROVE BillOK(d)'
    <3>1. CASE bill'[d] = bill[d]
      BY <1>0, <2>1, <2>2, <3>1, BillSame
    <3>2. CASE bill'[d] # bill[d]
      <4>1. /\ bill[d].state = "unused" /\ bill'[d].state = "open"
            /\ bill'[d].key <= now /\ Tell("created", d) \notin sent
        BY <2>3, <3>2
      <4>2. invoice[d].rows = 0 /\ Tell("paid", d) \notin sent
        BY <1>0, <4>1 DEF BillOK, BillTrue
      <4> QED
        BY <1>0, <2>1, <4>1, <4>2
           DEF BillOK, BillTrue, KeyPast, RoomToPay, OneRow, NotLost
    <3> QED
      BY <3>1, <3>2
  <2>5. RowType'
    BY <1>0, <2>1 DEF RowType
  <2>6. \A u \in Tab :
          /\ At(u, "persist")' => At(u, "persist") /\ op'[u] = op[u]
          /\ op'[u].at \in {"replace", "cancel"} => op'[u].sub.agreement \in Agreement
          /\ At(u, "persist") => invoice'[op[u].charge].rows = 0
    BY <1>0, <2>1, <2>2 DEF At, Holds
  <2> QED
    BY <2>1, <2>2, <2>3, <2>4, <2>5, <2>6, RowRest
<1> QED
  BY <1>1, <1>3, <1>4

--------------------------------------------------------------------------------
(* Admins and the access check.                                            *)

LEMMA OtherRows ==
  ASSUME BillInv, NEW x \in Admin \cup Visitor, NEW v,
         v.at \in AdminOp \cup {"idle", "expire"}, op' = [op EXCEPT ![x] = v],
         ops' \in 0 .. MaxOps,
         UNCHANGED <<gateway, now, invoice, agreement, bill, sent, applied>>,
         courtesy \subseteq courtesy', courtesy' \subseteq {"grantAccess", "revokeAccess"},
         sub' \in Subscription, sub'.agreement = sub.agreement,
         \/ sub'.period = sub.period
         \/ sub'.period > now
         \/ sub'.period = Never /\ "revokeAccess" \in courtesy',
         sub'.status = "active" => sub.status = "active" \/ "grantAccess" \in courtesy'
  PROVE  BillInv'
<1>0. /\ invoice \in [Charge -> Invoice] /\ now \in 0 .. MaxNow
      /\ applied \in [Event -> 0 .. 2] /\ bill \in [Charge -> Bill]
      /\ \A d \in Charge : BillOK(d)
      /\ \A u \in Tab : /\ op[u].at \in {"replace", "cancel"} =>
                             op[u].sub.agreement \in Agreement
                        /\ At(u, "persist") => Holds(u)
  BY DEF BillInv, BillType, OpType, RowType, GatewayType, Checkouts, Bills, BillOK
<1>1. OpType' /\ \A y \in Tab \cup Charger : op'[y] = op[y]
  BY OtherMoves DEF BillInv, BillType
<1>2. RowType'
  BY <1>0 DEF RowType
<1>3. OneCharger'
  BY <1>1 DEF BillInv, OneCharger, At
<1>4. ASSUME NEW d \in Charge PROVE BillOK(d)'
  <2>1. bill[d].key \in Int /\ now \in Int /\ sub'.period \in Int
    BY <1>0, Dates DEF Bill, Subscription, Date, Never, Forever
  <2>2. sub'.period = sub.period \/ (bill[d].key <= now => Passed(d, sub.period)')
    BY <2>1 DEF Passed
  <2> QED
    BY <1>0, <1>1, <2>2, BillSame DEF At
<1>5. \A u \in Tab :
        /\ At(u, "persist")' => At(u, "persist") /\ op'[u] = op[u]
        /\ op'[u].at \in {"replace", "cancel"} => op'[u].sub.agreement \in Agreement
        /\ At(u, "persist") => invoice'[op[u].charge].rows = 0
  BY <1>0, <1>1 DEF At, Holds
<1> QED
  BY <1>0, <1>1, <1>2, <1>3, <1>4, <1>5, RowRest

LEMMA OtherStep ==
  ASSUME BillInv,
         \/ \E x \in Admin : (\E do \in AdminOp : AdminRead(x, do)) \/ AdminWrite(x)
         \/ \E v \in Visitor : AccessRead(v) \/ AccessWrite(v)
  PROVE  BillInv'
<1>0. /\ sub \in Subscription /\ now \in 0 .. MaxNow /\ ops \in 0 .. MaxOps
      /\ courtesy \subseteq {"grantAccess", "revokeAccess"}
  BY DEF BillInv, BillType, OpType, RowType
<1>1. ASSUME NEW x \in Admin, NEW do \in AdminOp, AdminRead(x, do) PROVE BillInv'
  <2>1. /\ op' = [op EXCEPT ![x] = [at |-> do]] /\ ops < MaxOps /\ ops' = ops + 1
        /\ UNCHANGED <<gateway, now, sub, invoice, agreement, bill, sent, applied, courtesy>>
    BY <1>1 DEF AdminRead, Start, external
  <2>2. ops' \in 0 .. MaxOps
    BY <1>0, <2>1, Dates
  <2> QED
    BY <1>0, <2>1, <2>2, OtherRows
<1>2. ASSUME NEW x \in Admin, AdminWrite(x) PROVE BillInv'
  <2>1. /\ op' = [op EXCEPT ![x] = Idle] /\ op[x].at \in AdminOp
        /\ UNCHANGED <<gateway, now, invoice, agreement, bill, sent, applied, ops>>
        /\ sub' = Granted(op[x].at, sub)
        /\ courtesy' = courtesy \cup ({op[x].at} \cap {"grantAccess", "revokeAccess"})
    BY <1>2 DEF AdminWrite, Finish, external
  <2>2. NextMonth \in Date /\ Forever \in Date /\ Never \in Date /\ Forever > now
    BY <1>0, Dates DEF NextMonth, Forever
  <2>3. /\ sub' \in Subscription /\ sub'.agreement = sub.agreement
        /\ \/ sub'.period = sub.period
           \/ sub'.period > now
           \/ sub'.period = Never /\ "revokeAccess" \in courtesy'
        /\ sub'.status = "active" => sub.status = "active" \/ "grantAccess" \in courtesy'
    <3>1. CASE op[x].at = "grantTrial"
      <4>1. sub' = [sub EXCEPT !.status = "trialing", !.trial = NextMonth]
        BY <2>1, <3>1 DEF Granted
      <4> QED
        BY <1>0, <2>2, <4>1 DEF Subscription
    <3>2. CASE op[x].at = "grantAccess"
      <4>1. sub' = [sub EXCEPT !.status = "active", !.trial = Never, !.period = Forever]
        BY <2>1, <3>2 DEF Granted
      <4>2. "grantAccess" \in courtesy'
        BY <2>1, <3>2
      <4> QED
        BY <1>0, <2>2, <4>1, <4>2 DEF Subscription
    <3>3. CASE op[x].at = "revokeAccess"
      <4>1. sub' = [sub EXCEPT !.status = "pending_payment", !.trial = Never,
                               !.period = Never]
        BY <2>1, <3>3 DEF Granted
      <4>2. "revokeAccess" \in courtesy'
        BY <2>1, <3>3
      <4> QED
        BY <1>0, <2>2, <4>1, <4>2 DEF Subscription
    <3>4. CASE op[x].at = "endTrial"
      <4>1. sub' = [sub EXCEPT !.status = "pending_payment", !.trial = Never]
        BY <2>1, <3>4 DEF Granted
      <4> QED
        BY <1>0, <2>2, <4>1 DEF Subscription
    <3> QED
      BY <2>1, <3>1, <3>2, <3>3, <3>4 DEF AdminOp
  <2>4. courtesy \subseteq courtesy' /\ courtesy' \subseteq {"grantAccess", "revokeAccess"}
    BY <1>0, <2>1
  <2>5. ops' \in 0 .. MaxOps /\ Idle.at \in AdminOp \cup {"idle", "expire"}
    BY <1>0, <2>1, IdleOps
  <2> QED
    BY <2>1, <2>3, <2>4, <2>5, OtherRows
<1>3. ASSUME NEW v \in Visitor, AccessRead(v) PROVE BillInv'
  <2>1. /\ op' = [op EXCEPT ![v] = [at |-> "expire"]]
        /\ UNCHANGED <<gateway, now, sub, invoice, agreement, bill, sent, applied, courtesy, ops>>
    BY <1>3 DEF AccessRead, Start, external
  <2> QED
    BY <1>0, <2>1, OtherRows
<1>4. ASSUME NEW v \in Visitor, AccessWrite(v) PROVE BillInv'
  <2>1. /\ op' = [op EXCEPT ![v] = Idle]
        /\ UNCHANGED <<gateway, now, invoice, agreement, bill, sent, applied, courtesy, ops>>
        /\ sub' = [sub EXCEPT !.status = "pending_payment", !.trial = Never]
    BY <1>4 DEF AccessWrite, Finish, external
  <2>2. /\ sub' \in Subscription /\ sub'.agreement = sub.agreement
        /\ sub'.period = sub.period /\ sub'.status # "active"
    BY <1>0, <2>1, Dates DEF Subscription
  <2>3. ops' \in 0 .. MaxOps /\ Idle.at \in AdminOp \cup {"idle", "expire"}
    BY <1>0, <2>1, IdleOps
  <2> QED
    BY <1>0, <2>1, <2>2, <2>3, OtherRows
<1> QED
  BY <1>1, <1>2, <1>3, <1>4

--------------------------------------------------------------------------------
LEMMA BillStep ==
  ASSUME BillInv, [Next]_vars
  PROVE  BillInv'
<1>1. CASE UNCHANGED vars
  <2>1. UNCHANGED <<gateway, now, sub, invoice, agreement, bill, sent, applied, courtesy,
                    op, ops>>
    BY <1>1 DEF vars
  <2>2. GatewayType' /\ \A c \in Charge : BillMoves(c) /\ BillTrue(c)'
    BY <2>1 DEF BillInv, BillType, GatewayType, Bills, BillMoves, BillTrue
  <2>3. now' \in 0 .. MaxNow /\ now <= now' /\ sent \subseteq sent'
    BY <2>1 DEF BillInv, BillType
  <2> QED
    BY <2>1, <2>2, <2>3, GatewayMoves
<1>2. CASE Next
  <2>1. ASSUME NEW t \in Tab,
               \/ \E method \in {"card", "pix"} : CheckoutRead(t, method)
               \/ FailOpen(t) \/ CancelOld(t) \/ AskGateway(t) \/ GatewayRefuses(t)
               \/ Persist(t) \/ PersistFails(t) \/ LocalPix(t)
        PROVE  BillInv'
    BY <2>1, CheckoutGateway, CheckoutRows, AskStep, PersistStep
  <2>2. ASSUME NEW k \in Charger, ChargeRead(k) \/ ChargeCommit(k) \/ ChargeFails(k)
        PROVE  BillInv'
    BY <2>2, ChargeStep
  <2>3. CASE \/ Tick
             \/ \E c \in Charge : Pay(c) \/ Refuse(c)
             \/ \E a \in Agreement : CancelAtGateway(a) \/ \E c \in Charge : BillCycle(a, c)
    BY <2>3, GatewayStep
  <2>4. CASE (\E e \in Event : Deliver(e)) \/ (\E c \in Charge : PixUpdated(c))
    BY <2>4, WebhookStep
  <2>5. CASE \/ \E x \in Admin : (\E do \in AdminOp : AdminRead(x, do)) \/ AdminWrite(x)
             \/ \E v \in Visitor : AccessRead(v) \/ AccessWrite(v)
    BY <2>5, OtherStep
  <2> QED
    BY <1>2, <2>1, <2>2, <2>3, <2>4, <2>5 DEF Next
<1> QED
  BY <1>1, <1>2

LEMMA BillAlways ==
  Spec => []BillInv
<1>1. Init => BillInv
  BY BillInitial
<1>2. BillInv /\ [Next]_vars => BillInv'
  BY BillStep
<1> QED
  BY <1>1, <1>2, PTL DEF Spec

(* The rows, the events and what each request holds keep to their values,  *)
(* whatever checkouts, charges, webhooks and admins do between each        *)
(* other's reads and writes.                                               *)
THEOREM BillTypeCorrect == Spec => []TypeOK
<1>1. BillInv => TypeOK
  BY TypesAgree DEF BillInv
<1> QED
  BY <1>1, BillAlways, PTL

(* A charge has one invoice for ever: the lock of generateChargeForTenant  *)
(* and the key of the order see to it for Pix, and for an agreement that   *)
(* a webhook finds the row only once the checkout has written it.          *)
THEOREM OneInvoice == Spec => []OneInvoicePerCharge
<1>1. BillInv => OneInvoicePerCharge
  BY DEF BillInv, Bills, OneRow, OneInvoicePerCharge
<1> QED
  BY <1>1, BillAlways, PTL

(* However often the event of a payment is delivered, it is applied once   *)
(* to an invoice by processVerifiedWebhook.                                *)
THEOREM PaymentsApplyOnce == Spec => []PaidAppliedOnce
<1>1. BillInv => PaidAppliedOnce
  BY DEF BillInv, Bills, RoomToPay, PaidAppliedOnce
<1> QED
  BY <1>1, BillAlways, PTL

(* No interleaving of checkouts, webhooks, the access check and admins     *)
(* makes a subscription active before a payment or a courtesy.             *)
THEOREM ActiveIsEarned == Spec => []ActiveEarned
<1>1. BillInv => ActiveEarned
  BY DEF BillInv
<1> QED
  BY <1>1, BillAlways, PTL

(* A payment of an invoice is applied or its event is still to come, also  *)
(* when it came before the checkout had written the invoice.               *)
THEOREM PaymentsSurvive == Spec => []PaymentNotLost
<1>1. BillInv => PaymentNotLost
  BY DEF BillInv, Bills, NotLost, PaymentNotLost, Known
<1> QED
  BY <1>1, BillAlways, PTL
================================================================================

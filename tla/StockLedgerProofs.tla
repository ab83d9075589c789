--------------------------- MODULE StockLedgerProofs ---------------------------
(***************************************************************************)
(* Proofs about the stock core, for any products, stores, transactions,    *)
(* requests and hash function: its types and the chain of movements, then  *)
(* what the ledger adds up to - the sums over movements, lots and items    *)
(* that its properties are about - and who waits for whom.                 *)
(***************************************************************************)
EXTENDS StockLedger, Sums, TLAPS

Sources == BatchId \cup {NoBatch}
(* The lots a transaction has offered or picked still exist for it: no     *)
(* code path deletes a row of batches, and a transaction sees its own.     *)
SourcesExist ==
  \A t \in Tx, b \in BatchId :
    plan[t][b] > 0 \/ src[t] = b => LotSeen(t, b) # NoLot

Places == Inside \cup {"idle", "commit", "refused", "failed", "done"}

(* The balance a transaction has read is still the balance of the pair     *)
(* when it writes the movement that rests on it: nothing commits between   *)
(* nextBalanceAfter and stockMovement.create.                              *)
ReadStillFresh ==
  \A t \in Tx :
    /\ pc[t] = "debit" => cur[t] = BalanceOf(View(t, Source(t)))
    /\ pc[t] = "credit" => cur[t] = BalanceOf(View(t, Target(t)))

USE ConstantsAssumption

LEMMA LotSeenType ==
  ASSUME TypeOK, NEW t \in Tx, NEW b \in BatchId
  PROVE  LotSeen(t, b) \in Lot \cup {NoLot}
BY DEF TypeOK, LotSeen

LEMMA EndType ==
  ASSUME TypeOK, NEW t \in Tx,
         NEW o \in {"refused", "failed", "done"}, End(t, o),
         rows' \in [Pair -> SUBSET Row],
         lots' \in [BatchId -> Lot \cup {NoLot}]
  PROVE  TypeOK'
<1>1. Only(NoBatch, 0) \in [Sources -> Int]
  BY DEF Only, Sources
<1>2. mine' \in [Tx -> [Pair -> SUBSET Row]]
  BY DEF TypeOK, End
<1>3. dirty' \in [Tx -> [BatchId -> Lot \cup {NoLot}]]
  BY DEF TypeOK, End
<1>4. owner' \in [Key -> Tx \cup {NoTx}]
  BY DEF TypeOK, End
<1>5. todo' \in [Tx -> Seq(Item)]
  BY DEF TypeOK, End
<1>6. plan' \in [Tx -> [Sources -> Int]]
  BY <1>1 DEF TypeOK, End, Sources
<1>7. pc' \in [Tx -> Places]
  BY DEF TypeOK, End, Places
<1>8. want' \in [Tx -> SUBSET Pair] /\ need' \in [Tx -> Nat]
        /\ src' \in [Tx -> Sources] /\ amt' \in [Tx -> Nat] /\ cur' \in [Tx -> Int]
        /\ clock' \in [Pair -> Nat] /\ req' \in [Tx -> Requests]
  BY DEF TypeOK, End, Sources
<1>9. ASSUME NEW u \in Tx, pc'[u] \in Inside
      PROVE  todo'[u] # <<>>
  BY <1>9 DEF TypeOK, End, Inside
<1> QED
  BY <1>2, <1>3, <1>4, <1>5, <1>6, <1>7, <1>8, <1>9 DEF TypeOK, Sources, Places

LEMMA RequestFields ==
  ASSUME NEW r \in Requests
  PROVE  /\ r.kind \in Kind /\ r.from \in Store /\ r.to \in Store
         /\ r.items \in Seq(Item)
BY DEF Request

LEMMA ItemFields ==
  ASSUME NEW i \in Item
  PROVE  /\ i.product \in Product /\ i.qty \in Nat /\ i.qty > 0
         /\ i.manual \in BOOLEAN /\ i.label \in Label \cup {NoLabel}
BY DEF Item

(* While its callback runs, a transaction has a current item.              *)
LEMMA CurrentType ==
  ASSUME TypeOK, NEW t \in Tx, pc[t] \in Inside
  PROVE  /\ Current(t) \in Item
         /\ Tail(todo[t]) \in Seq(Item)
         /\ Source(t) \in Pair
         /\ Target(t) \in Pair
<1>1. todo[t] \in Seq(Item) /\ todo[t] # <<>>
  BY DEF TypeOK
<1>2. Current(t) \in Item /\ Tail(todo[t]) \in Seq(Item)
  BY <1>1 DEF Current
<1>3. Current(t).product \in Product
  BY <1>2, ItemFields
<1>4. req[t].from \in Store /\ req[t].to \in Store
  BY RequestFields DEF TypeOK
<1> QED
  BY <1>2, <1>3, <1>4 DEF Source, Target, Pair

LEMMA PairsToLockType ==
  ASSUME NEW r \in Requests, NEW i \in Item
  PROVE  PairsToLock(r, i) \in SUBSET Pair
BY RequestFields, ItemFields DEF PairsToLock, Pair

LEMMA ViewType ==
  ASSUME TypeOK, NEW t \in Tx, NEW p \in Pair
  PROVE  View(t, p) \in SUBSET Row
BY DEF TypeOK, View

LEMMA CurrentStockType ==
  ASSUME NEW S \in SUBSET Row
  PROVE  CurrentStock(S) \subseteq Int
BY DEF CurrentStock, Latest, Row

LEMMA LineDoneType ==
  ASSUME TypeOK, NEW t \in Tx, pc[t] \in Inside, LineDone(t)
  PROVE  /\ pc' \in [Tx -> Places]
         /\ todo' \in [Tx -> Seq(Item)]
         /\ want' \in [Tx -> SUBSET Pair]
         /\ \A u \in Tx : pc'[u] \in Inside => todo'[u] # <<>>
<1> DEFINE rest == Tail(todo[t])
<1>1. rest \in Seq(Item)
  BY CurrentType
<1>2. CASE need[t] > 0 /\ pc' = [pc EXCEPT ![t] = "pick"] /\ UNCHANGED <<todo, want>>
  BY <1>2 DEF TypeOK, Places, Inside
<1>3. CASE /\ todo' = [todo EXCEPT ![t] = rest]
           /\ want' = [want EXCEPT ![t] = IF rest = <<>> THEN {}
                                          ELSE PairsToLock(req[t], Head(rest))]
           /\ pc' = [pc EXCEPT ![t] = IF rest = <<>> THEN "commit" ELSE "lock"]
  <2> HIDE DEF rest
  <2>1. rest # <<>> => PairsToLock(req[t], Head(rest)) \in SUBSET Pair
    <3> SUFFICES ASSUME rest # <<>> PROVE PairsToLock(req[t], Head(rest)) \in SUBSET Pair
      OBVIOUS
    <3>1. Head(rest) \in Item
      BY <1>1
    <3> QED
      BY <3>1, PairsToLockType DEF TypeOK
  <2> QED
    BY <1>1, <1>3, <2>1 DEF TypeOK, Places, Inside
<1> QED
  BY <1>2, <1>3 DEF LineDone

LEMMA InsertType ==
  ASSUME TypeOK, NEW t \in Tx, NEW p \in Pair, NEW q \in Int, Insert(t, p, q)
  PROVE  mine' \in [Tx -> [Pair -> SUBSET Row]] /\ clock' \in [Pair -> Nat]
<1>1. Movement(clock[p], q, cur[t] + q) \in Row
  BY DEF TypeOK, Movement, Row
<1> QED
  BY <1>1 DEF TypeOK, Insert

--------------------------------------------------------------------------------
(* Each action keeps the types.                                            *)

LEMMA InitType == Init => TypeOK
<1> SUFFICES ASSUME Init PROVE TypeOK
  OBVIOUS
<1>1. (CHOOSE r \in Requests : TRUE) \in Requests
  OBVIOUS
<1>2. <<>> \in Seq(Item)
  OBVIOUS
<1> QED
  BY <1>1, <1>2 DEF Init, TypeOK, Inside

LEMMA BeginType ==
  ASSUME TypeOK, NEW t \in Tx, Begin(t)
  PROVE  TypeOK'
<1>1. PICK r \in Requests :
        /\ Valid(r)
        /\ req' = [req EXCEPT ![t] = r]
        /\ todo' = [todo EXCEPT ![t] = r.items]
        /\ want' = [want EXCEPT ![t] = PairsToLock(r, Head(r.items))]
  BY DEF Begin
<1>2. r.items \in Seq(Item) /\ r.items # <<>>
  BY <1>1, RequestFields DEF Valid
<1>3. Head(r.items) \in Item
  BY <1>2
<1>4. PairsToLock(r, Head(r.items)) \in SUBSET Pair
  BY <1>3, PairsToLockType
<1>5. req' \in [Tx -> Requests] /\ todo' \in [Tx -> Seq(Item)]
        /\ want' \in [Tx -> SUBSET Pair]
  BY <1>1, <1>2, <1>4 DEF TypeOK
<1>6. pc' \in [Tx -> Places] /\ pc' = [pc EXCEPT ![t] = "lock"]
  BY DEF TypeOK, Begin, Places, Inside
<1>7. \A u \in Tx : pc'[u] \in Inside => todo'[u] # <<>>
  BY <1>1, <1>2, <1>6 DEF TypeOK
<1> QED
  BY <1>5, <1>6, <1>7 DEF TypeOK, Begin, Places, shared, line

LEMMA LockType ==
  ASSUME TypeOK, NEW t \in Tx, Lock(t)
  PROVE  TypeOK'
<1>1. PICK p \in want[t] :
        /\ owner' = [owner EXCEPT ![LockKey[p]] = t]
        /\ want' = [want EXCEPT ![t] = @ \ {p}]
  BY DEF Lock
<1>2. owner' \in [Key -> Tx \cup {NoTx}] /\ want' \in [Tx -> SUBSET Pair]
  BY <1>1 DEF TypeOK
<1>3. pc' \in [Tx -> Places] /\ pc[t] \in Inside /\ todo' = todo
  BY DEF TypeOK, Lock, Places, Inside
<1>4. \A u \in Tx : pc'[u] \in Inside => todo'[u] # <<>>
  BY <1>3 DEF TypeOK, Lock
<1> QED
  BY <1>2, <1>3, <1>4 DEF TypeOK, Lock, Places, line

LEMMA OffersType ==
  ASSUME TypeOK, NEW t \in Tx, pc[t] \in Inside, NEW o \in Offers(t)
  PROVE  o \in [Sources -> Int]
<1>1. \A b \in BatchId : LotSeen(t, b) # NoLot => LotSeen(t, b).qty \in Int
  BY LotSeenType DEF Lot
<1>2. \A s \in Sources, n \in Int : Only(s, n) \in [Sources -> Int]
  BY DEF Only, Sources
<1>3. CASE Current(t).manual
  <2>1. Nameable(t) \subseteq BatchId /\ \A b \in Nameable(t) : LotSeen(t, b) # NoLot
    BY DEF Nameable, LotsAt
  <2>2. o = Only(NoBatch, 0) \/ \E b \in Nameable(t) : o = Only(b, LotSeen(t, b).qty)
    BY <1>3 DEF Offers
  <2>3. CASE o = Only(NoBatch, 0)
    <3>1. NoBatch \in Sources /\ 0 \in Int
      BY DEF Sources
    <3> QED
      BY <1>2, <2>3, <3>1
  <2>4. ASSUME NEW b \in Nameable(t), o = Only(b, LotSeen(t, b).qty)
        PROVE  o \in [Sources -> Int]
    <3>1. b \in Sources /\ LotSeen(t, b).qty \in Int
      BY <1>1, <2>1 DEF Sources
    <3> QED
      BY <1>2, <2>4, <3>1
  <2> QED
    BY <2>2, <2>3, <2>4
<1>4. CASE UsesFefo(t)
  <2>1. o = [x \in Sources |-> IF x \in LotsAt(t, Source(t)) /\ LotSeen(t, x).qty > 0
                               THEN LotSeen(t, x).qty ELSE 0]
    BY <1>4 DEF Offers, UsesFefo, Sources
  <2>2. \A x \in LotsAt(t, Source(t)) : LotSeen(t, x).qty \in Int
    BY <1>1 DEF LotsAt
  <2> QED
    BY <2>1, <2>2
<1>5. CASE ~Current(t).manual /\ ~UsesFefo(t)
  <2>1. CurrentStock(View(t, Source(t))) \subseteq Int
    BY CurrentType, ViewType, CurrentStockType
  <2>2. PICK c \in CurrentStock(View(t, Source(t))) : o = Only(NoBatch, c)
    BY <1>5 DEF Offers
  <2>3. c \in Int /\ NoBatch \in Sources
    BY <2>1 DEF Sources
  <2> QED
    BY <1>2, <2>2, <2>3
<1> QED
  BY <1>3, <1>4, <1>5

LEMMA ResolveType ==
  ASSUME TypeOK, NEW t \in Tx, Resolve(t)
  PROVE  TypeOK'
<1>1. pc[t] \in Inside
  BY DEF Resolve, Inside
<1>2. plan' \in [Tx -> [Sources -> Int]]
  <2>1. PICK o \in Offers(t) : plan' = [plan EXCEPT ![t] = o]
    BY DEF Resolve
  <2>2. o \in [Sources -> Int] /\ plan \in [Tx -> [Sources -> Int]]
    BY <1>1, OffersType DEF TypeOK, Sources
  <2> QED
    BY <2>1, <2>2
<1>3. need' \in [Tx -> Nat]
  BY <1>1, CurrentType, ItemFields DEF TypeOK, Resolve
<1>4. pc' \in [Tx -> Places] /\ pc' = [pc EXCEPT ![t] = "pick"] /\ todo' = todo
  BY DEF TypeOK, Resolve, Places, Inside
<1>5. \A u \in Tx : pc'[u] \in Inside => todo'[u] # <<>>
  BY <1>1, <1>4 DEF TypeOK
<1> QED
  BY <1>2, <1>3, <1>4, <1>5 DEF TypeOK, Resolve, Places, Sources, shared

LEMMA TakeType ==
  ASSUME TypeOK, NEW t \in Tx, NEW s \in Sources, ExpiresFirst(t, s)
  PROVE  /\ Take(t, s) \in Nat
         /\ need[t] - Take(t, s) \in Nat
<1>1. plan[t][s] \in Int /\ plan[t][s] > 0 /\ need[t] \in Nat
  BY DEF TypeOK, ExpiresFirst, Sources
<1> QED
  BY <1>1 DEF Take

LEMMA PickType ==
  ASSUME TypeOK, NEW t \in Tx, Pick(t)
  PROVE  TypeOK'
<1>1. PICK s \in Sources :
        /\ ExpiresFirst(t, s)
        /\ src' = [src EXCEPT ![t] = s]
        /\ amt' = [amt EXCEPT ![t] = Take(t, s)]
        /\ need' = [need EXCEPT ![t] = @ - Take(t, s)]
        /\ plan' = [plan EXCEPT ![t][s] = 0]
  BY DEF Pick, Sources
<1>2. Take(t, s) \in Nat /\ need[t] - Take(t, s) \in Nat
  BY <1>1, TakeType
<1>3. src' \in [Tx -> Sources] /\ amt' \in [Tx -> Nat] /\ need' \in [Tx -> Nat]
  BY <1>1, <1>2 DEF TypeOK, Sources
<1>4. plan' \in [Tx -> [Sources -> Int]]
  <2>1. plan \in [Tx -> [Sources -> Int]]
    BY DEF TypeOK, Sources
  <2>2. [plan[t] EXCEPT ![s] = 0] \in [Sources -> Int]
    BY <2>1
  <2> QED
    BY <1>1, <2>1, <2>2
<1>5. pc[t] \in Inside /\ pc' = [pc EXCEPT ![t] = "debit"] /\ todo' = todo
  BY DEF Pick, Inside
<1>6. cur' \in [Tx -> Int]
  <2>1. CurrentStock(View(t, Source(t))) \subseteq Int
    BY <1>5, CurrentType, ViewType, CurrentStockType
  <2> QED
    BY <2>1 DEF TypeOK, Pick
<1>7. pc' \in [Tx -> Places] /\ \A u \in Tx : pc'[u] \in Inside => todo'[u] # <<>>
  BY <1>5 DEF TypeOK, Places, Inside
<1> QED
  BY <1>3, <1>4, <1>5, <1>6, <1>7 DEF TypeOK, Pick, Places, Sources, shared

LEMMA DebitType ==
  ASSUME TypeOK, SourcesExist, NEW t \in Tx, Debit(t)
  PROVE  TypeOK'
<1>1. pc[t] \in Inside /\ Source(t) \in Pair
  BY CurrentType DEF Debit, Inside
<1>2. -amt[t] \in Int /\ amt[t] \in Nat
  BY DEF TypeOK
<1>3. mine' \in [Tx -> [Pair -> SUBSET Row]] /\ clock' \in [Pair -> Nat]
  BY <1>1, <1>2, InsertType DEF Debit
<1>4. dirty' \in [Tx -> [BatchId -> Lot \cup {NoLot}]]
  <2>1. CASE src[t] = NoBatch
    BY <2>1 DEF TypeOK, Debit
  <2>2. CASE src[t] # NoBatch
    <3>1. src[t] \in BatchId
      BY <2>2 DEF TypeOK
    <3>2. LotSeen(t, src[t]) \in Lot
      BY <3>1, LotSeenType DEF SourcesExist
    <3>3. LotAfterDebit(t) \in Lot
      BY <1>2, <3>2 DEF LotAfterDebit, Lot
    <3> DEFINE f == [dirty[t] EXCEPT ![src[t]] = LotAfterDebit(t)]
    <3>4. f \in [BatchId -> Lot \cup {NoLot}]
      BY <3>1, <3>3 DEF TypeOK
    <3>5. dirty' = [dirty EXCEPT ![t] = f]
      BY <2>2 DEF Debit
    <3> HIDE DEF f
    <3> QED
      BY <3>4, <3>5 DEF TypeOK
  <2> QED
    BY <2>1, <2>2
<1>5. /\ pc' \in [Tx -> Places] /\ todo' \in [Tx -> Seq(Item)]
      /\ want' \in [Tx -> SUBSET Pair]
      /\ \A u \in Tx : pc'[u] \in Inside => todo'[u] # <<>>
  <2>1. CASE Credits(t)
    <3>1. pc' = [pc EXCEPT ![t] = "receive"] /\ todo' = todo /\ want' = want
      BY <2>1 DEF Debit
    <3> QED
      BY <1>1, <3>1 DEF TypeOK, Places, Inside
  <2>2. CASE ~Credits(t)
    BY <1>1, <2>2, LineDoneType DEF Debit
  <2> QED
    BY <2>1, <2>2
<1> QED
  BY <1>3, <1>4, <1>5 DEF TypeOK, Debit, Places, line

LEMMA ReceiveType ==
  ASSUME TypeOK, NEW t \in Tx, Receive(t)
  PROVE  TypeOK'
<1>1. pc[t] \in Inside /\ pc' = [pc EXCEPT ![t] = "credit"] /\ todo' = todo
  BY DEF Receive, Inside
<1>2. Target(t) \in Pair /\ Current(t).qty \in Nat
  BY <1>1, CurrentType, ItemFields
<1>3. cur' \in [Tx -> Int]
  <2>1. CurrentStock(View(t, Target(t))) \subseteq Int
    BY <1>2, ViewType, CurrentStockType
  <2> QED
    BY <2>1 DEF TypeOK, Receive
<1>4. amt' \in [Tx -> Nat]
  BY <1>2 DEF TypeOK, Receive
<1>5. pc' \in [Tx -> Places] /\ \A u \in Tx : pc'[u] \in Inside => todo'[u] # <<>>
  BY <1>1 DEF TypeOK, Places, Inside
<1> QED
  BY <1>3, <1>4, <1>5 DEF TypeOK, Receive, Places, shared

(* A label comes either from the operator or from a lot of that label.     *)
LEMMA LabelInType ==
  ASSUME TypeOK, NEW t \in Tx, pc[t] \in Inside,
         SourcesExist, LabelIn(t) # NoLabel
  PROVE  /\ LabelIn(t).number \in {l.number : l \in Label}
         /\ LabelIn(t).expiry \in {l.expiry : l \in Label}
<1>1. CASE ~Debits(t)
  BY <1>1, CurrentType, ItemFields DEF LabelIn
<1>2. CASE Debits(t)
  <2>1. src[t] \in BatchId
    BY <1>2 DEF LabelIn, TypeOK
  <2>2. LotSeen(t, src[t]) \in Lot
    BY <2>1, LotSeenType DEF SourcesExist
  <2> QED
    BY <1>2, <2>1, <2>2 DEF LabelIn, Lot
<1> QED
  BY <1>1, <1>2

LEMMA CreditLotType ==
  ASSUME TypeOK, SourcesExist, NEW t \in Tx, pc[t] \in Inside, CreditLot(t)
  PROVE  \/ dirty' = dirty
         \/ \E b \in BatchId, l \in Lot : dirty' = [dirty EXCEPT ![t][b] = l]
<1>1. Target(t) \in Pair /\ amt[t] \in Nat
  BY CurrentType DEF TypeOK
<1>2. ASSUME NEW b \in SameNumber(t)
      PROVE  b \in BatchId /\ [LotSeen(t, b) EXCEPT !.qty = @ + amt[t]] \in Lot
  <2>1. b \in BatchId /\ LotSeen(t, b) # NoLot
    BY DEF SameNumber, LotsAt
  <2>2. LotSeen(t, b) \in Lot
    BY <2>1, LotSeenType
  <2> QED
    BY <1>1, <2>1, <2>2 DEF Lot
<1>3. ASSUME LabelIn(t) # NoLabel
      PROVE  [pair |-> Target(t), number |-> LabelIn(t).number,
              expiry |-> LabelIn(t).expiry, qty |-> amt[t]] \in Lot
  BY <1>1, <1>3, LabelInType DEF Lot
<1> QED
  BY <1>2, <1>3 DEF CreditLot

LEMMA CreditType ==
  ASSUME TypeOK, SourcesExist, NEW t \in Tx, Credit(t)
  PROVE  TypeOK'
<1>1. pc[t] \in Inside /\ Target(t) \in Pair /\ amt[t] \in Nat
  BY CurrentType DEF TypeOK, Credit, Inside
<1>2. mine' \in [Tx -> [Pair -> SUBSET Row]] /\ clock' \in [Pair -> Nat]
  BY <1>1, InsertType DEF Credit
<1>3. dirty' \in [Tx -> [BatchId -> Lot \cup {NoLot}]]
  <2>1. CASE dirty' = dirty
    BY <2>1 DEF TypeOK
  <2>2. ASSUME NEW b \in BatchId, NEW l \in Lot, dirty' = [dirty EXCEPT ![t][b] = l]
        PROVE  dirty' \in [Tx -> [BatchId -> Lot \cup {NoLot}]]
    <3> DEFINE f == [dirty[t] EXCEPT ![b] = l]
    <3>1. f \in [BatchId -> Lot \cup {NoLot}]
      BY DEF TypeOK
    <3>2. dirty' = [dirty EXCEPT ![t] = f]
      BY <2>2
    <3> HIDE DEF f
    <3> QED
      BY <3>1, <3>2 DEF TypeOK
  <2> QED
    BY <1>1, <2>1, <2>2, CreditLotType DEF Credit
<1>4. /\ pc' \in [Tx -> Places] /\ todo' \in [Tx -> Seq(Item)]
      /\ want' \in [Tx -> SUBSET Pair]
      /\ \A u \in Tx : pc'[u] \in Inside => todo'[u] # <<>>
  BY <1>1, LineDoneType DEF Credit
<1> QED
  BY <1>2, <1>3, <1>4 DEF TypeOK, Credit, Places, line

LEMMA CommitType ==
  ASSUME TypeOK, NEW t \in Tx, Commit(t)
  PROVE  TypeOK'
<1>1. rows' \in [Pair -> SUBSET Row]
  BY ViewType DEF Commit
<1>2. lots' \in [BatchId -> Lot \cup {NoLot}]
  BY LotSeenType DEF Commit
<1> QED
  BY <1>1, <1>2, EndType DEF Commit

LEMMA UndoType ==
  ASSUME TypeOK, NEW t \in Tx, Refuse(t) \/ Abort(t)
  PROVE  TypeOK'
<1>1. rows' \in [Pair -> SUBSET Row] /\ lots' \in [BatchId -> Lot \cup {NoLot}]
  BY DEF TypeOK, Refuse, Abort
<1> QED
  BY <1>1, EndType DEF Refuse, Abort

(* A step of t leaves the lots that any other transaction sees, or makes   *)
(* them of lots that did not exist.                                        *)
LEMMA SourcesStay ==
  ASSUME TypeOK, SourcesExist, NEW t \in Tx,
         lots' = lots \/ lots' = [b \in BatchId |-> LotSeen(t, b)],
         \A u \in Tx \ {t} :
           dirty'[u] = dirty[u] /\ plan'[u] = plan[u] /\ src'[u] = src[u],
         \A b \in BatchId : plan'[t][b] > 0 \/ src'[t] = b => LotSeen(t, b)' # NoLot
  PROVE  SourcesExist'
<1>1. ASSUME NEW u \in Tx \ {t}, NEW b \in BatchId, LotSeen(u, b) # NoLot
      PROVE  LotSeen(u, b)' # NoLot
  BY <1>1 DEF LotSeen
<1> QED
  BY <1>1 DEF SourcesExist

LEMMA EndKeepsSources ==
  ASSUME TypeOK, SourcesExist, NEW t \in Tx, NEW o \in {"refused", "failed", "done"},
         End(t, o),
         lots' = lots \/ lots' = [b \in BatchId |-> LotSeen(t, b)]
  PROVE  SourcesExist'
<1>1. \A u \in Tx \ {t} :
        dirty'[u] = dirty[u] /\ plan'[u] = plan[u] /\ src'[u] = src[u]
  BY DEF End, TypeOK
<1>2. \A b \in BatchId : ~(plan'[t][b] > 0) /\ src'[t] # b
  BY DEF End, TypeOK, Only
<1> QED
  BY <1>1, <1>2, SourcesStay

LEMMA StepKeepsSources ==
  ASSUME TypeOK, SourcesExist, NEW t \in Tx, Begin(t) \/ Proceed(t) \/ Abort(t)
  PROVE  SourcesExist'
<1>1. CASE Begin(t) \/ Lock(t) \/ Receive(t)
  BY <1>1 DEF Begin, Lock, Receive, shared, line, SourcesExist, LotSeen
<1>2. CASE Resolve(t)
  <2>1. PICK o \in Offers(t) : plan' = [plan EXCEPT ![t] = o]
    BY <1>2 DEF Resolve
  <2>2. \A b \in BatchId : o[b] > 0 => LotSeen(t, b) # NoLot
    <3>1. NoBatch \notin BatchId
      OBVIOUS
    <3>2. CASE Current(t).manual
      <4>1. \A b \in Nameable(t) : b \in BatchId /\ LotSeen(t, b) # NoLot
        BY DEF Nameable, LotsAt
      <4>2. \A s \in Sources, n \in Int, b \in BatchId : Only(s, n)[b] > 0 => b = s
        BY DEF Only, Sources
      <4>3. \A b \in Nameable(t) : b \in Sources /\ LotSeen(t, b).qty \in Int
        BY <4>1, LotSeenType DEF Sources, Lot
      <4>4. NoBatch \in Sources /\ 0 \in Int
        BY DEF Sources
      <4>5. o = Only(NoBatch, 0) \/ \E b \in Nameable(t) : o = Only(b, LotSeen(t, b).qty)
        BY <3>2 DEF Offers
      <4> QED
        BY <3>1, <4>1, <4>2, <4>3, <4>4, <4>5
    <3>3. CASE UsesFefo(t)
      BY <3>3 DEF Offers, UsesFefo, LotsAt
    <3>4. CASE ~Current(t).manual /\ ~UsesFefo(t)
      BY <3>1, <3>4 DEF Offers, Only
    <3> QED
      BY <3>2, <3>3, <3>4
  <2>3. src' = src /\ dirty' = dirty /\ lots' = lots
    BY <1>2 DEF Resolve, shared
  <2> QED
    BY <2>1, <2>2, <2>3 DEF TypeOK, SourcesExist, LotSeen
<1>3. CASE Pick(t)
  <2>1. PICK s \in Sources :
          plan[t][s] > 0 /\ src' = [src EXCEPT ![t] = s]
          /\ plan' = [plan EXCEPT ![t][s] = 0]
    BY <1>3 DEF Pick, ExpiresFirst, Sources
  <2>2. lots' = lots /\ dirty' = dirty
    BY <1>3 DEF Pick, shared
  <2>3. \A b \in BatchId : plan'[t][b] > 0 => plan[t][b] > 0
    BY <2>1 DEF TypeOK, Sources
  <2>4. src'[t] = s
    BY <2>1 DEF TypeOK
  <2>5. \A u \in Tx \ {t} : plan'[u] = plan[u] /\ src'[u] = src[u]
    BY <2>1 DEF TypeOK
  <2>6. \A u \in Tx, b \in BatchId : LotSeen(u, b)' = LotSeen(u, b)
    BY <2>2 DEF LotSeen
  <2>7. \A b \in BatchId : plan'[t][b] > 0 \/ src'[t] = b => LotSeen(t, b) # NoLot
    BY <2>1, <2>3, <2>4 DEF SourcesExist
  <2> QED
    BY <2>5, <2>6, <2>7 DEF SourcesExist
<1>4. CASE Debit(t)
  <2>1. plan' = plan /\ src' = src /\ lots' = lots
    BY <1>4 DEF Debit, line
  <2>2. CASE src[t] = NoBatch
    BY <1>4, <2>1, <2>2 DEF Debit, SourcesExist, LotSeen
  <2>3. CASE src[t] # NoBatch
    <3>1. src[t] \in BatchId /\ amt[t] \in Nat
      BY <2>3 DEF TypeOK
    <3>2. LotSeen(t, src[t]) \in Lot
      BY <3>1, LotSeenType DEF SourcesExist
    <3>3. LotAfterDebit(t) # NoLot
      BY <3>1, <3>2 DEF LotAfterDebit, Lot
    <3>4. dirty' = [dirty EXCEPT ![t][src[t]] = LotAfterDebit(t)]
      BY <1>4, <2>3 DEF Debit
    <3>5. \A u \in Tx, b \in BatchId : LotSeen(u, b) # NoLot => LotSeen(u, b)' # NoLot
      BY <2>1, <3>1, <3>3, <3>4 DEF LotSeen, TypeOK
    <3> QED
      BY <2>1, <3>5 DEF SourcesExist
  <2> QED
    BY <2>2, <2>3
<1>5. CASE Credit(t)
  <2>1. plan' = plan /\ src' = src /\ lots' = lots
    BY <1>5 DEF Credit, line
  <2>2. \A u \in Tx, b \in BatchId : LotSeen(u, b) # NoLot => LotSeen(u, b)' # NoLot
    <3>1. CASE dirty' = dirty
      BY <2>1, <3>1 DEF LotSeen
    <3>2. ASSUME NEW c \in BatchId, NEW l \in Lot, dirty' = [dirty EXCEPT ![t][c] = l]
          PROVE  \A u \in Tx, b \in BatchId :
                   LotSeen(u, b) # NoLot => LotSeen(u, b)' # NoLot
      BY <2>1, <3>2 DEF LotSeen, TypeOK
    <3> QED
      BY <1>5, <3>1, <3>2, CreditLotType DEF Credit, Inside
  <2> QED
    BY <2>1, <2>2 DEF SourcesExist
<1>6. CASE Refuse(t) \/ Commit(t) \/ Abort(t)
  BY <1>6, EndKeepsSources DEF Refuse, Commit, Abort
<1> QED
  BY <1>1, <1>2, <1>3, <1>4, <1>5, <1>6 DEF Proceed

LEMMA StepType ==
  ASSUME TypeOK, SourcesExist, NEW t \in Tx, Begin(t) \/ Proceed(t) \/ Abort(t)
  PROVE  TypeOK'
BY BeginType, LockType, ResolveType, PickType, DebitType, ReceiveType, CreditType,
   CommitType, UndoType DEF Proceed

LEMMA StutterType ==
  ASSUME TypeOK, SourcesExist, UNCHANGED vars
  PROVE  TypeOK' /\ SourcesExist'
BY DEF TypeOK, SourcesExist, LotSeen, vars, Inside

LEMMA TypesAndSources == Spec => [](TypeOK /\ SourcesExist)
<1>1. Init => TypeOK /\ SourcesExist
  <2>1. Init => SourcesExist
    BY DEF Init, SourcesExist, LotSeen
  <2> QED
    BY <2>1, InitType
<1>2. TypeOK /\ SourcesExist /\ [Next]_vars => (TypeOK /\ SourcesExist)'
  BY StepType, StepKeepsSources, StutterType DEF Next
<1> QED
  BY <1>1, <1>2, PTL DEF Spec

(* Every variable keeps to the values of its column and every running      *)
(* callback has an item in hand, however many transactions, products,      *)
(* stores and lots there are.                                              *)
THEOREM TypeCorrect == Spec => []TypeOK
<1>1. TypeOK /\ SourcesExist => TypeOK
  OBVIOUS
<1> QED
  BY <1>1, TypesAndSources, PTL

--------------------------------------------------------------------------------
(* The ledger chains, row by row.  Alone this is not inductive: that the   *)
(* balance read is still the latest when the movement is written follows   *)
(* from the locks, and that the latest row is the last one from created_at *)
(* being distinct, which is what Resolution = 1 says.                      *)

(* A transaction writes only under the lock of the pair, and holds the     *)
(* locks of its current item from the moment it has taken them all.        *)
Working == {"resolve", "pick", "debit", "receive", "credit"}

LocksCover(t) ==
  /\ \A p \in Pair : mine[t][p] # {} => Holds(t, p)
  /\ pc[t] = "lock" => \A p \in {Source(t), Target(t)} : p \in want[t] \/ Holds(t, p)
  /\ pc[t] \in Working => Holds(t, Source(t)) /\ Holds(t, Target(t))

WritesUnderLock == \A t \in Tx : LocksCover(t)

(* The movements of a pair are numbered below its clock, each with a       *)
(* number of its own.                                                      *)
Numbered(S, n) ==
  /\ \A r \in S : r.at < n
  /\ \A r, x \in S : r.at = x.at => r = x

RowsNumbered == \A t \in Tx, p \in Pair : Numbered(View(t, p), clock[p])

RowsChain == \A p \in Pair : Chained(rows[p])

(* What holds whatever created_at tells apart.                             *)
BaseInv ==
  /\ TypeOK
  /\ SourcesExist
  /\ WritesUnderLock
  /\ RowsNumbered

LedgerInv ==
  /\ BaseInv
  /\ RowsChain
  /\ ReadStillFresh
  /\ LedgerChains

(* The balance read off the latest row is that of the last movement.       *)
LEMMA LatestIsLast ==
  ASSUME Resolution = 1, NEW S \in SUBSET Row, NEW n, Numbered(S, n),
         NEW c \in CurrentStock(S)
  PROVE  c = BalanceOf(S)
<1>1. CASE S = {}
  BY <1>1 DEF CurrentStock, BalanceOf
<1>2. CASE S # {}
  <2>1. \A r \in S : CreatedAt(r) = r.at /\ r.at \in Nat
    BY DEF CreatedAt, Row
  <2>2. PICK r \in S : c = r.bal /\ \A x \in S : x.at <= r.at
    BY <1>2, <2>1 DEF CurrentStock, Latest
  <2>3. Last(S) \in S /\ \A x \in S : x.at <= Last(S).at
    BY <2>2 DEF Last
  <2>4. Last(S) = r
    BY <2>1, <2>2, <2>3 DEF Numbered
  <2> QED
    BY <1>2, <2>2, <2>4 DEF BalanceOf
<1> QED
  BY <1>1, <1>2

(* A movement written after all others, on the balance of the last one,    *)
(* continues the chain.                                                    *)
LEMMA ChainGrows ==
  ASSUME NEW S \in SUBSET Row, NEW n \in Nat, NEW q \in Int, NEW c \in Int,
         Numbered(S, n), Chained(S), c = BalanceOf(S)
  PROVE  /\ Chained(S \cup {Movement(n, q, c + q)})
         /\ Numbered(S \cup {Movement(n, q, c + q)}, n + 1)
<1> DEFINE m == Movement(n, q, c + q)
           T == S \cup {m}
<1>1. m.at = n /\ m.qty = q /\ m.bal = c + q
  BY DEF Movement
<1>2. \A r \in S : r.at \in Nat /\ r.at < n
  BY DEF Row, Numbered
<1> HIDE DEF m
<1>3. Numbered(T, n + 1)
  BY <1>1, <1>2 DEF Numbered
<1>4. Before(T, m) = S
  BY <1>1, <1>2 DEF Before
<1>5. \A r \in S : Before(T, r) = Before(S, r)
  BY <1>1, <1>2 DEF Before
<1>6. m.bal = BalanceOf(Before(T, m)) + m.qty
  BY <1>1, <1>4
<1>7. \A r \in S : r.bal = BalanceOf(Before(T, r)) + r.qty
  BY <1>5 DEF Chained
<1>8. Chained(T)
  BY <1>6, <1>7 DEF Chained
<1> QED
  BY <1>3, <1>8 DEF m

(* Two transactions never hold the same pair, so what one commits was      *)
(* invisible only to transactions without movements there.                 *)
LEMMA OneHolder ==
  ASSUME NEW t \in Tx, NEW u \in Tx \ {t}, NEW p \in Pair, Holds(t, p)
  PROVE  ~Holds(u, p)
BY DEF Holds

(* What the step of t leaves alone in the other transactions.              *)
Untouched(t) ==
  \A u \in Tx \ {t} :
    /\ pc'[u] = pc[u] /\ req'[u] = req[u] /\ todo'[u] = todo[u]
    /\ want'[u] = want[u] /\ cur'[u] = cur[u] /\ mine'[u] = mine[u]
    /\ \A k \in Key : owner[k] = u => owner'[k] = u

LEMMA StepUntouched ==
  ASSUME TypeOK, NEW t \in Tx, Begin(t) \/ Proceed(t) \/ Abort(t)
  PROVE  Untouched(t)
<1>1. CASE Begin(t)
  BY <1>1 DEF TypeOK, Begin, shared, line, Untouched
<1>2. CASE Lock(t)
  <2>1. PICK p \in want[t] :
          LockFree(t, LockKey[p]) /\ owner' = [owner EXCEPT ![LockKey[p]] = t]
          /\ want' = [want EXCEPT ![t] = @ \ {p}]
    BY <1>2 DEF Lock
  <2>2. \A u \in Tx \ {t}, k \in Key : owner[k] = u => owner'[k] = u
    BY <2>1 DEF TypeOK, LockFree
  <2> QED
    BY <1>2, <2>1, <2>2 DEF TypeOK, Lock, line, Untouched
<1>3. CASE Resolve(t)
  BY <1>3 DEF TypeOK, Resolve, shared, Untouched
<1>4. CASE Pick(t)
  BY <1>4 DEF TypeOK, Pick, shared, Untouched
<1>5. CASE Receive(t)
  BY <1>5 DEF TypeOK, Receive, shared, Untouched
<1>6. CASE Debit(t)
  BY <1>6 DEF TypeOK, Debit, LineDone, Insert, line, Untouched
<1>7. CASE Credit(t)
  BY <1>7 DEF TypeOK, Credit, LineDone, Insert, line, Untouched
<1>8. CASE Refuse(t) \/ Commit(t) \/ Abort(t)
  <2>1. PICK o : End(t, o)
    BY <1>8 DEF Refuse, Commit, Abort
  <2>2. \A u \in Tx \ {t}, k \in Key : owner[k] = u => owner'[k] = u
    BY <2>1 DEF End
  <2> QED
    BY <2>1, <2>2 DEF TypeOK, End, Untouched
<1> QED
  BY <1>1, <1>2, <1>3, <1>4, <1>5, <1>6, <1>7, <1>8 DEF Proceed

(* It is enough to look at the locks of the transaction that takes a step. *)
LEMMA LocksOfOthers ==
  ASSUME WritesUnderLock, TypeOK, NEW t \in Tx, Untouched(t), LocksCover(t)'
  PROVE  WritesUnderLock'
<1>1. ASSUME NEW u \in Tx \ {t}
      PROVE  LocksCover(u)'
  <2>1. LocksCover(u)
    BY DEF WritesUnderLock
  <2>2. /\ pc'[u] = pc[u] /\ want'[u] = want[u] /\ mine'[u] = mine[u]
        /\ Source(u)' = Source(u) /\ Target(u)' = Target(u)
    BY DEF Untouched, Source, Target, Current
  <2>3. \A p \in Pair : Holds(u, p) => Holds(u, p)'
    BY DEF Untouched, Holds
  <2>4. pc[u] \in Inside => Source(u) \in Pair /\ Target(u) \in Pair
    BY CurrentType
  <2>5. \A p \in Pair : mine'[u][p] # {} => Holds(u, p)'
    BY <2>1, <2>2, <2>3 DEF LocksCover
  <2>6. pc'[u] = "lock" =>
          \A p \in {Source(u), Target(u)} : p \in want'[u] \/ Holds(u, p)'
    BY <2>1, <2>2, <2>3, <2>4 DEF LocksCover, Inside
  <2>7. pc'[u] \in Working =>
          \A p \in {Source(u), Target(u)} : Holds(u, p)'
    BY <2>1, <2>2, <2>3, <2>4 DEF LocksCover, Inside, Working
  <2> QED
    BY <2>2, <2>5, <2>6, <2>7 DEF LocksCover, Holds
<1> QED
  BY <1>1 DEF WritesUnderLock

LEMMA BeginLocks ==
  ASSUME BaseInv, NEW t \in Tx, Begin(t)
  PROVE  LocksCover(t)'
<1>1. PICK r \in Requests :
        /\ req' = [req EXCEPT ![t] = r]
        /\ todo' = [todo EXCEPT ![t] = r.items]
        /\ want' = [want EXCEPT ![t] = PairsToLock(r, Head(r.items))]
  BY DEF Begin
<1>2. Source(t)' \in want'[t] /\ Target(t)' \in want'[t]
  BY <1>1 DEF BaseInv, TypeOK, Source, Target, Current, PairsToLock
<1>3. pc'[t] = "lock" /\ mine' = mine /\ owner' = owner
  BY DEF BaseInv, TypeOK, Begin, shared
<1> QED
  BY <1>2, <1>3 DEF BaseInv, WritesUnderLock, LocksCover, Working, Holds

LEMMA LockLocks ==
  ASSUME BaseInv, NEW t \in Tx, Lock(t)
  PROVE  LocksCover(t)'
<1>1. PICK p \in want[t] :
        /\ owner' = [owner EXCEPT ![LockKey[p]] = t]
        /\ want' = [want EXCEPT ![t] = @ \ {p}]
  BY DEF Lock
<1>2. /\ req' = req /\ todo' = todo /\ mine' = mine
      /\ pc' = [pc EXCEPT ![t] = IF want'[t] # {} THEN "lock"
                                ELSE IF Debits(t) THEN "resolve" ELSE "receive"]
  BY DEF Lock, line
<1>3. Source(t)' = Source(t) /\ Target(t)' = Target(t)
  BY <1>2 DEF Source, Target, Current
<1>4. p \in Pair /\ LocksCover(t)
  BY DEF BaseInv, TypeOK, WritesUnderLock
<1>5. \A x \in Pair : Holds(t, x) \/ x = p => Holds(t, x)'
  BY <1>1, <1>4 DEF BaseInv, TypeOK, Holds
<1>6. Source(t) \in Pair /\ Target(t) \in Pair
  BY CurrentType DEF BaseInv, Lock, Inside
<1>7. \A x \in {Source(t), Target(t)} : x \in want'[t] \/ Holds(t, x)'
  BY <1>1, <1>4, <1>5, <1>6 DEF BaseInv, TypeOK, Lock, LocksCover
<1>8. pc'[t] \in Working => want'[t] = {}
  BY <1>2 DEF BaseInv, TypeOK, Working
<1>9. \A x \in Pair : mine'[t][x] # {} => Holds(t, x)'
  BY <1>2, <1>4, <1>5 DEF LocksCover
<1> QED
  BY <1>3, <1>7, <1>8, <1>9 DEF LocksCover, Holds

LEMMA ReadLocks ==
  ASSUME BaseInv, NEW t \in Tx, Resolve(t) \/ Pick(t) \/ Receive(t)
  PROVE  LocksCover(t)'
<1>1. /\ req' = req /\ todo' = todo /\ mine' = mine /\ owner' = owner
      /\ pc[t] \in Working /\ pc'[t] \in Working /\ pc'[t] # "lock"
  BY DEF BaseInv, TypeOK, Resolve, Pick, Receive, shared, Working
<1> QED
  BY <1>1 DEF BaseInv, WritesUnderLock, LocksCover, Holds, Source, Target, Current

(* After a line, the next item of the request has its pairs to lock.       *)
LEMMA LineDoneLocks ==
  ASSUME BaseInv, NEW t \in Tx, pc[t] \in Working, LineDone(t), req' = req
  PROVE  \/ /\ pc'[t] = "pick" /\ todo' = todo
         \/ pc'[t] = "commit"
         \/ pc'[t] = "lock" /\ Source(t)' \in want'[t] /\ Target(t)' \in want'[t]
<1> DEFINE rest == Tail(todo[t])
<1>1. CASE need[t] > 0 /\ pc' = [pc EXCEPT ![t] = "pick"] /\ UNCHANGED <<todo, want>>
  BY <1>1 DEF BaseInv, TypeOK
<1>2. CASE /\ todo' = [todo EXCEPT ![t] = rest]
           /\ want' = [want EXCEPT ![t] = IF rest = <<>> THEN {}
                                          ELSE PairsToLock(req[t], Head(rest))]
           /\ pc' = [pc EXCEPT ![t] = IF rest = <<>> THEN "commit" ELSE "lock"]
  <2>1. CASE rest = <<>>
    BY <1>2, <2>1 DEF BaseInv, TypeOK
  <2>2. CASE rest # <<>>
    <3>1. todo'[t] = rest /\ want'[t] = PairsToLock(req[t], Head(rest)) /\ pc'[t] = "lock"
      BY <1>2, <2>2 DEF BaseInv, TypeOK
    <3> HIDE DEF rest
    <3> QED
      BY <3>1 DEF PairsToLock, Source, Target, Current
  <2> QED
    BY <2>1, <2>2
<1> QED
  BY <1>1, <1>2 DEF LineDone

LEMMA WriteLocks ==
  ASSUME BaseInv, NEW t \in Tx, Debit(t) \/ Credit(t)
  PROVE  LocksCover(t)'
<1>1. pc[t] \in Working /\ Source(t) \in Pair /\ Target(t) \in Pair
  BY CurrentType DEF BaseInv, Debit, Credit, Working, Inside
<1>2. Holds(t, Source(t)) /\ Holds(t, Target(t)) /\ \A p \in Pair : mine[t][p] # {} => Holds(t, p)
  BY <1>1 DEF BaseInv, WritesUnderLock, LocksCover
<1>3. req' = req /\ owner' = owner
  BY DEF Debit, Credit
<1>4. PICK p \in {Source(t), Target(t)} :
        \E m : mine' = [mine EXCEPT ![t][p] = m]
  BY DEF Debit, Credit, Insert
<1>5. \A x \in Pair : mine'[t][x] # {} => Holds(t, x)'
  <2>1. p \in Pair /\ mine \in [Tx -> [Pair -> SUBSET Row]]
    BY <1>1 DEF BaseInv, TypeOK
  <2>2. \A x \in Pair \ {p} : mine'[t][x] = mine[t][x]
    BY <1>4, <2>1
  <2> QED
    BY <1>2, <1>3, <2>2 DEF Holds
<1>6. CASE pc'[t] = "receive" /\ todo' = todo
  BY <1>2, <1>3, <1>5, <1>6 DEF LocksCover, Holds, Source, Target, Current
<1>7. CASE LineDone(t)
  BY <1>1, <1>2, <1>3, <1>5, <1>7, LineDoneLocks
     DEF LocksCover, Working, Holds, Source, Target, Current
<1> QED
  BY <1>6, <1>7 DEF BaseInv, TypeOK, Debit, Credit

LEMMA EndLocks ==
  ASSUME BaseInv, NEW t \in Tx, NEW o \in {"refused", "failed", "done"}, End(t, o)
  PROVE  LocksCover(t)'
BY DEF BaseInv, TypeOK, End, LocksCover, Working

LEMMA StepKeepsLocks ==
  ASSUME BaseInv, NEW t \in Tx, Begin(t) \/ Proceed(t) \/ Abort(t)
  PROVE  WritesUnderLock'
<1>1. LocksCover(t)'
  BY BeginLocks, LockLocks, ReadLocks, WriteLocks, EndLocks
     DEF Proceed, Refuse, Commit, Abort
<1>2. Untouched(t)
  BY StepUntouched DEF BaseInv
<1> QED
  BY <1>1, <1>2, LocksOfOthers DEF BaseInv

--------------------------------------------------------------------------------
(* What a step does to what transactions see of the movements.             *)

LEMMA QuietViews ==
  ASSUME UNCHANGED <<rows, mine>>
  PROVE  \A u \in Tx, p \in Pair : View(u, p)' = View(u, p)
BY DEF View

LEMMA InsertViews ==
  ASSUME BaseInv, NEW t \in Tx, NEW p \in Pair, NEW q, Insert(t, p, q), rows' = rows
  PROVE  /\ View(t, p)' = View(t, p) \cup {Movement(clock[p], q, cur[t] + q)}
         /\ \A u \in Tx, x \in Pair : u # t \/ x # p => View(u, x)' = View(u, x)
<1> DEFINE m == Movement(clock[p], q, cur[t] + q)
<1>1. mine' = [mine EXCEPT ![t][p] = @ \cup {m}]
  BY DEF Insert
<1> HIDE DEF m
<1>2. View(t, p)' = View(t, p) \cup {m}
  BY <1>1 DEF BaseInv, TypeOK, View
<1>3. \A u \in Tx, x \in Pair : u # t \/ x # p => View(u, x)' = View(u, x)
  BY <1>1 DEF BaseInv, TypeOK, View
<1> QED
  BY <1>2, <1>3 DEF m

(* The movement it writes and where.                                       *)
LEMMA WriteInserts ==
  ASSUME TypeOK, NEW t \in Tx, Debit(t) \/ Credit(t)
  PROVE  /\ rows' = rows
         /\ Debit(t) => Insert(t, Source(t), -amt[t])
         /\ Credit(t) => Insert(t, Target(t), amt[t])
         /\ Source(t) \in Pair /\ Target(t) \in Pair
         /\ amt[t] \in Nat /\ amt[t] \in Int /\ -amt[t] \in Int
<1>1. pc[t] \in Inside
  BY DEF Debit, Credit, Inside
<1>2. amt[t] \in Nat
  BY DEF TypeOK
<1> QED
  BY <1>1, <1>2, CurrentType DEF Debit, Credit

(* A commit shows the others what they could not see; where it wrote, no   *)
(* other transaction has written.                                          *)
LEMMA CommitViews ==
  ASSUME BaseInv, NEW t \in Tx, Commit(t)
  PROVE  /\ \A p \in Pair : rows'[p] = View(t, p)
         /\ \A u \in Tx, p \in Pair : View(u, p)' \in {View(t, p), View(u, p)}
         /\ \A u \in Tx \ {t}, p \in Pair : Holds(u, p) => View(u, p)' = View(u, p)
<1>1. /\ rows' = [p \in Pair |-> View(t, p)]
      /\ mine' = [mine EXCEPT ![t] = [p \in Pair |-> {}]]
  BY DEF Commit, End
<1>2. \A u \in Tx \ {t}, p \in Pair : mine[u][p] # {} => mine[t][p] = {}
  BY OneHolder DEF BaseInv, WritesUnderLock, LocksCover
<1>3. ASSUME NEW u \in Tx, NEW p \in Pair
      PROVE  View(u, p)' \in {View(t, p), View(u, p)}
  <2>1. CASE u = t
    BY <1>1, <2>1 DEF BaseInv, TypeOK, View
  <2>2. CASE u # t /\ mine[u][p] = {}
    BY <1>1, <2>2 DEF BaseInv, TypeOK, View
  <2>3. CASE u # t /\ mine[u][p] # {}
    BY <1>1, <1>2, <2>3 DEF BaseInv, TypeOK, View
  <2> QED
    BY <2>1, <2>2, <2>3
<1>4. ASSUME NEW u \in Tx \ {t}, NEW p \in Pair, Holds(u, p)
      PROVE  View(u, p)' = View(u, p)
  <2>1. mine[t][p] = {}
    BY <1>4, OneHolder DEF BaseInv, WritesUnderLock, LocksCover
  <2> QED
    BY <1>1, <2>1 DEF BaseInv, TypeOK, View
<1> QED
  BY <1>1, <1>3, <1>4

LEMMA UndoViews ==
  ASSUME BaseInv, NEW t \in Tx, Refuse(t) \/ Abort(t)
  PROVE  /\ rows' = rows
         /\ \A u \in Tx \ {t}, p \in Pair : View(u, p)' = View(u, p)
         /\ \A p \in Pair : View(t, p)' = rows[p] /\ rows[p] \subseteq View(t, p)
<1>1. rows' = rows /\ mine' = [mine EXCEPT ![t] = [p \in Pair |-> {}]]
  BY DEF Refuse, Abort, End
<1>2. \A u \in Tx \ {t}, p \in Pair : View(u, p)' = View(u, p)
  BY <1>1 DEF BaseInv, TypeOK, View
<1>3. \A p \in Pair : View(t, p)' = rows[p] /\ rows[p] \subseteq View(t, p)
  BY <1>1 DEF BaseInv, TypeOK, View
<1> QED
  BY <1>1, <1>2, <1>3

LEMMA NumberedGrows ==
  ASSUME NEW S \in SUBSET Row, NEW n \in Nat, NEW q, NEW bal, Numbered(S, n)
  PROVE  /\ Numbered(S \cup {Movement(n, q, bal)}, n + 1)
         /\ Movement(n, q, bal) \notin S
<1> DEFINE m == Movement(n, q, bal)
<1>1. m.at = n
  BY DEF Movement
<1>2. \A r \in S : r.at \in Nat /\ r.at < n
  BY DEF Row, Numbered
<1> HIDE DEF m
<1>3. Numbered(S \cup {m}, n + 1) /\ m \notin S
  BY <1>1, <1>2 DEF Numbered
<1> QED
  BY <1>3 DEF m

LEMMA StepKeepsNumbers ==
  ASSUME BaseInv, NEW t \in Tx, Begin(t) \/ Proceed(t) \/ Abort(t)
  PROVE  RowsNumbered'
<1>1. CASE Begin(t) \/ Lock(t) \/ Resolve(t) \/ Pick(t) \/ Receive(t)
  <2>1. UNCHANGED <<rows, mine, clock>>
    BY <1>1 DEF Begin, Lock, Resolve, Pick, Receive, shared
  <2> QED
    BY <2>1, QuietViews DEF BaseInv, RowsNumbered
<1>2. CASE Debit(t) \/ Credit(t)
  <2>1. PICK p \in Pair, q \in Int : Insert(t, p, q)
    BY <1>2, WriteInserts DEF BaseInv
  <2>2. /\ View(t, p)' = View(t, p) \cup {Movement(clock[p], q, cur[t] + q)}
        /\ \A u \in Tx, x \in Pair : u # t \/ x # p => View(u, x)' = View(u, x)
    BY <1>2, <2>1, InsertViews, WriteInserts DEF BaseInv
  <2>3. clock' = [clock EXCEPT ![p] = @ + 1] /\ clock \in [Pair -> Nat]
    BY <2>1 DEF Insert, BaseInv, TypeOK
  <2>4. Numbered(View(t, p)', clock'[p])
    <3>1. View(t, p) \in SUBSET Row /\ Numbered(View(t, p), clock[p])
      BY ViewType DEF BaseInv, RowsNumbered
    <3>2. Numbered(View(t, p) \cup {Movement(clock[p], q, cur[t] + q)}, clock[p] + 1)
      BY <2>3, <3>1, NumberedGrows
    <3> QED
      BY <2>2, <2>3, <3>2
  <2>5. ASSUME NEW u \in Tx, NEW x \in Pair, u # t \/ x # p
        PROVE  Numbered(View(u, x)', clock'[x])
    <3>1. Numbered(View(u, x), clock[x]) /\ View(u, x) \in SUBSET Row
      BY ViewType DEF BaseInv, RowsNumbered
    <3>2. \A r \in View(u, x) : r.at \in Nat
      BY <3>1 DEF Row
    <3>3. clock[x] \in Nat /\ clock'[x] \in Nat /\ clock[x] <= clock'[x]
      BY <2>3
    <3> QED
      BY <2>2, <2>5, <3>1, <3>2, <3>3 DEF Numbered
  <2>6. ASSUME NEW u \in Tx, NEW x \in Pair
        PROVE  Numbered(View(u, x)', clock'[x])
    BY <2>4, <2>5
  <2> QED
    BY <2>6 DEF RowsNumbered
<1>3. CASE Commit(t)
  <2>1. clock' = clock
    BY <1>3 DEF Commit, End
  <2> QED
    BY <1>3, <2>1, CommitViews DEF BaseInv, RowsNumbered
<1>4. CASE Refuse(t) \/ Abort(t)
  <2>1. clock' = clock
    BY <1>4 DEF Refuse, Abort, End
  <2>2. \A p \in Pair : Numbered(rows[p], clock[p])
    BY <1>4, UndoViews DEF BaseInv, RowsNumbered, Numbered
  <2> QED
    BY <1>4, <2>1, <2>2, UndoViews DEF BaseInv, RowsNumbered
<1> QED
  BY <1>1, <1>2, <1>3, <1>4 DEF Proceed

LEMMA InitBase == Init => BaseInv
<1> SUFFICES ASSUME Init PROVE BaseInv
  OBVIOUS
<1>1. TypeOK /\ SourcesExist
  BY InitType DEF Init, SourcesExist, LotSeen
<1>2. \A p \in Pair : rows[p] = {} /\ \A t \in Tx : View(t, p) = {} /\ mine[t][p] = {}
  BY DEF Init, View
<1>3. \A t \in Tx : pc[t] = "idle"
  BY DEF Init
<1>4. WritesUnderLock
  BY <1>2, <1>3 DEF WritesUnderLock, LocksCover, Working
<1>5. RowsNumbered
  BY <1>2 DEF RowsNumbered, Numbered
<1> QED
  BY <1>1, <1>4, <1>5 DEF BaseInv

LEMMA StepBase ==
  ASSUME BaseInv, NEW t \in Tx, Begin(t) \/ Proceed(t) \/ Abort(t)
  PROVE  BaseInv'
<1>1. TypeOK' /\ SourcesExist'
  BY StepType, StepKeepsSources DEF BaseInv
<1> QED
  BY <1>1, StepKeepsLocks, StepKeepsNumbers DEF BaseInv

LEMMA StutterBase ==
  ASSUME BaseInv, UNCHANGED vars
  PROVE  BaseInv'
<1>1. TypeOK' /\ SourcesExist'
  BY StutterType DEF BaseInv
<1>2. RowsNumbered'
  BY QuietViews DEF BaseInv, RowsNumbered, vars
<1>3. WritesUnderLock'
  BY DEF BaseInv, WritesUnderLock, LocksCover, Holds, Source, Target, Current, vars
<1> QED
  BY <1>1, <1>2, <1>3 DEF BaseInv

LEMMA BaseInductive == Spec => []BaseInv
<1>1. BaseInv /\ [Next]_vars => BaseInv'
  BY StepBase, StutterBase DEF Next
<1> QED
  BY <1>1, InitBase, PTL DEF Spec

--------------------------------------------------------------------------------
(* The chain and the balance that was read.  It is enough to look at the   *)
(* transaction that takes the step: the views of the others at the pairs   *)
(* they hold do not change.                                                *)
FreshOf(t) ==
  /\ pc[t] = "debit" => cur[t] = BalanceOf(View(t, Source(t)))
  /\ pc[t] = "credit" => cur[t] = BalanceOf(View(t, Target(t)))

LEMMA FreshOfOthers ==
  ASSUME LedgerInv, NEW t \in Tx, Untouched(t), FreshOf(t)',
         \A u \in Tx \ {t}, p \in Pair : Holds(u, p) => View(u, p)' = View(u, p)
  PROVE  ReadStillFresh'
<1>1. ASSUME NEW u \in Tx \ {t}
      PROVE  FreshOf(u)'
  <2>1. /\ pc'[u] = pc[u] /\ cur'[u] = cur[u]
        /\ Source(u)' = Source(u) /\ Target(u)' = Target(u)
    BY DEF Untouched, Source, Target, Current
  <2>2. CASE pc[u] \in {"debit", "credit"}
    <3>1. Source(u) \in Pair /\ Target(u) \in Pair
      BY <2>2, CurrentType DEF LedgerInv, BaseInv, Inside
    <3>2. Holds(u, Source(u)) /\ Holds(u, Target(u))
      BY <2>2 DEF LedgerInv, BaseInv, WritesUnderLock, LocksCover, Working
    <3>3. View(u, Source(u))' = View(u, Source(u)) /\ View(u, Target(u))' = View(u, Target(u))
      <4>1. \A p \in {Source(u), Target(u)} : rows'[p] \cup mine'[u][p] = View(u, p)
        BY <3>1, <3>2 DEF View
      <4> QED
        BY <2>1, <4>1 DEF View
    <3> QED
      BY <2>1, <3>3 DEF LedgerInv, ReadStillFresh, FreshOf
  <2> QED
    BY <2>1, <2>2 DEF FreshOf
<1> QED
  BY <1>1 DEF ReadStillFresh, FreshOf

LEMMA QuietLedger ==
  ASSUME LedgerInv, NEW t \in Tx,
         Begin(t) \/ Lock(t) \/ Resolve(t) \/ Pick(t) \/ Receive(t),
         Resolution = 1
  PROVE  RowsChain' /\ LedgerChains' /\ ReadStillFresh'
<1>1. UNCHANGED <<rows, mine, clock>>
  BY DEF Begin, Lock, Resolve, Pick, Receive, shared
<1>2. \A u \in Tx, p \in Pair : View(u, p)' = View(u, p)
  BY <1>1, QuietViews
<1>3. Untouched(t)
  BY StepUntouched DEF LedgerInv, BaseInv, Proceed
<1>4. FreshOf(t)'
  <2>1. CASE Begin(t) \/ Lock(t) \/ Resolve(t)
    BY <2>1 DEF LedgerInv, BaseInv, TypeOK, Begin, Lock, Resolve, FreshOf
  <2>2. CASE Pick(t)
    <3>1. pc'[t] = "debit" /\ req' = req /\ todo' = todo
            /\ cur'[t] \in CurrentStock(View(t, Source(t)))
      BY <2>2 DEF LedgerInv, BaseInv, TypeOK, Pick, shared
    <3>2. Source(t) \in Pair
      BY <2>2, CurrentType DEF LedgerInv, BaseInv, Pick, Inside
    <3>3. View(t, Source(t)) \in SUBSET Row
            /\ Numbered(View(t, Source(t)), clock[Source(t)])
      BY <3>2, ViewType DEF LedgerInv, BaseInv, RowsNumbered
    <3>4. cur'[t] = BalanceOf(View(t, Source(t)))
      BY <3>1, <3>3, LatestIsLast
    <3> QED
      BY <1>1, <3>1, <3>4 DEF FreshOf, View, Source, Current
  <2>3. CASE Receive(t)
    <3>1. pc'[t] = "credit" /\ req' = req /\ todo' = todo
            /\ cur'[t] \in CurrentStock(View(t, Target(t)))
      BY <2>3 DEF LedgerInv, BaseInv, TypeOK, Receive, shared
    <3>2. Target(t) \in Pair
      BY <2>3, CurrentType DEF LedgerInv, BaseInv, Receive, Inside
    <3>3. View(t, Target(t)) \in SUBSET Row
            /\ Numbered(View(t, Target(t)), clock[Target(t)])
      BY <3>2, ViewType DEF LedgerInv, BaseInv, RowsNumbered
    <3>4. cur'[t] = BalanceOf(View(t, Target(t)))
      BY <3>1, <3>3, LatestIsLast
    <3> QED
      BY <1>1, <3>1, <3>4 DEF FreshOf, View, Target, Current
  <2> QED
    BY <2>1, <2>2, <2>3
<1>5. RowsChain' /\ LedgerChains'
  BY <1>1, <1>2 DEF LedgerInv, RowsChain, LedgerChains
<1> QED
  BY <1>2, <1>3, <1>4, <1>5, FreshOfOthers

(* A movement written on the balance of the last one keeps every chain.    *)
LEMMA InsertLedger ==
  ASSUME LedgerInv, NEW t \in Tx, NEW p \in Pair, NEW q \in Int,
         Insert(t, p, q), rows' = rows, cur[t] = BalanceOf(View(t, p))
  PROVE  RowsChain' /\ LedgerChains'
<1>1. View(t, p) \in SUBSET Row /\ clock[p] \in Nat /\ cur[t] \in Int
        /\ Numbered(View(t, p), clock[p]) /\ Chained(View(t, p))
  BY ViewType DEF LedgerInv, BaseInv, TypeOK, RowsNumbered, LedgerChains
<1>2. Chained(View(t, p) \cup {Movement(clock[p], q, cur[t] + q)})
  BY <1>1, ChainGrows
<1>3. /\ View(t, p)' = View(t, p) \cup {Movement(clock[p], q, cur[t] + q)}
      /\ \A u \in Tx, x \in Pair : u # t \/ x # p => View(u, x)' = View(u, x)
  BY InsertViews DEF LedgerInv
<1>4. ASSUME NEW u \in Tx, NEW x \in Pair
      PROVE  Chained(View(u, x)')
  <2>1. CASE u = t /\ x = p
    BY <1>2, <1>3, <2>1
  <2>2. CASE u # t \/ x # p
    <3>1. Chained(View(u, x))
      BY DEF LedgerInv, LedgerChains
    <3>2. View(u, x)' = View(u, x)
      BY <1>3, <2>2
    <3> QED
      BY <3>1, <3>2
  <2> QED
    BY <2>1, <2>2
<1>5. RowsChain'
  BY DEF LedgerInv, RowsChain
<1> QED
  BY <1>4, <1>5 DEF LedgerChains, Chained

LEMMA WriteLedger ==
  ASSUME LedgerInv, NEW t \in Tx, Debit(t) \/ Credit(t)
  PROVE  RowsChain' /\ LedgerChains' /\ ReadStillFresh'
<1>1. PICK p \in Pair, q \in Int : Insert(t, p, q) /\ cur[t] = BalanceOf(View(t, p))
  BY WriteInserts DEF LedgerInv, BaseInv, ReadStillFresh, Debit, Credit
<1>2. RowsChain' /\ LedgerChains'
  BY <1>1, WriteInserts, InsertLedger DEF LedgerInv, BaseInv
<1>3. FreshOf(t)'
  BY DEF LedgerInv, BaseInv, TypeOK, Debit, Credit, LineDone, FreshOf
<1>4. Untouched(t)
  BY StepUntouched DEF LedgerInv, BaseInv, Proceed
<1>5. \A u \in Tx \ {t}, x \in Pair : View(u, x)' = View(u, x)
  BY <1>1, WriteInserts, InsertViews DEF LedgerInv, BaseInv
<1> QED
  BY <1>2, <1>3, <1>4, <1>5, FreshOfOthers

LEMMA CommitLedger ==
  ASSUME LedgerInv, NEW t \in Tx, Commit(t)
  PROVE  RowsChain' /\ LedgerChains' /\ ReadStillFresh'
<1>1. LedgerChains' /\ RowsChain'
  BY CommitViews DEF LedgerInv, LedgerChains, RowsChain
<1>2. FreshOf(t)'
  BY DEF LedgerInv, BaseInv, TypeOK, FreshOf, Commit, End
<1>3. Untouched(t)
  BY StepUntouched DEF LedgerInv, BaseInv, Proceed
<1> QED
  BY <1>1, <1>2, <1>3, CommitViews, FreshOfOthers DEF LedgerInv

LEMMA UndoLedger ==
  ASSUME LedgerInv, NEW t \in Tx, Refuse(t) \/ Abort(t)
  PROVE  RowsChain' /\ LedgerChains' /\ ReadStillFresh'
<1>1. RowsChain' /\ LedgerChains'
  BY UndoViews DEF LedgerInv, RowsChain, LedgerChains
<1>2. FreshOf(t)'
  BY DEF LedgerInv, BaseInv, TypeOK, Refuse, Abort, End, FreshOf
<1>3. Untouched(t)
  BY StepUntouched DEF LedgerInv, BaseInv, Proceed
<1> QED
  BY <1>1, <1>2, <1>3, UndoViews, FreshOfOthers DEF LedgerInv

LEMMA StepKeepsLedger ==
  ASSUME Resolution = 1, LedgerInv, NEW t \in Tx, Begin(t) \/ Proceed(t) \/ Abort(t)
  PROVE  LedgerInv'
<1>1. BaseInv'
  BY StepBase DEF LedgerInv
<1>2. RowsChain' /\ LedgerChains' /\ ReadStillFresh'
  BY QuietLedger, WriteLedger, CommitLedger, UndoLedger DEF Proceed
<1> QED
  BY <1>1, <1>2 DEF LedgerInv

LEMMA InitLedger == Init => LedgerInv
<1> SUFFICES ASSUME Init PROVE LedgerInv
  OBVIOUS
<1>1. \A p \in Pair : rows[p] = {} /\ \A t \in Tx : View(t, p) = {}
  BY DEF Init, View
<1>2. ReadStillFresh
  BY DEF Init, ReadStillFresh
<1>3. RowsChain /\ LedgerChains
  BY <1>1 DEF RowsChain, LedgerChains, Chained
<1> QED
  BY <1>2, <1>3, InitBase DEF LedgerInv

LEMMA StutterLedger ==
  ASSUME LedgerInv, UNCHANGED vars
  PROVE  LedgerInv'
<1>1. BaseInv'
  BY StutterBase DEF LedgerInv
<1>2. RowsChain' /\ LedgerChains'
  BY QuietViews DEF LedgerInv, RowsChain, LedgerChains, vars
<1>3. ReadStillFresh'
  BY DEF LedgerInv, ReadStillFresh, View, Source, Target, Current, vars
<1> QED
  BY <1>1, <1>2, <1>3 DEF LedgerInv

LEMMA LedgerInductive ==
  ASSUME Resolution = 1
  PROVE  Spec => []LedgerInv
<1>1. Init => LedgerInv
  BY InitLedger
<1>2. LedgerInv /\ [Next]_vars => LedgerInv'
  BY StepKeepsLedger, StutterLedger DEF Next
<1> QED
  BY <1>1, <1>2, PTL DEF Spec

(* If no two movements of a pair share a created_at, then whatever         *)
(* transactions interleave, each movement carries the balance of the one   *)
(* before it plus its own quantity: the advisory lock of lockStockRow is   *)
(* enough, under READ COMMITTED, for getCurrentStock's read and the insert *)
(* to be as one.                                                           *)
THEOREM LedgerNeverForks ==
  ASSUME Resolution = 1
  PROVE  Spec => []LedgerChains
<1>1. LedgerInv => LedgerChains
  BY DEF LedgerInv, BaseInv
<1> QED
  BY <1>1, LedgerInductive, PTL

(* Under the same assumption no transaction writes a movement on a balance *)
(* that has changed since it read it.                                      *)
THEOREM NoStaleBalance ==
  ASSUME Resolution = 1
  PROVE  Spec => []ReadStillFresh
<1>1. LedgerInv => ReadStillFresh
  BY DEF LedgerInv, BaseInv
<1> QED
  BY <1>1, LedgerInductive, PTL


--------------------------------------------------------------------------------
(* The balance of a pair is the sum of its movements.                      *)

RowsCounted ==
  /\ \A p \in Pair : IsFiniteSet(rows[p]) /\ Numbered(rows[p], clock[p])
  /\ \A t \in Tx, p \in Pair : IsFiniteSet(View(t, p))

LEMMA NumberedSubset ==
  ASSUME NEW S, NEW n, Numbered(S, n), NEW s, s \subseteq S
  PROVE  Numbered(s, n)
BY DEF Numbered

(* Finitely many movements have a last one.                                *)
LEMMA LastExists ==
  ASSUME NEW S \in SUBSET Row, IsFiniteSet(S), S # {}
  PROVE  Last(S) \in S /\ \A x \in S : x.at <= Last(S).at
<1> DEFINE T == {s \in SUBSET S : s # {} /\ ~\E r \in s : \A x \in s : x.at <= r.at}
<1>1. T = {}
  <2> SUFFICES ASSUME T # {} PROVE FALSE
    OBVIOUS
  <2>0. T \subseteq SUBSET S
    OBVIOUS
  <2>1. PICK s \in T : \A u \in T : u \subseteq s => u = s
    <3> HIDE DEF T
    <3> QED
      BY <2>0, SmallestSubset
  <2>2. PICK a \in s : TRUE
    OBVIOUS
  <2> DEFINE R == s \ {a}
  <2>3. \A x \in s : x.at \in Nat
    BY DEF Row
  <2>4. R # {}
    BY <2>2, <2>3
  <2>5. R \notin T
    BY <2>1, <2>2
  <2>6. PICK r \in R : \A x \in R : x.at <= r.at
    BY <2>4, <2>5
  <2>7. CASE a.at <= r.at
    BY <2>6, <2>7
  <2>8. CASE ~(a.at <= r.at)
    <3>1. \A x \in s : x.at <= a.at
      BY <2>2, <2>3, <2>6, <2>8
    <3> QED
      BY <2>2, <3>1
  <2> QED
    BY <2>7, <2>8
<1>2. S \notin T
  BY <1>1
<1>3. \E r \in S : \A x \in S : x.at <= r.at
  BY <1>2
<1> QED
  BY <1>3 DEF Last

LEMMA RowQty ==
  ASSUME NEW S \in SUBSET Row
  PROVE  \A r \in S : Qty[r] = r.qty /\ Qty[r] \in Int
BY DEF Qty, Row

LEMMA SumOfRows ==
  ASSUME NEW S \in SUBSET Row, IsFiniteSet(S)
  PROVE  Sum(S) \in Int
BY RowQty, SumType DEF Sum

LEMMA SumOfNone == Sum({}) = 0
BY SumEmpty DEF Sum

(* A chain adds up: its last balance is the sum of its movements.          *)
LEMMA ChainSum ==
  ASSUME NEW S \in SUBSET Row, IsFiniteSet(S), NEW n, Numbered(S, n), Chained(S)
  PROVE  BalanceOf(S) = Sum(S)
<1> DEFINE T == {s \in SUBSET S : Chained(s) /\ BalanceOf(s) # Sum(s)}
<1> SUFFICES ASSUME T # {} PROVE FALSE
  BY DEF T
<1>0. T \subseteq SUBSET S
  OBVIOUS
<1>1. PICK s \in T : \A u \in T : u \subseteq s => u = s
  <2> HIDE DEF T
  <2> QED
    BY <1>0, SmallestSubset
<1>2. s \in SUBSET Row /\ IsFiniteSet(s) /\ Numbered(s, n) /\ Chained(s)
  BY FS_Subset, NumberedSubset
<1>3. s # {}
  BY SumOfNone DEF BalanceOf
<1> DEFINE r == Last(s)
           R == s \ {r}
<1>4. r \in s /\ \A x \in s : x.at <= r.at
  BY <1>2, <1>3, LastExists
<1>5. \A x \in s : x.at \in Nat /\ x.qty \in Int
  BY <1>2 DEF Row
<1> HIDE DEF r
<1>6. Before(s, r) = R
  BY <1>2, <1>4, <1>5 DEF Before, Numbered
<1>7. \A x \in R : Before(R, x) = Before(s, x)
  BY <1>2, <1>4, <1>5 DEF Before, Numbered
<1>8. Chained(R)
  BY <1>2, <1>7 DEF Chained
<1>9. R \notin T
  BY <1>1, <1>4
<1>10. BalanceOf(R) = Sum(R)
  BY <1>8, <1>9
<1>11. r.bal = BalanceOf(R) + r.qty
  BY <1>2, <1>4, <1>6 DEF Chained
<1>12. Sum(s) = r.qty + Sum(R)
  <2>1. Sum(s) = Qty[r] + Sum(R)
    BY <1>2, <1>4, RowQty, SumRemove DEF Sum
  <2> QED
    BY <1>2, <1>4, <2>1, RowQty
<1>13. Sum(R) \in Int
  <2>1. R \in SUBSET Row /\ IsFiniteSet(R)
    BY <1>2, FS_RemoveElement
  <2> QED
    BY <2>1, SumOfRows
<1>14. BalanceOf(s) = r.bal
  BY <1>3 DEF BalanceOf, r
<1> QED
  BY <1>1, <1>4, <1>5, <1>10, <1>11, <1>12, <1>13, <1>14

(* What getCurrentStock returns when created_at is never shared.           *)
LEMMA StockIsSum ==
  ASSUME Resolution = 1, NEW S \in SUBSET Row, IsFiniteSet(S),
         NEW n, Numbered(S, n), Chained(S)
  PROVE  CurrentStock(S) = {Sum(S)}
<1>1. \A c \in CurrentStock(S) : c = Sum(S)
  BY ChainSum, LatestIsLast
<1>2. CurrentStock(S) # {}
  <2>1. CASE S = {}
    BY <2>1 DEF CurrentStock
  <2>2. CASE S # {}
    <3>1. Last(S) \in S /\ \A x \in S : x.at <= Last(S).at
      BY <2>2, LastExists
    <3>2. \A r \in S : CreatedAt(r) = r.at
      BY DEF CreatedAt, Row
    <3>3. Last(S) \in Latest(S)
      BY <3>1, <3>2 DEF Latest
    <3> QED
      BY <2>2, <3>3 DEF CurrentStock
  <2> QED
    BY <2>1, <2>2
<1> QED
  BY <1>1, <1>2

LEMMA InitCounted == Init => RowsCounted
<1> SUFFICES ASSUME Init PROVE RowsCounted
  OBVIOUS
<1>1. \A p \in Pair : rows[p] = {} /\ \A t \in Tx : View(t, p) = {}
  BY DEF Init, View
<1>2. IsFiniteSet({})
  BY FS_EmptySet
<1> QED
  BY <1>1, <1>2 DEF RowsCounted, Numbered

LEMMA StepCounted ==
  ASSUME BaseInv, RowsCounted, NEW t \in Tx, Begin(t) \/ Proceed(t) \/ Abort(t)
  PROVE  RowsCounted'
<1>1. \A u \in Tx, p \in Pair : IsFiniteSet(View(u, p)')
  <2>1. CASE Begin(t) \/ Lock(t) \/ Resolve(t) \/ Pick(t) \/ Receive(t)
    <3>1. UNCHANGED <<rows, mine, clock>>
      BY <2>1 DEF Begin, Lock, Resolve, Pick, Receive, shared
    <3> QED
      BY <3>1, QuietViews DEF RowsCounted
  <2>2. CASE Debit(t) \/ Credit(t)
    <3>1. PICK p \in Pair, q \in Int : Insert(t, p, q)
      BY <2>2, WriteInserts DEF BaseInv
    <3>2. /\ View(t, p)' = View(t, p) \cup {Movement(clock[p], q, cur[t] + q)}
          /\ \A u \in Tx, x \in Pair : u # t \/ x # p => View(u, x)' = View(u, x)
      BY <2>2, <3>1, InsertViews, WriteInserts DEF BaseInv
    <3>3. IsFiniteSet(View(t, p) \cup {Movement(clock[p], q, cur[t] + q)})
      BY FS_AddElement DEF RowsCounted
    <3>4. \A u \in Tx, x \in Pair : (u = t /\ x = p) \/ IsFiniteSet(View(u, x)')
      BY <3>2 DEF RowsCounted
    <3>5. IsFiniteSet(View(t, p)')
      BY <3>2, <3>3
    <3> QED
      BY <3>4, <3>5
  <2>3. CASE Commit(t)
    BY <2>3, CommitViews DEF RowsCounted
  <2>4. CASE Refuse(t) \/ Abort(t)
    BY <2>4, UndoViews DEF RowsCounted
  <2> QED
    BY <2>1, <2>2, <2>3, <2>4 DEF Proceed
<1>2. RowsNumbered'
  BY StepKeepsNumbers
<1>3. ASSUME NEW p \in Pair
      PROVE  IsFiniteSet(rows'[p]) /\ Numbered(rows'[p], clock'[p])
  <2>1. rows'[p] \subseteq View(t, p)'
    BY DEF View
  <2>2. IsFiniteSet(View(t, p)') /\ Numbered(View(t, p)', clock'[p])
    BY <1>1, <1>2 DEF RowsNumbered
  <2> QED
    BY <2>1, <2>2, FS_Subset, NumberedSubset
<1> QED
  BY <1>1, <1>3 DEF RowsCounted, Numbered

LEMMA StutterCounted ==
  ASSUME RowsCounted, UNCHANGED vars
  PROVE  RowsCounted'
BY QuietViews DEF RowsCounted, vars

LEMMA CountedInductive == Spec => [](BaseInv /\ RowsCounted)
<1>1. BaseInv /\ RowsCounted /\ [Next]_vars => (BaseInv /\ RowsCounted)'
  BY StepBase, StutterBase, StepCounted, StutterCounted DEF Next
<1> QED
  BY <1>1, InitBase, InitCounted, PTL DEF Spec

(* The sums of what is committed and of what a transaction sees exist.     *)
LEMMA SumsExist ==
  ASSUME TypeOK, RowsCounted
  PROVE  \A p \in Pair : Sum(rows[p]) \in Int /\ \A t \in Tx : Sum(View(t, p)) \in Int
BY SumOfRows, ViewType DEF TypeOK, RowsCounted

(* What getCurrentStock returns, to anybody.                               *)
LEMMA StockReported ==
  ASSUME Resolution = 1, LedgerInv, RowsCounted, NEW p \in Pair
  PROVE  /\ CurrentStock(rows[p]) = {Sum(rows[p])}
         /\ \A t \in Tx : CurrentStock(View(t, p)) = {Sum(View(t, p))}
<1>1. rows[p] \in SUBSET Row /\ Chained(rows[p])
  BY DEF LedgerInv, BaseInv, TypeOK, RowsChain
<1>2. IsFiniteSet(rows[p]) /\ Numbered(rows[p], clock[p])
  BY DEF RowsCounted
<1>3. CurrentStock(rows[p]) = {Sum(rows[p])}
  BY <1>1, <1>2, StockIsSum
<1>4. ASSUME NEW t \in Tx
      PROVE  CurrentStock(View(t, p)) = {Sum(View(t, p))}
  <2>1. View(t, p) \in SUBSET Row /\ Chained(View(t, p)) /\ IsFiniteSet(View(t, p))
          /\ Numbered(View(t, p), clock[p])
    BY ViewType DEF LedgerInv, BaseInv, LedgerChains, RowsNumbered, RowsCounted
  <2> QED
    BY <2>1, StockIsSum
<1> QED
  BY <1>3, <1>4

(* If no two movements of a pair share a created_at, the balance that      *)
(* getCurrentStock reads off the latest row of a pair is the sum of the    *)
(* quantities of all its committed movements: none is lost from it and     *)
(* none counted twice, whatever transactions interleaved to write them.    *)
THEOREM BalanceAddsUp ==
  ASSUME Resolution = 1
  PROVE  Spec => []BalanceIsSum
<1>1. LedgerInv /\ RowsCounted => BalanceIsSum
  BY StockReported DEF BalanceIsSum
<1> QED
  BY <1>1, LedgerInductive, CountedInductive, PTL

--------------------------------------------------------------------------------
(* No lot goes below zero.  An exit checks a lot when it resolves its item *)
(* and takes from it some steps later, line by line: it still finds the    *)
(* units there because nobody else writes a lot of a pair it has locked,   *)
(* and because its own earlier lines took from other lots.                 *)

At(p, lot) == lot # NoLot /\ lot.pair = p

(* A lot of the item's own pair that t still sees with n units or more.    *)
Has(t, b, n) == At(Source(t), LotSeen(t, b)) /\ LotSeen(t, b).qty >= n

(* Uncommitted versions of a lot: one transaction has them, it holds the   *)
(* pair of the lot, and the lot keeps its pair and its expiry.             *)
OneWriter ==
  \A b \in BatchId, t, u \in Tx : dirty[t][b] # NoLot /\ dirty[u][b] # NoLot => t = u

DirtyHeld ==
  \A t \in Tx, b \in BatchId : dirty[t][b] # NoLot => Holds(t, dirty[t][b].pair)

SameLot ==
  \A t \in Tx, b \in BatchId :
    dirty[t][b] # NoLot /\ lots[b] # NoLot =>
      dirty[t][b].pair = lots[b].pair /\ dirty[t][b].expiry = lots[b].expiry

LotWrites == OneWriter /\ DirtyHeld /\ SameLot

Debiting == {"pick", "debit", "receive", "credit"}

Asked(t) ==
  /\ pc[t] # "idle" => Valid(req[t])
  /\ pc[t] \in {"resolve", "pick", "debit"} => Debits(t)
  /\ pc[t] \in {"receive", "credit"} => Credits(t)
  /\ pc[t] \notin Debiting \/ ~Debits(t) => need[t] = 0

(* What an item is offered, line by line, and what its line has taken.     *)
OfferBacked(t) ==
  /\ \A b \in BatchId : plan[t][b] > 0 => Has(t, b, plan[t][b])
  /\ plan[t][NoBatch] > 0 => ~Current(t).manual /\ Current(t).product \notin Perishable
  /\ UsesFefo(t) => \A b \in BatchId : plan[t][b] >= 0

OfferEnough(t) == ~UsesFefo(t) => \A s \in Sources : plan[t][s] > 0 => plan[t][s] >= need[t]

LineTaken(t) ==
  /\ ~UsesFefo(t) => need[t] = 0
  /\ Current(t).product \in Perishable => src[t] \in BatchId
  /\ src[t] = NoBatch => ~Current(t).manual

LineBacked(t) ==
  /\ plan[t][src[t]] = 0
  /\ src[t] \in BatchId => Has(t, src[t], amt[t])

PlanHolds(t) ==
  pc[t] \in Debiting /\ Debits(t) =>
    /\ OfferBacked(t)
    /\ pc[t] = "pick" => OfferEnough(t)
    /\ pc[t] # "pick" => LineTaken(t)
    /\ pc[t] = "debit" => LineBacked(t)

PlansHold == \A t \in Tx : Asked(t) /\ PlanHolds(t)

LotsNotNegative ==
  /\ \A b \in BatchId : lots[b] # NoLot => lots[b].qty >= 0
  /\ \A t \in Tx, b \in BatchId : LotSeen(t, b) # NoLot => LotSeen(t, b).qty >= 0

LotsInv == LotWrites /\ PlansHold /\ LotsNotNegative

(* What a step does to the lots.                                           *)
Writes(t, b, l) == lots' = lots /\ dirty' = [dirty EXCEPT ![t][b] = l]

LEMMA WriteSeen ==
  ASSUME TypeOK, NEW t \in Tx, NEW b \in BatchId, NEW l \in Lot, Writes(t, b, l)
  PROVE  /\ dirty'[t][b] = l /\ LotSeen(t, b)' = l
         /\ \A u \in Tx, c \in BatchId : u # t \/ c # b =>
              dirty'[u][c] = dirty[u][c] /\ LotSeen(u, c)' = LotSeen(u, c)
<1>1. l # NoLot
  OBVIOUS
<1>2. dirty'[t][b] = l
  BY DEF TypeOK, Writes
<1>3. \A u \in Tx, c \in BatchId : u # t \/ c # b => dirty'[u][c] = dirty[u][c]
  BY DEF TypeOK, Writes
<1> QED
  BY <1>1, <1>2, <1>3 DEF LotSeen, Writes

LEMMA QuietLots ==
  ASSUME UNCHANGED <<lots, dirty>>
  PROVE  \A t \in Tx, b \in BatchId : LotSeen(t, b)' = LotSeen(t, b)
BY DEF LotSeen

LEMMA DebitWrites ==
  ASSUME TypeOK, SourcesExist, NEW t \in Tx, Debit(t)
  PROVE  \/ src[t] = NoBatch /\ dirty' = dirty /\ lots' = lots
         \/ /\ src[t] \in BatchId /\ RowFree(t, src[t])
            /\ LotSeen(t, src[t]) \in Lot /\ LotAfterDebit(t) \in Lot
            /\ LotAfterDebit(t).pair = LotSeen(t, src[t]).pair
            /\ LotAfterDebit(t).expiry = LotSeen(t, src[t]).expiry
            /\ LotAfterDebit(t).qty = LotSeen(t, src[t]).qty - amt[t]
            /\ Writes(t, src[t], LotAfterDebit(t))
<1>1. CASE src[t] = NoBatch
  BY <1>1 DEF Debit
<1>2. CASE src[t] # NoBatch
  <2>1. src[t] \in BatchId /\ amt[t] \in Nat
    BY <1>2 DEF TypeOK
  <2>2. LotSeen(t, src[t]) \in Lot
    BY <2>1, LotSeenType DEF SourcesExist
  <2>3. /\ LotAfterDebit(t) \in Lot
        /\ LotAfterDebit(t).pair = LotSeen(t, src[t]).pair
        /\ LotAfterDebit(t).expiry = LotSeen(t, src[t]).expiry
        /\ LotAfterDebit(t).qty = LotSeen(t, src[t]).qty - amt[t]
    BY <2>1, <2>2 DEF LotAfterDebit, Lot
  <2>4. RowFree(t, src[t]) /\ Writes(t, src[t], LotAfterDebit(t))
    BY <1>2 DEF Debit, Writes
  <2> QED
    BY <2>1, <2>2, <2>3, <2>4
<1> QED
  BY <1>1, <1>2

(* The lot that comes in, new or with what it had.                         *)
LEMMA CreditWrites ==
  ASSUME TypeOK, SourcesExist, NEW t \in Tx, Credit(t)
  PROVE  \/ LabelIn(t) = NoLabel /\ dirty' = dirty /\ lots' = lots
         \/ /\ LabelIn(t) # NoLabel
            /\ \E b \in SameNumber(t), l \in Lot :
                 /\ b \in BatchId /\ RowFree(t, b) /\ Writes(t, b, l)
                 /\ LotSeen(t, b) \in Lot /\ At(Target(t), LotSeen(t, b))
                 /\ l.pair = Target(t) /\ l.expiry = LotSeen(t, b).expiry
                 /\ l.qty = LotSeen(t, b).qty + amt[t]
         \/ /\ LabelIn(t) # NoLabel
            /\ \E b \in BatchId, l \in Lot :
                 /\ NewLot(t, b) /\ Writes(t, b, l)
                 /\ l.pair = Target(t) /\ l.qty = amt[t]
<1>1. pc[t] \in Inside /\ amt[t] \in Nat /\ lots' = lots
  BY DEF Credit, Inside, TypeOK
<1>2. Target(t) \in Pair
  BY <1>1, CurrentType
<1>3. CASE LabelIn(t) = NoLabel /\ UNCHANGED dirty
  BY <1>1, <1>3
<1>4. ASSUME LabelIn(t) # NoLabel, NEW b \in SameNumber(t), RowFree(t, b),
             dirty' = [dirty EXCEPT ![t][b] = [LotSeen(t, b) EXCEPT !.qty = @ + amt[t]]]
      PROVE  \E l \in Lot :
                 /\ b \in BatchId /\ RowFree(t, b) /\ Writes(t, b, l)
                 /\ LotSeen(t, b) \in Lot /\ At(Target(t), LotSeen(t, b))
                 /\ l.pair = Target(t) /\ l.expiry = LotSeen(t, b).expiry
                 /\ l.qty = LotSeen(t, b).qty + amt[t]
  <2>1. b \in BatchId /\ At(Target(t), LotSeen(t, b))
    BY DEF SameNumber, LotsAt, At
  <2>2. LotSeen(t, b) \in Lot
    BY <2>1, LotSeenType DEF At
  <2> DEFINE l == [LotSeen(t, b) EXCEPT !.qty = @ + amt[t]]
  <2>3. /\ l \in Lot /\ l.pair = Target(t) /\ l.expiry = LotSeen(t, b).expiry
        /\ l.qty = LotSeen(t, b).qty + amt[t]
    BY <1>1, <2>1, <2>2 DEF Lot, At
  <2>4. Writes(t, b, l)
    BY <1>1, <1>4 DEF Writes
  <2> HIDE DEF l
  <2> QED
    BY <1>4, <2>1, <2>2, <2>3, <2>4
<1>5. ASSUME LabelIn(t) # NoLabel, NEW b \in BatchId, NewLot(t, b),
             dirty' = [dirty EXCEPT ![t][b] =
                         [pair |-> Target(t), number |-> LabelIn(t).number,
                          expiry |-> LabelIn(t).expiry, qty |-> amt[t]]]
      PROVE  \E l \in Lot : Writes(t, b, l) /\ l.pair = Target(t) /\ l.qty = amt[t]
  <2> DEFINE l == [pair |-> Target(t), number |-> LabelIn(t).number,
                   expiry |-> LabelIn(t).expiry, qty |-> amt[t]]
  <2>1. l \in Lot /\ l.pair = Target(t) /\ l.qty = amt[t]
    BY <1>1, <1>2, <1>5, LabelInType DEF Lot
  <2>2. Writes(t, b, l)
    BY <1>1, <1>5 DEF Writes
  <2> HIDE DEF l
  <2> QED
    BY <2>1, <2>2
<1> QED
  BY <1>3, <1>4, <1>5 DEF Credit, CreditLot

(* A write of a lot of a held pair, which no one else has written.         *)
LEMMA WriteKeepsLotWrites ==
  ASSUME BaseInv, LotWrites, NEW t \in Tx, NEW b \in BatchId, NEW l \in Lot,
         Writes(t, b, l), \A u \in Tx \ {t} : dirty[u][b] = NoLot,
         Holds(t, l.pair), owner' = owner,
         LotSeen(t, b) # NoLot =>
           l.pair = LotSeen(t, b).pair /\ l.expiry = LotSeen(t, b).expiry,
         LotSeen(t, b) = NoLot => lots[b] = NoLot
  PROVE  LotWrites'
<1>0. l # NoLot /\ lots' = lots /\ TypeOK
  BY DEF BaseInv, Writes
<1>1. /\ dirty'[t][b] = l /\ l # NoLot /\ lots' = lots
      /\ \A u \in Tx, c \in BatchId : u # t \/ c # b => dirty'[u][c] = dirty[u][c]
  BY <1>0, WriteSeen
<1>2. OneWriter'
  BY <1>1 DEF LotWrites, OneWriter
<1>3. DirtyHeld'
  <2> SUFFICES ASSUME NEW u \in Tx, NEW c \in BatchId, dirty'[u][c] # NoLot
               PROVE  owner[LockKey[dirty'[u][c].pair]] = u
    BY DEF DirtyHeld, Holds
  <2>1. CASE u = t /\ c = b
    BY <1>1, <2>1 DEF Holds
  <2>2. CASE u # t \/ c # b
    BY <1>1, <2>2 DEF LotWrites, DirtyHeld, Holds
  <2> QED
    BY <2>1, <2>2
<1>4. SameLot'
  <2>1. lots[b] # NoLot => l.pair = lots[b].pair /\ l.expiry = lots[b].expiry
    <3>1. CASE dirty[t][b] = NoLot
      BY <3>1 DEF LotSeen
    <3>2. CASE dirty[t][b] # NoLot
      BY <3>2 DEF LotSeen, LotWrites, SameLot
    <3> QED
      BY <3>1, <3>2
  <2>2. ASSUME NEW u \in Tx, NEW c \in BatchId, dirty'[u][c] # NoLot, lots[c] # NoLot
        PROVE  dirty'[u][c].pair = lots[c].pair /\ dirty'[u][c].expiry = lots[c].expiry
    BY <1>1, <2>1, <2>2 DEF LotWrites, SameLot
  <2> QED
    BY <1>1, <2>2 DEF SameLot
<1> QED
  BY <1>2, <1>3, <1>4 DEF LotWrites

(* The source of a line is a lot of the pair it debits.                    *)
LEMMA SourceLot ==
  ASSUME PlansHold, NEW t \in Tx, pc[t] = "debit", src[t] \in BatchId
  PROVE  /\ At(Source(t), LotSeen(t, src[t]))
         /\ LotSeen(t, src[t]).qty >= amt[t]
BY DEF PlansHold, Asked, PlanHolds, Debiting, LineBacked, Has

LEMMA WriteLots ==
  ASSUME BaseInv, LotsInv, NEW t \in Tx, Debit(t) \/ Credit(t)
  PROVE  LotWrites'
<1>1. /\ Source(t) \in Pair /\ Target(t) \in Pair /\ owner' = owner
      /\ Holds(t, Source(t)) /\ Holds(t, Target(t))
  BY WriteInserts DEF BaseInv, WritesUnderLock, LocksCover, Working, Debit, Credit
<1>2. CASE dirty' = dirty /\ lots' = lots
  BY <1>1, <1>2 DEF LotsInv, LotWrites, OneWriter, DirtyHeld, SameLot, Holds
<1>3. CASE Debit(t)
  <2>1. CASE /\ src[t] \in BatchId /\ RowFree(t, src[t])
             /\ LotSeen(t, src[t]) \in Lot /\ LotAfterDebit(t) \in Lot
             /\ LotAfterDebit(t).pair = LotSeen(t, src[t]).pair
             /\ LotAfterDebit(t).expiry = LotSeen(t, src[t]).expiry
             /\ Writes(t, src[t], LotAfterDebit(t))
    <3> DEFINE b == src[t]
               l == LotAfterDebit(t)
    <3>1. At(Source(t), LotSeen(t, b))
      BY <1>3, <2>1, SourceLot DEF LotsInv, Debit
    <3>2. \A u \in Tx \ {t} : dirty[u][b] = NoLot
      BY <2>1 DEF RowFree
    <3>3. Holds(t, l.pair)
      BY <1>1, <2>1, <3>1 DEF At
    <3>4. /\ b \in BatchId /\ l \in Lot /\ Writes(t, b, l) /\ LotSeen(t, b) # NoLot
          /\ l.pair = LotSeen(t, b).pair /\ l.expiry = LotSeen(t, b).expiry
      BY <2>1
    <3> HIDE DEF b, l
    <3> QED
      BY <1>1, <3>2, <3>3, <3>4, WriteKeepsLotWrites DEF LotsInv
  <2> QED
    BY <1>2, <1>3, <2>1, DebitWrites DEF BaseInv
<1>4. CASE Credit(t)
  <2>1. ASSUME NEW b \in BatchId, NEW l \in Lot, RowFree(t, b), Writes(t, b, l),
               At(Target(t), LotSeen(t, b)), l.pair = Target(t),
               l.expiry = LotSeen(t, b).expiry
        PROVE  LotWrites'
    <3>1. \A u \in Tx \ {t} : dirty[u][b] = NoLot
      BY <2>1 DEF RowFree
    <3> QED
      BY <1>1, <2>1, <3>1, WriteKeepsLotWrites DEF LotsInv, At
  <2>2. ASSUME NEW b \in BatchId, NEW l \in Lot, NewLot(t, b), Writes(t, b, l),
               l.pair = Target(t)
        PROVE  LotWrites'
    <3>1. lots[b] = NoLot /\ LotSeen(t, b) = NoLot
            /\ \A u \in Tx \ {t} : dirty[u][b] = NoLot
      BY <2>2 DEF NewLot, LotSeen
    <3> QED
      BY <1>1, <2>2, <3>1, WriteKeepsLotWrites DEF LotsInv
  <2> QED
    BY <1>2, <1>4, <2>1, <2>2, CreditWrites DEF BaseInv
<1> QED
  BY <1>3, <1>4

(* The other transactions keep their lines and their lots.                 *)
LEMMA LineUntouched ==
  ASSUME TypeOK, NEW t \in Tx, Begin(t) \/ Proceed(t) \/ Abort(t), NEW u \in Tx \ {t}
  PROVE  /\ need'[u] = need[u] /\ plan'[u] = plan[u] /\ src'[u] = src[u]
         /\ amt'[u] = amt[u] /\ dirty'[u] = dirty[u]
<1>1. CASE Begin(t) \/ Lock(t)
  BY <1>1 DEF Begin, Lock, shared, line
<1>2. CASE Resolve(t)
  BY <1>2 DEF TypeOK, Resolve, shared
<1>3. CASE Pick(t)
  BY <1>3 DEF TypeOK, Pick, shared
<1>4. CASE Receive(t)
  BY <1>4 DEF TypeOK, Receive, shared
<1>5. CASE Debit(t)
  BY <1>5 DEF TypeOK, Debit, line
<1>6. CASE Credit(t)
  BY <1>6 DEF TypeOK, Credit, CreditLot, line
<1>7. CASE Refuse(t) \/ Commit(t) \/ Abort(t)
  <2>1. PICK o : End(t, o)
    BY <1>7 DEF Refuse, Commit, Abort
  <2> QED
    BY <2>1 DEF TypeOK, End
<1> QED
  BY <1>1, <1>2, <1>3, <1>4, <1>5, <1>6, <1>7 DEF Proceed

LEMMA CommitLots ==
  ASSUME TypeOK, NEW t \in Tx, Commit(t)
  PROVE  \A b \in BatchId :
           /\ lots'[b] = LotSeen(t, b) /\ LotSeen(t, b)' = LotSeen(t, b)
           /\ dirty'[t][b] = NoLot
           /\ \A u \in Tx \ {t} : LotSeen(u, b)' =
                IF dirty[u][b] # NoLot THEN dirty[u][b] ELSE LotSeen(t, b)
<1>1. \A b \in BatchId : lots'[b] = LotSeen(t, b) /\ dirty'[t][b] = NoLot
  BY DEF TypeOK, Commit, End
<1>2. \A u \in Tx \ {t} : dirty'[u] = dirty[u]
  BY LineUntouched DEF Proceed
<1> QED
  BY <1>1, <1>2 DEF LotSeen

LEMMA UndoLots ==
  ASSUME TypeOK, NEW t \in Tx, Refuse(t) \/ Abort(t)
  PROVE  /\ lots' = lots
         /\ \A b \in BatchId :
              /\ LotSeen(t, b)' = lots[b] /\ dirty'[t][b] = NoLot
              /\ \A u \in Tx \ {t} : LotSeen(u, b)' = LotSeen(u, b)
<1>1. lots' = lots /\ \A b \in BatchId : dirty'[t][b] = NoLot
  BY DEF TypeOK, Refuse, Abort, End
<1>2. \A u \in Tx \ {t} : dirty'[u] = dirty[u]
  BY LineUntouched DEF Proceed
<1> QED
  BY <1>1, <1>2 DEF LotSeen

(* In a pair that u has locked no other transaction shows it a lot it did  *)
(* not see, takes one away or changes one.                                 *)
LEMMA HeldLots ==
  ASSUME BaseInv, LotWrites, NEW t \in Tx, Begin(t) \/ Proceed(t) \/ Abort(t),
         NEW u \in Tx \ {t}, NEW p \in Pair, Holds(u, p), NEW b \in BatchId,
         At(p, LotSeen(u, b)) \/ At(p, LotSeen(u, b)')
  PROVE  LotSeen(u, b)' = LotSeen(u, b)
<1>1. dirty'[u] = dirty[u] /\ TypeOK
  BY LineUntouched DEF BaseInv
<1>2. CASE lots' = lots
  BY <1>1, <1>2 DEF LotSeen
<1>3. CASE Commit(t)
  <2>1. dirty[t][b] # NoLot => dirty[t][b].pair # p
    BY OneHolder DEF LotWrites, DirtyHeld
  <2>2. /\ lots'[b] = LotSeen(t, b)
        /\ LotSeen(u, b)' = IF dirty[u][b] # NoLot THEN dirty[u][b] ELSE LotSeen(t, b)
    BY <1>1, <1>3, CommitLots
  <2>3. CASE dirty[u][b] # NoLot
    BY <2>2, <2>3 DEF LotSeen
  <2>4. CASE dirty[u][b] = NoLot /\ dirty[t][b] = NoLot
    BY <2>2, <2>4 DEF LotSeen
  <2>5. CASE dirty[u][b] = NoLot /\ dirty[t][b] # NoLot
    <3>1. LotSeen(u, b) = lots[b] /\ LotSeen(u, b)' = dirty[t][b]
      BY <2>2, <2>5 DEF LotSeen
    <3>2. ~At(p, LotSeen(u, b)')
      BY <2>1, <3>1 DEF At
    <3>3. ~At(p, LotSeen(u, b))
      BY <2>1, <2>5, <3>1 DEF At, LotWrites, SameLot
    <3> QED
      BY <3>2, <3>3
  <2> QED
    BY <2>3, <2>4, <2>5
<1>4. CASE Begin(t) \/ Lock(t) \/ Resolve(t) \/ Pick(t) \/ Receive(t) \/ Debit(t)
           \/ Credit(t) \/ Refuse(t) \/ Abort(t)
  <2>1. lots' = lots
    BY <1>4 DEF Begin, Lock, Resolve, Pick, Receive, Debit, Credit, Refuse, Abort, shared
  <2> QED
    BY <1>2, <2>1
<1> QED
  BY <1>3, <1>4 DEF Proceed

LEMMA EndLotWrites ==
  ASSUME BaseInv, LotWrites, NEW t \in Tx, Refuse(t) \/ Commit(t) \/ Abort(t)
  PROVE  LotWrites'
<1>1. /\ \A b \in BatchId : dirty'[t][b] = NoLot
      /\ \A u \in Tx \ {t} : dirty'[u] = dirty[u]
  BY CommitLots, UndoLots, LineUntouched DEF BaseInv, Proceed
<1>2. \A u \in Tx \ {t}, k \in Key : owner[k] = u => owner'[k] = u
  BY StepUntouched DEF BaseInv, Proceed, Untouched
<1>3. OneWriter'
  BY <1>1 DEF LotWrites, OneWriter
<1>4. DirtyHeld'
  <2> SUFFICES ASSUME NEW u \in Tx, NEW b \in BatchId, dirty'[u][b] # NoLot
               PROVE  owner'[LockKey[dirty'[u][b].pair]] = u
    BY DEF DirtyHeld, Holds
  <2>1. u # t /\ dirty'[u][b] = dirty[u][b]
    BY <1>1
  <2>2. dirty[u][b] \in Lot
    BY <2>1 DEF BaseInv, TypeOK
  <2>3. LockKey[dirty[u][b].pair] \in Key
    BY <2>2 DEF Lot
  <2>4. owner[LockKey[dirty[u][b].pair]] = u
    BY <2>1 DEF LotWrites, DirtyHeld, Holds
  <2> QED
    BY <1>2, <2>1, <2>3, <2>4
<1>5. SameLot'
  <2> SUFFICES ASSUME NEW u \in Tx, NEW b \in BatchId, dirty'[u][b] # NoLot, lots'[b] # NoLot
               PROVE  /\ dirty'[u][b].pair = lots'[b].pair
                      /\ dirty'[u][b].expiry = lots'[b].expiry
    BY DEF SameLot
  <2>1. u # t /\ dirty'[u][b] = dirty[u][b]
    BY <1>1
  <2>2. dirty[t][b] = NoLot
    BY <2>1 DEF LotWrites, OneWriter
  <2>3. lots'[b] = lots[b]
    BY <2>2, CommitLots, UndoLots DEF BaseInv, LotSeen
  <2> QED
    BY <2>1, <2>3 DEF LotWrites, SameLot
<1> QED
  BY <1>3, <1>4, <1>5 DEF LotWrites

LEMMA StepLotWrites ==
  ASSUME BaseInv, LotsInv, NEW t \in Tx, Begin(t) \/ Proceed(t) \/ Abort(t)
  PROVE  LotWrites'
<1>1. CASE Begin(t) \/ Lock(t) \/ Resolve(t) \/ Pick(t) \/ Receive(t)
  <2>1. lots' = lots /\ dirty' = dirty
    BY <1>1 DEF Begin, Lock, Resolve, Pick, Receive, shared
  <2>2. \A u \in Tx, k \in Key : owner[k] = u => owner'[k] = u
    <3>1. \A u \in Tx \ {t}, k \in Key : owner[k] = u => owner'[k] = u
      BY StepUntouched DEF BaseInv, Untouched
    <3>2. \A k \in Key : owner[k] = t => owner'[k] = t
      BY <1>1 DEF Begin, Lock, Resolve, Pick, Receive, shared, BaseInv, TypeOK
    <3> QED
      BY <3>1, <3>2
  <2>3. DirtyHeld'
    <3>1. \A u \in Tx, b \in BatchId : dirty[u][b] # NoLot => LockKey[dirty[u][b].pair] \in Key
      BY DEF BaseInv, TypeOK, Lot
    <3> QED
      BY <2>1, <2>2, <3>1 DEF LotsInv, LotWrites, DirtyHeld, Holds
  <2> QED
    BY <2>1, <2>3 DEF LotsInv, LotWrites, OneWriter, SameLot
<1>2. CASE Debit(t) \/ Credit(t)
  BY <1>2, WriteLots
<1>3. CASE Refuse(t) \/ Commit(t) \/ Abort(t)
  BY <1>3, EndLotWrites DEF LotsInv
<1> QED
  BY <1>1, <1>2, <1>3 DEF Proceed

(* An item's offer rests on lots of a pair that is locked.                 *)
LEMMA OthersPlans ==
  ASSUME BaseInv, LotsInv, NEW t \in Tx, Begin(t) \/ Proceed(t) \/ Abort(t),
         NEW u \in Tx \ {t}
  PROVE  Asked(u)' /\ PlanHolds(u)'
<1>1. /\ pc'[u] = pc[u] /\ req'[u] = req[u] /\ todo'[u] = todo[u]
      /\ need'[u] = need[u] /\ plan'[u] = plan[u] /\ src'[u] = src[u] /\ amt'[u] = amt[u]
  BY StepUntouched, LineUntouched DEF Untouched, BaseInv
<1>2. /\ Current(u)' = Current(u) /\ Source(u)' = Source(u)
      /\ Debits(u)' = Debits(u) /\ Credits(u)' = Credits(u)
      /\ UsesFefo(u)' = UsesFefo(u)
  BY <1>1 DEF Current, Source, Debits, Credits, UsesFefo
<1>3. Asked(u) /\ PlanHolds(u)
  BY DEF LotsInv, PlansHold
<1>4. Asked(u)'
  BY <1>1, <1>2, <1>3 DEF Asked
<1>5. PlanHolds(u)'
  <2> SUFFICES ASSUME pc[u] \in Debiting, Debits(u) PROVE PlanHolds(u)'
    BY <1>1, <1>2 DEF PlanHolds
  <2>1. Source(u) \in Pair /\ Holds(u, Source(u))
    BY CurrentType DEF BaseInv, WritesUnderLock, LocksCover, Debiting, Working, Inside
  <2>2. \A b \in BatchId : At(Source(u), LotSeen(u, b)) => LotSeen(u, b)' = LotSeen(u, b)
    BY <2>1, HeldLots DEF LotsInv
  <2>3. ASSUME NEW b \in BatchId, NEW n, Has(u, b, n)
        PROVE  At(Source(u), LotSeen(u, b)') /\ LotSeen(u, b)'.qty >= n
    BY <2>2, <2>3 DEF Has
  <2>4. OfferBacked(u) /\ (pc[u] = "pick" => OfferEnough(u))
          /\ (pc[u] # "pick" => LineTaken(u)) /\ (pc[u] = "debit" => LineBacked(u))
    BY <1>3 DEF PlanHolds
  <2>5. OfferBacked(u)'
    BY <1>1, <1>2, <2>3, <2>4 DEF OfferBacked, Has
  <2>6. pc[u] = "pick" => OfferEnough(u)'
    BY <1>1, <1>2, <2>4 DEF OfferEnough
  <2>7. pc[u] # "pick" => LineTaken(u)'
    BY <1>1, <1>2, <2>4 DEF LineTaken
  <2>8. pc[u] = "debit" => LineBacked(u)'
    BY <1>1, <1>2, <2>3, <2>4 DEF LineBacked, Has
  <2> QED
    BY <1>1, <1>2, <2>5, <2>6, <2>7, <2>8 DEF PlanHolds
<1> QED
  BY <1>4, <1>5

LEMMA OnlyAt ==
  ASSUME NEW s \in Sources, NEW n, NEW x \in Sources
  PROVE  Only(s, n)[x] = IF x = s THEN n ELSE 0
BY DEF Only, Sources

(* An accepted offer of a lot that was named, or of the whole balance.     *)
LEMMA OfferOfOne ==
  ASSUME TypeOK, NEW t \in Tx, pc[t] \in Inside, NEW o \in Offers(t), Covers(t, o),
         ~UsesFefo(t), NamesOwnLot
  PROVE  \E s \in Sources, n \in Int :
           /\ o = Only(s, n) /\ n >= Current(t).qty
           /\ s \in BatchId => At(Source(t), LotSeen(t, s)) /\ LotSeen(t, s).qty = n
           /\ s = NoBatch => ~Current(t).manual /\ Current(t).product \notin Perishable
                               /\ n \in CurrentStock(View(t, Source(t)))
<1>1. Current(t).qty \in Nat /\ Current(t).qty > 0
  BY CurrentType, ItemFields
<1>2. PICK x \in Sources : o[x] >= Current(t).qty
  BY DEF Covers, Sources
<1>3. NoBatch \in Sources /\ 0 \in Int /\ NoBatch \notin BatchId
  BY DEF Sources
<1>4. CASE Current(t).manual
  <2>1. o # Only(NoBatch, 0)
    BY <1>1, <1>2, <1>3, OnlyAt
  <2>2. PICK b \in LotsAt(t, Source(t)) : o = Only(b, LotSeen(t, b).qty)
    BY <1>4, <2>1 DEF Offers, Nameable
  <2>3. b \in BatchId /\ b \in Sources /\ At(Source(t), LotSeen(t, b))
    BY DEF LotsAt, At, Sources
  <2>4. LotSeen(t, b).qty \in Int
    BY <2>3, LotSeenType DEF At, Lot
  <2>5. LotSeen(t, b).qty >= Current(t).qty
    <3> DEFINE n == LotSeen(t, b).qty
    <3>1. o[x] = IF x = b THEN n ELSE 0
      BY <2>2, <2>3, OnlyAt
    <3> HIDE DEF n
    <3>2. n >= Current(t).qty
      BY <1>1, <1>2, <3>1
    <3> QED
      BY <3>2 DEF n
  <2> QED
    BY <1>3, <2>2, <2>3, <2>4, <2>5
<1>5. CASE ~Current(t).manual
  <2>1. Current(t).product \notin Perishable
    BY <1>5 DEF UsesFefo
  <2>2. PICK c \in CurrentStock(View(t, Source(t))) : o = Only(NoBatch, c)
    BY <1>5 DEF Offers
  <2>3. c \in Int
    BY CurrentType, ViewType, CurrentStockType
  <2>4. o[x] = IF x = NoBatch THEN c ELSE 0
    BY <1>3, <2>2, OnlyAt
  <2>5. c >= Current(t).qty
    BY <1>1, <1>2, <2>4
  <2> QED
    BY <1>3, <1>5, <2>1, <2>2, <2>3, <2>5
<1> QED
  BY <1>4, <1>5

(* What suggestFefoBatches is given.                                       *)
LEMMA OfferOfLots ==
  ASSUME TypeOK, NEW t \in Tx, NEW o \in Offers(t), UsesFefo(t)
  PROVE  /\ o[NoBatch] = 0
         /\ \A b \in BatchId :
              /\ o[b] = IF At(Source(t), LotSeen(t, b)) /\ LotSeen(t, b).qty > 0
                        THEN LotSeen(t, b).qty ELSE 0
              /\ o[b] \in Nat
<1>1. o = [x \in Sources |-> IF x \in LotsAt(t, Source(t)) /\ LotSeen(t, x).qty > 0
                             THEN LotSeen(t, x).qty ELSE 0]
  BY DEF Offers, UsesFefo, Sources
<1>2. NoBatch \notin BatchId /\ LotsAt(t, Source(t)) \subseteq BatchId
  BY DEF LotsAt
<1>3. \A b \in BatchId : b \in LotsAt(t, Source(t)) <=> At(Source(t), LotSeen(t, b))
  BY DEF LotsAt, At
<1>4. o[NoBatch] = 0
  BY <1>1, <1>2 DEF Sources
<1>5. \A b \in BatchId : o[b] = IF At(Source(t), LotSeen(t, b)) /\ LotSeen(t, b).qty > 0
                                THEN LotSeen(t, b).qty ELSE 0
  BY <1>1, <1>3 DEF Sources
<1>6. \A b \in BatchId : At(Source(t), LotSeen(t, b)) => LotSeen(t, b).qty \in Int
  BY LotSeenType DEF At, Lot
<1> QED
  BY <1>4, <1>5, <1>6

LEMMA ResolvePlan ==
  ASSUME BaseInv, LotsInv, NamesOwnLot, NEW t \in Tx, Resolve(t)
  PROVE  Asked(t)' /\ PlanHolds(t)'
<1>1. PICK o \in Offers(t) : Covers(t, o) /\ plan' = [plan EXCEPT ![t] = o]
  BY DEF Resolve
<1>2. /\ pc[t] = "resolve" /\ pc'[t] = "pick" /\ need'[t] = Current(t).qty
      /\ plan'[t] = o /\ req' = req /\ todo' = todo
      /\ lots' = lots /\ dirty' = dirty
  BY <1>1 DEF BaseInv, TypeOK, Resolve, shared
<1>3. /\ Current(t)' = Current(t) /\ Source(t)' = Source(t) /\ Debits(t)' = Debits(t)
      /\ UsesFefo(t)' = UsesFefo(t) /\ \A b \in BatchId : LotSeen(t, b)' = LotSeen(t, b)
  BY <1>2, QuietLots DEF Current, Source, Debits, UsesFefo
<1>4. pc[t] \in Inside /\ TypeOK /\ NoBatch \notin BatchId
  BY <1>2 DEF Inside, BaseInv
<1>5. Asked(t)'
  BY <1>2, <1>3 DEF LotsInv, PlansHold, Asked, Debiting
<1>6. OfferBacked(t)' /\ OfferEnough(t)'
  <2>1. CASE UsesFefo(t)
    <3>1. /\ o[NoBatch] = 0
          /\ \A b \in BatchId :
              /\ o[b] = IF At(Source(t), LotSeen(t, b)) /\ LotSeen(t, b).qty > 0
                        THEN LotSeen(t, b).qty ELSE 0
              /\ o[b] \in Nat
      BY <1>4, <2>1, OfferOfLots
    <3> QED
      BY <1>2, <1>3, <2>1, <3>1 DEF OfferBacked, OfferEnough, Has
  <2>2. CASE ~UsesFefo(t)
    <3>1. PICK s \in Sources, n \in Int :
           /\ o = Only(s, n) /\ n >= Current(t).qty
           /\ s \in BatchId => At(Source(t), LotSeen(t, s)) /\ LotSeen(t, s).qty = n
           /\ s = NoBatch => ~Current(t).manual /\ Current(t).product \notin Perishable
      BY <1>1, <1>4, <2>2, OfferOfOne
    <3>2. \A x \in Sources : o[x] = IF x = s THEN n ELSE 0
      BY <3>1, OnlyAt
    <3>3. OfferBacked(t)'
      <4>1. \A b \in BatchId : o[b] > 0 => b = s /\ o[b] = n
        BY <3>2 DEF Sources
      <4>2. o[NoBatch] > 0 => s = NoBatch
        BY <3>2 DEF Sources
      <4> QED
        BY <1>2, <1>3, <2>2, <3>1, <4>1, <4>2 DEF OfferBacked, Has
    <3>4. OfferEnough(t)'
      BY <1>2, <1>3, <3>1, <3>2 DEF OfferEnough
    <3> QED
      BY <3>3, <3>4
  <2> QED
    BY <2>1, <2>2
<1> QED
  BY <1>2, <1>5, <1>6 DEF PlanHolds

LEMMA PickFacts ==
  ASSUME TypeOK, NEW t \in Tx, Pick(t)
  PROVE  \E s \in Sources :
           /\ ExpiresFirst(t, s) /\ src'[t] = s /\ amt'[t] = Take(t, s)
           /\ need'[t] = need[t] - Take(t, s) /\ plan'[t][s] = 0
           /\ \A x \in Sources : x # s => plan'[t][x] = plan[t][x]
           /\ pc[t] = "pick" /\ pc'[t] = "debit" /\ req' = req /\ todo' = todo
           /\ UNCHANGED <<rows, lots, mine, dirty>>
<1>1. PICK s \in Sources :
        /\ ExpiresFirst(t, s)
        /\ src' = [src EXCEPT ![t] = s]
        /\ amt' = [amt EXCEPT ![t] = Take(t, s)]
        /\ need' = [need EXCEPT ![t] = @ - Take(t, s)]
        /\ plan' = [plan EXCEPT ![t][s] = 0]
  BY DEF Pick, Sources
<1>2. plan \in [Tx -> [Sources -> Int]]
  BY DEF TypeOK, Sources
<1>3. plan'[t][s] = 0 /\ \A x \in Sources : x # s => plan'[t][x] = plan[t][x]
  BY <1>1, <1>2
<1>4. src'[t] = s /\ amt'[t] = Take(t, s) /\ need'[t] = need[t] - Take(t, s)
  BY <1>1 DEF TypeOK
<1>5. /\ pc[t] = "pick" /\ pc'[t] = "debit" /\ req' = req /\ todo' = todo
      /\ UNCHANGED <<rows, lots, mine, dirty>>
  BY DEF TypeOK, Pick, shared
<1> QED
  BY <1>1, <1>3, <1>4, <1>5

LEMMA LineDoneFacts ==
  ASSUME TypeOK, NEW t \in Tx, LineDone(t)
  PROVE  \/ need[t] > 0 /\ pc'[t] = "pick" /\ todo'[t] = todo[t]
         \/ /\ need[t] = 0 /\ todo'[t] = Tail(todo[t])
            /\ pc'[t] = IF Tail(todo[t]) = <<>> THEN "commit" ELSE "lock"
BY DEF TypeOK, LineDone

LEMMA SameItem ==
  ASSUME NEW t \in Tx, req'[t] = req[t], todo'[t] = todo[t]
  PROVE  /\ Current(t)' = Current(t) /\ Source(t)' = Source(t) /\ Target(t)' = Target(t)
         /\ Debits(t)' = Debits(t) /\ Credits(t)' = Credits(t)
         /\ UsesFefo(t)' = UsesFefo(t)
BY DEF Current, Source, Target, Debits, Credits, UsesFefo

LEMMA PickPlan ==
  ASSUME BaseInv, LotsInv, NEW t \in Tx, Pick(t)
  PROVE  Asked(t)' /\ PlanHolds(t)'
<1>1. PICK s \in Sources :
           /\ ExpiresFirst(t, s) /\ src'[t] = s /\ amt'[t] = Take(t, s)
           /\ need'[t] = need[t] - Take(t, s) /\ plan'[t][s] = 0
           /\ \A x \in Sources : x # s => plan'[t][x] = plan[t][x]
           /\ pc[t] = "pick" /\ pc'[t] = "debit" /\ req' = req /\ todo' = todo
           /\ UNCHANGED <<rows, lots, mine, dirty>>
  BY PickFacts DEF BaseInv
<1>2. /\ Current(t)' = Current(t) /\ Source(t)' = Source(t) /\ Debits(t)' = Debits(t)
      /\ UsesFefo(t)' = UsesFefo(t) /\ \A b \in BatchId : LotSeen(t, b)' = LotSeen(t, b)
  BY <1>1, SameItem, QuietLots
<1>3. Asked(t) /\ Debits(t) /\ OfferBacked(t) /\ OfferEnough(t)
  BY <1>1 DEF LotsInv, PlansHold, Asked, PlanHolds, Debiting
<1>4. plan[t][s] > 0 /\ plan[t] \in [Sources -> Int] /\ need[t] \in Nat
  BY <1>1 DEF ExpiresFirst, BaseInv, TypeOK, Sources
<1>5. Asked(t)'
  BY <1>1, <1>2, <1>3 DEF Asked, Debiting
<1>6. OfferBacked(t)'
  <2>1. \A x \in Sources : plan'[t][x] = plan[t][x] \/ plan'[t][x] = 0
    BY <1>1
  <2>2. BatchId \subseteq Sources /\ NoBatch \in Sources
    BY DEF Sources
  <2> QED
    BY <1>2, <1>3, <2>1, <2>2 DEF OfferBacked, Has
<1>7. LineTaken(t)'
  <2>1. ~UsesFefo(t) => Take(t, s) = need[t]
    BY DEF Take
  <2>2. s = NoBatch => ~Current(t).manual /\ Current(t).product \notin Perishable
    BY <1>3, <1>4 DEF OfferBacked
  <2> QED
    BY <1>1, <1>2, <1>4, <2>1, <2>2 DEF LineTaken, Sources
<1>8. LineBacked(t)'
  <2>1. s \in BatchId => Has(t, s, plan[t][s])
    BY <1>3, <1>4 DEF OfferBacked
  <2>2. Take(t, s) <= plan[t][s]
    BY <1>3, <1>4 DEF Take, OfferEnough
  <2>3. s \in BatchId => LotSeen(t, s).qty \in Int /\ At(Source(t), LotSeen(t, s))
    BY <2>1, LotSeenType DEF Has, At, Lot, BaseInv
  <2>4. Take(t, s) \in Int
    BY <1>4 DEF Take
  <2>5. s \in BatchId => LotSeen(t, s).qty >= Take(t, s)
    BY <1>4, <2>1, <2>2, <2>3, <2>4 DEF Has
  <2> QED
    BY <1>1, <1>2, <2>3, <2>5 DEF LineBacked, Has
<1> QED
  BY <1>1, <1>5, <1>6, <1>7, <1>8 DEF PlanHolds

(* A write keeps what the rest of the item's offer stands on: a debit's    *)
(* source is used up, a transfer's target is another pair.                 *)
LEMMA WriteOffer ==
  ASSUME BaseInv, NEW t \in Tx, OfferBacked(t), LineTaken(t),
         plan' = plan, src' = src, need' = need, req' = req, todo'[t] = todo[t],
         \A b \in BatchId : plan[t][b] > 0 => LotSeen(t, b)' = LotSeen(t, b)
  PROVE  OfferBacked(t)' /\ LineTaken(t)' /\ (need[t] > 0 => OfferEnough(t)')
<1>1. /\ Current(t)' = Current(t) /\ Source(t)' = Source(t) /\ Debits(t)' = Debits(t)
      /\ UsesFefo(t)' = UsesFefo(t)
  BY SameItem
<1>2. OfferBacked(t)'
  BY <1>1 DEF OfferBacked, Has
<1>3. LineTaken(t)'
  BY <1>1 DEF LineTaken
<1>4. need[t] > 0 => OfferEnough(t)'
  BY <1>1 DEF OfferEnough, LineTaken
<1> QED
  BY <1>2, <1>3, <1>4

LEMMA DebitPlan ==
  ASSUME BaseInv, LotsInv, NEW t \in Tx, Debit(t)
  PROVE  Asked(t)' /\ PlanHolds(t)'
<1>1. /\ pc[t] = "debit" /\ plan' = plan /\ src' = src /\ need' = need /\ req' = req
      /\ TypeOK /\ SourcesExist
  BY DEF Debit, line, BaseInv
<1>2. Asked(t) /\ Debits(t) /\ OfferBacked(t) /\ LineTaken(t) /\ LineBacked(t)
  BY <1>1 DEF LotsInv, PlansHold, Asked, PlanHolds, Debiting
<1>3. \A b \in BatchId : plan[t][b] > 0 => LotSeen(t, b)' = LotSeen(t, b)
  <2>1. \A b \in BatchId : plan[t][b] > 0 => b # src[t]
    BY <1>2 DEF LineBacked
  <2>2. CASE dirty' = dirty /\ lots' = lots
    BY <2>2, QuietLots
  <2>3. CASE src[t] \in BatchId /\ LotAfterDebit(t) \in Lot
             /\ Writes(t, src[t], LotAfterDebit(t))
    BY <1>1, <2>1, <2>3, WriteSeen
  <2> QED
    BY <1>1, <2>2, <2>3, DebitWrites
<1>4. Debits(t)' = Debits(t) /\ Credits(t)' = Credits(t)
  BY <1>1 DEF Debits, Credits
<1>5. CASE pc'[t] = "receive" /\ todo'[t] = todo[t] /\ Credits(t)
  <2>1. Asked(t)'
    BY <1>1, <1>2, <1>4, <1>5 DEF Asked, Debiting
  <2>2. OfferBacked(t)' /\ LineTaken(t)'
    BY <1>1, <1>2, <1>3, <1>5, WriteOffer
  <2> QED
    BY <1>5, <2>1, <2>2 DEF PlanHolds
<1>6. CASE need[t] > 0 /\ pc'[t] = "pick" /\ todo'[t] = todo[t]
  <2>1. Asked(t)'
    BY <1>1, <1>2, <1>4, <1>6 DEF Asked, Debiting
  <2>2. OfferBacked(t)' /\ OfferEnough(t)'
    BY <1>1, <1>2, <1>3, <1>6, WriteOffer
  <2> QED
    BY <1>6, <2>1, <2>2 DEF PlanHolds
<1>7. CASE need[t] = 0 /\ pc'[t] \in {"commit", "lock"}
  BY <1>1, <1>2, <1>7 DEF Asked, PlanHolds, Debiting
<1>8. \/ pc'[t] = "receive" /\ todo'[t] = todo[t] /\ Credits(t)
      \/ LineDone(t)
  BY DEF Debit, BaseInv, TypeOK
<1> QED
  BY <1>1, <1>5, <1>6, <1>7, <1>8, LineDoneFacts

LEMMA CreditPlan ==
  ASSUME BaseInv, LotsInv, NEW t \in Tx, Credit(t)
  PROVE  Asked(t)' /\ PlanHolds(t)'
<1>1. /\ pc[t] = "credit" /\ plan' = plan /\ src' = src /\ need' = need /\ req' = req
      /\ TypeOK /\ SourcesExist /\ LineDone(t)
  BY DEF Credit, line, BaseInv
<1>2. Asked(t) /\ PlanHolds(t)
  BY DEF LotsInv, PlansHold
<1>3. Debits(t)' = Debits(t) /\ Credits(t)' = Credits(t)
  BY <1>1 DEF Debits, Credits
<1>4. CASE need[t] = 0 /\ pc'[t] \in {"commit", "lock"}
  BY <1>1, <1>2, <1>4 DEF Asked, PlanHolds, Debiting
<1>5. CASE need[t] > 0 /\ pc'[t] = "pick" /\ todo'[t] = todo[t]
  <2>1. Debits(t) /\ OfferBacked(t) /\ LineTaken(t)
    BY <1>1, <1>2, <1>5 DEF Asked, PlanHolds, Debiting
  <2>2. Source(t) # Target(t)
    <3>1. req[t].kind = "transfer" /\ Valid(req[t])
      <4>1. Valid(req[t]) /\ ~(need[t] = 0)
        BY <1>1, <1>2, <1>5 DEF Asked
      <4>2. Credits(t)
        BY <1>1, <1>2 DEF Asked
      <4> QED
        BY <2>1, <4>1, <4>2 DEF Debits, Credits
    <3> QED
      BY <3>1 DEF Valid, Source, Target
  <2>3. \A b \in BatchId : plan[t][b] > 0 => LotSeen(t, b)' = LotSeen(t, b)
    <3>1. \A b \in BatchId : plan[t][b] > 0 => At(Source(t), LotSeen(t, b))
      BY <2>1 DEF OfferBacked, Has
    <3>2. CASE dirty' = dirty /\ lots' = lots
      BY <3>2, QuietLots
    <3>3. ASSUME NEW c \in BatchId, NEW l \in Lot, Writes(t, c, l),
                 ~At(Source(t), LotSeen(t, c))
          PROVE  \A b \in BatchId : plan[t][b] > 0 => LotSeen(t, b)' = LotSeen(t, b)
      BY <1>1, <3>1, <3>3, WriteSeen
    <3>4. \A c \in BatchId : At(Target(t), LotSeen(t, c)) => ~At(Source(t), LotSeen(t, c))
      BY <2>2 DEF At
    <3>5. \A c \in BatchId : NewLot(t, c) => ~At(Source(t), LotSeen(t, c))
      BY DEF NewLot, LotSeen, At
    <3> QED
      BY <1>1, <3>2, <3>3, <3>4, <3>5, CreditWrites
  <2>4. OfferBacked(t)' /\ OfferEnough(t)'
    BY <1>1, <1>5, <2>1, <2>3, WriteOffer
  <2>5. Asked(t)'
    BY <1>1, <1>2, <1>3, <1>5, <2>1 DEF Asked, Debiting
  <2> QED
    BY <1>5, <2>4, <2>5 DEF PlanHolds
<1> QED
  BY <1>1, <1>4, <1>5, LineDoneFacts

LEMMA QuietPlan ==
  ASSUME BaseInv, LotsInv, NEW t \in Tx, Begin(t) \/ Lock(t) \/ Receive(t)
  PROVE  Asked(t)' /\ PlanHolds(t)'
<1>0. TypeOK /\ Asked(t) /\ PlanHolds(t)
  BY DEF BaseInv, LotsInv, PlansHold
<1>1. CASE Begin(t)
  <2>1. pc[t] = "idle" /\ pc'[t] = "lock" /\ need' = need /\ Valid(req'[t])
    <3>1. PICK r \in Requests : Valid(r) /\ req' = [req EXCEPT ![t] = r]
      BY <1>1 DEF Begin
    <3>2. req'[t] = r
      BY <1>0, <3>1 DEF TypeOK
    <3> QED
      BY <1>0, <1>1, <3>1, <3>2 DEF Begin, TypeOK, line
  <2>2. Valid(req[t])'
    BY <2>1 DEF Valid
  <2>3. need[t] = 0
    BY <1>0, <2>1 DEF Asked, Debiting
  <2> QED
    BY <2>1, <2>2, <2>3 DEF Asked, PlanHolds, Debiting
<1>2. CASE Lock(t)
  <2>1. /\ pc[t] = "lock" /\ need' = need /\ req' = req
        /\ \/ pc'[t] = "lock"
           \/ pc'[t] = "resolve" /\ Debits(t)
           \/ pc'[t] = "receive" /\ ~Debits(t)
    BY <1>0, <1>2 DEF Lock, line, TypeOK
  <2>2. need[t] = 0 /\ Valid(req[t]) /\ Debits(t)' = Debits(t) /\ Credits(t)' = Credits(t)
    BY <1>0, <2>1 DEF Asked, Debiting, Debits, Credits
  <2>3. ~Debits(t) => Credits(t)
    <3>1. req[t].kind \in Kind
      BY <1>0, RequestFields DEF TypeOK
    <3> QED
      BY <3>1 DEF Kind, Debits, Credits
  <2> QED
    BY <2>1, <2>2, <2>3 DEF Asked, PlanHolds, Debiting
<1>3. CASE Receive(t)
  <2>1. /\ pc[t] = "receive" /\ pc'[t] = "credit" /\ need' = need /\ req' = req
        /\ todo' = todo /\ plan' = plan /\ src' = src /\ lots' = lots /\ dirty' = dirty
    BY <1>0, <1>3 DEF Receive, shared, TypeOK
  <2>2. /\ Current(t)' = Current(t) /\ Source(t)' = Source(t) /\ Debits(t)' = Debits(t)
        /\ Credits(t)' = Credits(t)
        /\ UsesFefo(t)' = UsesFefo(t) /\ \A b \in BatchId : LotSeen(t, b)' = LotSeen(t, b)
    BY <2>1, SameItem, QuietLots
  <2>3. Asked(t)'
    BY <1>0, <2>1, <2>2 DEF Asked, Debiting
  <2>4. Debits(t) => OfferBacked(t)' /\ LineTaken(t)'
    BY <1>0, <2>1, <2>2 DEF PlanHolds, Debiting, OfferBacked, LineTaken, Has
  <2> QED
    BY <2>1, <2>2, <2>3, <2>4 DEF PlanHolds
<1> QED
  BY <1>1, <1>2, <1>3

LEMMA EndPlan ==
  ASSUME BaseInv, LotsInv, NEW t \in Tx, Refuse(t) \/ Commit(t) \/ Abort(t)
  PROVE  Asked(t)' /\ PlanHolds(t)'
<1>1. pc'[t] \in {"refused", "failed", "done"} /\ need'[t] = 0 /\ req' = req
  BY DEF BaseInv, TypeOK, Refuse, Commit, Abort, End
<1>2. pc[t] # "idle"
  BY DEF Refuse, Commit, Abort
<1>3. Valid(req[t])
  BY <1>2 DEF LotsInv, PlansHold, Asked
<1> QED
  BY <1>1, <1>3 DEF Asked, PlanHolds, Debiting

LEMMA StepPlans ==
  ASSUME NamesOwnLot, BaseInv, LotsInv, NEW t \in Tx, Begin(t) \/ Proceed(t) \/ Abort(t)
  PROVE  PlansHold'
<1>1. Asked(t)' /\ PlanHolds(t)'
  BY QuietPlan, ResolvePlan, PickPlan, DebitPlan, CreditPlan, EndPlan DEF Proceed
<1> QED
  BY <1>1, OthersPlans DEF PlansHold

LEMMA StepNotNegative ==
  ASSUME BaseInv, LotsInv, NEW t \in Tx, Begin(t) \/ Proceed(t) \/ Abort(t)
  PROVE  LotsNotNegative'
<1>0. TypeOK /\ SourcesExist /\ LotsNotNegative /\ amt[t] \in Nat
  BY DEF BaseInv, LotsInv, TypeOK
<1>1. CASE UNCHANGED <<lots, dirty>>
  BY <1>0, <1>1, QuietLots DEF LotsNotNegative
<1>2. ASSUME NEW b \in BatchId, NEW l \in Lot, Writes(t, b, l), l.qty >= 0
      PROVE  LotsNotNegative'
  <2>1. lots' = lots
    BY <1>2 DEF Writes
  <2>2. LotSeen(t, b)' = l /\ \A u \in Tx, c \in BatchId :
          u # t \/ c # b => LotSeen(u, c)' = LotSeen(u, c)
    BY <1>0, <1>2, WriteSeen
  <2>3. ASSUME NEW u \in Tx, NEW c \in BatchId, LotSeen(u, c)' # NoLot
        PROVE  LotSeen(u, c)'.qty >= 0
    <3>1. CASE u = t /\ c = b
      BY <1>2, <2>2, <3>1
    <3>2. CASE u # t \/ c # b
      BY <1>0, <2>2, <2>3, <3>2 DEF LotsNotNegative
    <3> QED
      BY <3>1, <3>2
  <2> QED
    BY <1>0, <2>1, <2>3 DEF LotsNotNegative
<1>3. CASE Begin(t) \/ Lock(t) \/ Resolve(t) \/ Pick(t) \/ Receive(t)
  BY <1>1, <1>3 DEF Begin, Lock, Resolve, Pick, Receive, shared
<1>4. CASE Debit(t)
  <2>1. src[t] \in BatchId => LotSeen(t, src[t]).qty >= amt[t]
    BY <1>4, SourceLot DEF LotsInv, Debit
  <2>2. CASE /\ src[t] \in BatchId /\ LotSeen(t, src[t]) \in Lot /\ LotAfterDebit(t) \in Lot
             /\ LotAfterDebit(t).qty = LotSeen(t, src[t]).qty - amt[t]
             /\ Writes(t, src[t], LotAfterDebit(t))
    <3>1. LotSeen(t, src[t]).qty \in Int
      BY <2>2 DEF Lot
    <3>2. LotAfterDebit(t).qty >= 0
      BY <1>0, <2>1, <2>2, <3>1
    <3> QED
      BY <1>2, <2>2, <3>2
  <2> QED
    BY <1>0, <1>1, <1>4, <2>2, DebitWrites
<1>5. CASE Credit(t)
  <2>1. ASSUME NEW b \in BatchId, NEW l \in Lot, Writes(t, b, l),
               LotSeen(t, b) \in Lot, l.qty = LotSeen(t, b).qty + amt[t]
        PROVE  LotsNotNegative'
    <3>1. LotSeen(t, b).qty \in Int /\ LotSeen(t, b).qty >= 0
      BY <1>0, <2>1 DEF Lot, LotsNotNegative
    <3>2. l.qty >= 0
      BY <1>0, <2>1, <3>1
    <3> QED
      BY <1>2, <2>1, <3>2
  <2>2. ASSUME NEW b \in BatchId, NEW l \in Lot, Writes(t, b, l), l.qty = amt[t]
        PROVE  LotsNotNegative'
    BY <1>0, <1>2, <2>2
  <2> QED
    BY <1>0, <1>1, <1>5, <2>1, <2>2, CreditWrites
<1>6. CASE Commit(t)
  BY <1>0, <1>6, CommitLots DEF LotsNotNegative, LotSeen
<1>7. CASE Refuse(t) \/ Abort(t)
  BY <1>0, <1>7, UndoLots DEF LotsNotNegative
<1> QED
  BY <1>3, <1>4, <1>5, <1>6, <1>7 DEF Proceed

LEMMA InitLots == Init => LotsInv
<1> SUFFICES ASSUME Init PROVE LotsInv
  OBVIOUS
<1>1. \A b \in BatchId : lots[b] = NoLot /\ \A t \in Tx : dirty[t][b] = NoLot
                          /\ LotSeen(t, b) = NoLot
  BY DEF Init, LotSeen
<1>2. \A t \in Tx : pc[t] = "idle" /\ need[t] = 0
  BY DEF Init
<1>3. PlansHold
  BY <1>2 DEF PlansHold, Asked, PlanHolds, Debiting
<1> QED
  BY <1>1, <1>3 DEF LotsInv, LotWrites, OneWriter, DirtyHeld, SameLot, LotsNotNegative

LEMMA StutterLots ==
  ASSUME LotsInv, UNCHANGED vars
  PROVE  LotsInv'
<1>1. LotWrites' /\ LotsNotNegative'
  BY DEF vars, LotsInv, LotWrites, OneWriter, DirtyHeld, SameLot, LotsNotNegative, Holds, LotSeen
<1>2. PlansHold'
  BY DEF vars, LotsInv, PlansHold, Asked, PlanHolds, Debits, Credits, OfferBacked,
         OfferEnough, LineTaken, LineBacked, UsesFefo, Has, Source, Current, LotSeen
<1> QED
  BY <1>1, <1>2 DEF LotsInv

LEMMA StepLots ==
  ASSUME NamesOwnLot, BaseInv, LotsInv, NEW t \in Tx, Begin(t) \/ Proceed(t) \/ Abort(t)
  PROVE  LotsInv'
BY StepLotWrites, StepPlans, StepNotNegative DEF LotsInv

LEMMA LotsInductive ==
  ASSUME NamesOwnLot
  PROVE  Spec => [](BaseInv /\ LotsInv)
<1>1. BaseInv /\ LotsInv /\ [Next]_vars => (BaseInv /\ LotsInv)'
  BY StepBase, StutterBase, StepLots, StutterLots DEF Next
<1> QED
  BY <1>1, InitBase, InitLots, PTL DEF Spec

(* If operators name only lots of the product and store of their line, no  *)
(* lot goes below zero, committed or not, though an exit reads what its    *)
(* lots hold once and takes from them line by line afterwards.             *)
THEOREM LotsStayAboveZero ==
  ASSUME NamesOwnLot
  PROVE  Spec => []LotsNotNegative
<1>1. LotsInv => LotsNotNegative
  BY DEF LotsInv
<1> QED
  BY <1>1, LotsInductive, PTL

--------------------------------------------------------------------------------
(* The two books of a perishable product.                                  *)

LEMMA TailFacts ==
  ASSUME NEW s \in Seq(Item), s # <<>>
  PROVE  /\ Len(s) \in Nat /\ Len(s) > 0 /\ Tail(s) \in Seq(Item)
         /\ Len(Tail(s)) \in Nat /\ Len(Tail(s)) = Len(s) - 1
         /\ \A n \in 1 .. Len(Tail(s)) : Tail(s)[n] = s[n + 1] /\ n + 1 \in 1 .. Len(s)
<1>1. Len(s) \in Nat /\ Len(s) > 0
  OBVIOUS
<1>2. Len(Tail(s)) = Len(s) - 1 /\ Tail(s) \in Seq(Item)
  OBVIOUS
<1>3. \A n \in 1 .. Len(Tail(s)) : Tail(s)[n] = s[n + 1]
  BY <1>1, <1>2
<1>4. \A n \in 1 .. Len(Tail(s)) : n + 1 \in 1 .. Len(s)
  BY <1>1, <1>2
<1> QED
  BY <1>1, <1>2, <1>3, <1>4

(* What a transaction still has to do is the end of its request.           *)
Finished(t) == Len(req[t].items) - Len(todo[t])

ItemsLeft(t) ==
  pc[t] \in Inside \cup {"commit"} =>
    /\ Finished(t) >= 0
    /\ \A n \in 1 .. Len(todo[t]) : todo[t][n] = req[t].items[Finished(t) + n]
    /\ pc[t] = "commit" => todo[t] = <<>>

AllItemsLeft == \A t \in Tx : ItemsLeft(t)

LEMMA ItemsOfRequest ==
  ASSUME TypeOK, NEW t \in Tx
  PROVE  /\ req[t].items \in Seq(Item) /\ Len(req[t].items) \in Nat
         /\ todo[t] \in Seq(Item) /\ Len(todo[t]) \in Nat
BY RequestFields DEF TypeOK

(* The current item is the first one that is not finished.                 *)
LEMMA CurrentOfRequest ==
  ASSUME TypeOK, NEW t \in Tx, ItemsLeft(t), pc[t] \in Inside
  PROVE  /\ Finished(t) \in Nat /\ Finished(t) + 1 \in DOMAIN req[t].items
         /\ Current(t) = req[t].items[Finished(t) + 1]
<1>1. todo[t] # <<>> /\ todo[t] \in Seq(Item) /\ req[t].items \in Seq(Item)
  BY ItemsOfRequest DEF TypeOK
<1>2. Len(todo[t]) \in Nat /\ Len(todo[t]) > 0 /\ Len(req[t].items) \in Nat
  BY <1>1
<1>3. Finished(t) >= 0 /\ todo[t][1] = req[t].items[Finished(t) + 1]
  BY <1>2 DEF ItemsLeft
<1>4. Finished(t) \in Nat /\ Finished(t) + 1 <= Len(req[t].items)
  BY <1>2, <1>3 DEF Finished
<1>5. DOMAIN req[t].items = 1 .. Len(req[t].items)
  BY <1>1
<1> QED
  BY <1>1, <1>3, <1>4, <1>5 DEF Current

LEMMA StepItems ==
  ASSUME BaseInv, AllItemsLeft, NEW t \in Tx, Begin(t) \/ Proceed(t) \/ Abort(t)
  PROVE  AllItemsLeft'
<1>0. TypeOK /\ ItemsLeft(t)
  BY DEF BaseInv, AllItemsLeft
<1>1. ASSUME NEW u \in Tx \ {t}
      PROVE  ItemsLeft(u)'
  <2>1. pc'[u] = pc[u] /\ req'[u] = req[u] /\ todo'[u] = todo[u]
    BY <1>0, StepUntouched DEF Untouched
  <2>2. ItemsLeft(u)
    BY DEF AllItemsLeft
  <2> QED
    BY <2>1, <2>2 DEF ItemsLeft, Finished
<1>2. CASE Begin(t)
  <2>1. PICK r \in Requests : req' = [req EXCEPT ![t] = r]
                              /\ todo' = [todo EXCEPT ![t] = r.items]
    BY <1>2 DEF Begin
  <2>2. req'[t].items = todo'[t] /\ todo'[t] \in Seq(Item) /\ pc'[t] = "lock"
    BY <1>0, <1>2, <2>1, RequestFields DEF Begin, TypeOK
  <2>3. Len(todo'[t]) \in Nat
    BY <2>2
  <2>4. Finished(t)' = 0
    BY <2>2, <2>3 DEF Finished
  <2>5. \A n \in 1 .. Len(todo'[t]) : 0 + n = n
    BY <2>3
  <2>6. ItemsLeft(t)'
    BY <2>2, <2>4, <2>5 DEF ItemsLeft
  <2> QED
    BY <1>1, <2>6 DEF AllItemsLeft
<1>3. ASSUME todo'[t] = todo[t], req' = req, pc'[t] \in Inside, pc[t] \in Inside
      PROVE  AllItemsLeft'
  <2>1. ItemsLeft(t)'
    BY <1>0, <1>3 DEF ItemsLeft, Finished, Inside
  <2> QED
    BY <1>1, <2>1 DEF AllItemsLeft
<1>4. ASSUME req' = req, pc[t] \in Inside, LineDone(t)
      PROVE  AllItemsLeft'
  <2>1. CASE pc'[t] = "pick" /\ todo'[t] = todo[t]
    BY <1>3, <1>4, <2>1 DEF Inside
  <2>2. CASE /\ todo'[t] = Tail(todo[t])
             /\ pc'[t] = IF Tail(todo[t]) = <<>> THEN "commit" ELSE "lock"
    <3>1. todo[t] # <<>> /\ todo[t] \in Seq(Item) /\ Len(req[t].items) \in Nat
      BY <1>0, <1>4, ItemsOfRequest DEF TypeOK
    <3>2. /\ Len(todo[t]) \in Nat /\ Len(todo'[t]) \in Nat
          /\ Len(todo'[t]) = Len(todo[t]) - 1
          /\ \A n \in 1 .. Len(todo'[t]) : todo'[t][n] = todo[t][n + 1]
                                            /\ n + 1 \in 1 .. Len(todo[t])
      BY <2>2, <3>1, TailFacts
    <3>3. Finished(t) \in Int
      BY <3>1, <3>2 DEF Finished
    <3>4. /\ Finished(t) >= 0
          /\ \A n \in 1 .. Len(todo[t]) : todo[t][n] = req[t].items[Finished(t) + n]
      BY <1>0, <1>4 DEF ItemsLeft
    <3>5. Finished(t)' = Finished(t) + 1
      BY <1>4, <3>1, <3>2 DEF Finished
    <3>6. \A n \in 1 .. Len(todo'[t]) : todo'[t][n] = req[t].items[Finished(t)' + n]
      <4> SUFFICES ASSUME NEW n \in 1 .. Len(todo'[t])
                   PROVE  todo'[t][n] = req[t].items[Finished(t)' + n]
        OBVIOUS
      <4>1. todo'[t][n] = req[t].items[Finished(t) + (n + 1)]
        BY <3>2, <3>4
      <4>2. Finished(t) + (n + 1) = Finished(t)' + n
        BY <3>2, <3>3, <3>5
      <4> QED
        BY <4>1, <4>2
    <3>7. pc'[t] = "commit" => todo'[t] = <<>>
      BY <2>2
    <3>8. Finished(t)' >= 0
      BY <3>3, <3>4, <3>5
    <3>9. ItemsLeft(t)'
      BY <1>4, <3>6, <3>7, <3>8 DEF ItemsLeft
    <3> QED
      BY <1>1, <3>9 DEF AllItemsLeft
  <2> QED
    BY <1>0, <2>1, <2>2, <1>4, LineDoneFacts
<1>5. CASE Lock(t) \/ Resolve(t) \/ Pick(t) \/ Receive(t)
  BY <1>0, <1>3, <1>5 DEF Lock, Resolve, Pick, Receive, shared, Inside, TypeOK
<1>6. CASE Debit(t)
  BY <1>0, <1>3, <1>4, <1>6 DEF Debit, Inside, TypeOK
<1>7. CASE Credit(t)
  BY <1>4, <1>7 DEF Credit, Inside
<1>8. CASE Refuse(t) \/ Commit(t) \/ Abort(t)
  <2>1. pc'[t] \in {"refused", "failed", "done"}
    BY <1>0, <1>8 DEF TypeOK, Refuse, Commit, Abort, End
  <2> QED
    BY <1>1, <2>1 DEF AllItemsLeft, ItemsLeft, Inside
<1> QED
  BY <1>2, <1>5, <1>6, <1>7, <1>8 DEF Proceed

LEMMA InitItems == Init => AllItemsLeft
BY DEF Init, AllItemsLeft, ItemsLeft, Inside

LEMMA StutterItems ==
  ASSUME AllItemsLeft, UNCHANGED vars
  PROVE  AllItemsLeft'
BY DEF AllItemsLeft, ItemsLeft, Finished, vars

(* What a movement does to the sums.                                       *)
LEMMA InsertSum ==
  ASSUME BaseInv, RowsCounted, NEW t \in Tx, NEW p \in Pair, NEW q \in Int,
         Insert(t, p, q), rows' = rows
  PROVE  /\ Sum(View(t, p)') = Sum(View(t, p)) + q
         /\ \A u \in Tx, x \in Pair : u # t \/ x # p => View(u, x)' = View(u, x)
<1> DEFINE m == Movement(clock[p], q, cur[t] + q)
           S == View(t, p)
<1>1. /\ View(t, p)' = S \cup {m}
      /\ \A u \in Tx, x \in Pair : u # t \/ x # p => View(u, x)' = View(u, x)
  BY InsertViews DEF BaseInv
<1>2. S \in SUBSET Row /\ IsFiniteSet(S) /\ Numbered(S, clock[p]) /\ clock[p] \in Nat
  BY ViewType DEF BaseInv, TypeOK, RowsCounted, RowsNumbered
<1>3. m \in Row /\ m.qty = q
  BY <1>2 DEF BaseInv, TypeOK, Movement, Row
<1>4. m \notin S
  BY <1>2, NumberedGrows
<1>5. Qty[m] = q
  BY <1>3 DEF Qty
<1>6. \A x \in S : Qty[x] \in Int
  BY <1>2, RowQty
<1> HIDE DEF m, S
<1>7. SumFunctionOnSet(Qty, S \cup {m}) = SumFunctionOnSet(Qty, S) + Qty[m]
  BY <1>2, <1>4, <1>5, <1>6, SumAdd
<1> QED
  BY <1>1, <1>5, <1>7 DEF Sum, S

LEMMA DebitSum ==
  ASSUME BaseInv, RowsCounted, NEW t \in Tx, Debit(t), NEW p \in Pair
  PROVE  /\ p = Source(t) => Sum(View(t, p)') = Sum(View(t, p)) - amt[t]
         /\ p # Source(t) => View(t, p)' = View(t, p)
         /\ \A u \in Tx \ {t} : View(u, p)' = View(u, p)
<1>1. PICK x \in Pair, q \in Int :
        x = Source(t) /\ q = -amt[t] /\ Insert(t, x, q) /\ rows' = rows
  BY WriteInserts DEF BaseInv
<1>2. /\ Sum(View(t, x)') = Sum(View(t, x)) + q
      /\ \A u \in Tx, y \in Pair : u # t \/ y # x => View(u, y)' = View(u, y)
  BY <1>1, InsertSum
<1>3. Sum(View(t, x)) \in Int /\ amt[t] \in Int
  BY SumsExist, WriteInserts DEF BaseInv
<1>4. Sum(View(t, x)) + q = Sum(View(t, x)) - amt[t]
  BY <1>1, <1>3
<1> QED
  BY <1>1, <1>2, <1>4

LEMMA CreditSum ==
  ASSUME BaseInv, RowsCounted, NEW t \in Tx, Credit(t), NEW p \in Pair
  PROVE  /\ p = Target(t) => Sum(View(t, p)') = Sum(View(t, p)) + amt[t]
         /\ p # Target(t) => View(t, p)' = View(t, p)
         /\ \A u \in Tx \ {t} : View(u, p)' = View(u, p)
<1>1. PICK x \in Pair, q \in Int :
        x = Target(t) /\ q = amt[t] /\ Insert(t, x, q) /\ rows' = rows
  BY WriteInserts DEF BaseInv
<1>2. /\ Sum(View(t, x)') = Sum(View(t, x)) + q
      /\ \A u \in Tx, y \in Pair : u # t \/ y # x => View(u, y)' = View(u, y)
  BY <1>1, InsertSum
<1> QED
  BY <1>1, <1>2

(* The units of a pair that are in lots, as t sees it and as committed.    *)
LotUnits(t, p) == [b \in BatchId |-> InLotsOf(p, LotSeen(t, b))]

InLots(t, p) == Units(LotUnits(t, p))

LotUnitsNow(p) == [b \in BatchId |-> InLotsOf(p, lots[b])]

InLotsNow(p) == Units(LotUnitsNow(p))

LEMMA LotUnitsType ==
  ASSUME TypeOK, NEW p \in Pair
  PROVE  /\ \A b \in BatchId : LotUnitsNow(p)[b] \in Int
         /\ \A t \in Tx, b \in BatchId : LotUnits(t, p)[b] \in Int
         /\ InLotsNow(p) \in Int /\ \A t \in Tx : InLots(t, p) \in Int
<1>1. \A b \in BatchId : InLotsOf(p, lots[b]) \in Int
  BY DEF TypeOK, InLotsOf, Lot
<1>2. \A t \in Tx, b \in BatchId : InLotsOf(p, LotSeen(t, b)) \in Int
  BY LotSeenType DEF InLotsOf, Lot
<1>3. /\ \A b \in BatchId : LotUnitsNow(p)[b] \in Int
      /\ \A t \in Tx, b \in BatchId : LotUnits(t, p)[b] \in Int
  BY <1>1, <1>2 DEF LotUnitsNow, LotUnits
<1>4. \A t \in Tx : InLots(t, p) \in Int
  BY <1>3, SumType DEF InLots, Units
<1>5. InLotsNow(p) \in Int
  BY <1>3, SumType DEF InLotsNow, Units
<1> QED
  BY <1>3, <1>4, <1>5

(* Seeing the same of a pair's lots is seeing the same units.              *)
LEMMA SameLots ==
  ASSUME NEW t \in Tx, NEW p \in Pair,
         \A b \in BatchId : InLotsOf(p, LotSeen(t, b)') = InLotsOf(p, LotSeen(t, b))
  PROVE  InLots(t, p)' = InLots(t, p)
<1>1. LotUnits(t, p)' = LotUnits(t, p)
  BY DEF LotUnits, InLotsOf
<1> QED
  BY <1>1 DEF InLots, Units

LEMMA QuietUnits ==
  ASSUME NEW p \in Pair, UNCHANGED <<lots, dirty>>
  PROVE  InLotsNow(p)' = InLotsNow(p) /\ \A t \in Tx : InLots(t, p)' = InLots(t, p)
<1>1. \A t \in Tx : InLots(t, p)' = InLots(t, p)
  BY QuietLots, SameLots DEF InLotsOf
<1>2. InLotsNow(p)' = InLotsNow(p)
  BY DEF InLotsNow, LotUnitsNow, InLotsOf
<1> QED
  BY <1>1, <1>2

LEMMA WriteUnits ==
  ASSUME TypeOK, NEW t \in Tx, NEW b \in BatchId, NEW l \in Lot, Writes(t, b, l),
         NEW p \in Pair
  PROVE  /\ InLots(t, p)' = InLots(t, p) + (InLotsOf(p, l) - InLotsOf(p, LotSeen(t, b)))
         /\ \A u \in Tx \ {t} : InLots(u, p)' = InLots(u, p)
         /\ InLotsNow(p)' = InLotsNow(p)
<1> DEFINE f == LotUnits(t, p)
           g == LotUnits(t, p)'
<1>1. LotSeen(t, b)' = l /\ \A u \in Tx, c \in BatchId :
        u # t \/ c # b => LotSeen(u, c)' = LotSeen(u, c)
  BY WriteSeen
<1>2. \A c \in BatchId : f[c] \in Int
  BY LotUnitsType
<1>3. \A c \in BatchId \ {b} : g[c] = f[c]
  BY <1>1 DEF LotUnits, InLotsOf
<1>4. f[b] = InLotsOf(p, LotSeen(t, b)) /\ g[b] = InLotsOf(p, l)
  BY <1>1 DEF LotUnits, InLotsOf
<1>5. InLotsOf(p, l) \in Int
  BY DEF InLotsOf, Lot
<1>6. \A c \in BatchId : g[c] \in Int
  <2> HIDE DEF f, g
  <2> QED
    BY <1>2, <1>3, <1>4, <1>5
<1>7. SumFunctionOnSet(g, BatchId) = SumFunctionOnSet(f, BatchId) + (g[b] - f[b])
  <2> HIDE DEF f, g
  <2> QED
    BY <1>2, <1>3, <1>6, SumChange
<1>8. \A u \in Tx \ {t} : InLots(u, p)' = InLots(u, p)
  <2> SUFFICES ASSUME NEW u \in Tx \ {t} PROVE InLots(u, p)' = InLots(u, p)
    OBVIOUS
  <2>1. \A c \in BatchId : LotSeen(u, c)' = LotSeen(u, c)
    BY <1>1
  <2> QED
    BY <2>1, SameLots DEF InLotsOf
<1>9. InLotsNow(p)' = InLotsNow(p)
  BY DEF Writes, InLotsNow, LotUnitsNow, InLotsOf
<1> QED
  BY <1>4, <1>7, <1>8, <1>9 DEF InLots, Units

(* Units of a pair that are in no lot.                                     *)
Loose(t, p) == Sum(View(t, p)) - InLots(t, p)

LooseNow(p) == Sum(rows[p]) - InLotsNow(p)

LEMMA LooseType ==
  ASSUME TypeOK, RowsCounted, NEW p \in Pair
  PROVE  LooseNow(p) \in Int /\ \A t \in Tx : Loose(t, p) \in Int
BY SumsExist, LotUnitsType DEF LooseNow, Loose

LEMMA PerishablePair == \A p \in Perishable \X Store : p \in Pair /\ p[1] \in Perishable
BY DEF Pair

(* Taking from a perishable pair takes from one of its lots.               *)
LEMMA DebitLoose ==
  ASSUME BaseInv, LotsInv, RowsCounted, NEW t \in Tx, Debit(t),
         NEW p \in Perishable \X Store
  PROVE  /\ \A u \in Tx : Loose(u, p)' = Loose(u, p)
         /\ LooseNow(p)' = LooseNow(p)
<1>1. /\ TypeOK /\ SourcesExist /\ p \in Pair /\ p[1] \in Perishable /\ pc[t] = "debit"
      /\ Insert(t, Source(t), -amt[t]) /\ rows' = rows /\ Source(t) \in Pair
      /\ amt[t] \in Nat /\ -amt[t] \in Int
  BY PerishablePair, WriteInserts DEF BaseInv, Debit
<1>2. /\ p = Source(t) => Sum(View(t, p)') = Sum(View(t, p)) - amt[t]
      /\ p # Source(t) => View(t, p)' = View(t, p)
      /\ \A u \in Tx \ {t} : View(u, p)' = View(u, p)
  BY <1>1, DebitSum
<1>3. Debits(t) /\ LineTaken(t)
  BY <1>1 DEF LotsInv, PlansHold, Asked, PlanHolds, Debiting
<1>4. InLotsNow(p)' = InLotsNow(p) /\ \A u \in Tx \ {t} : InLots(u, p)' = InLots(u, p)
  <2>1. CASE dirty' = dirty /\ lots' = lots
    BY <1>1, <2>1, QuietUnits
  <2>2. CASE src[t] \in BatchId /\ LotAfterDebit(t) \in Lot
             /\ Writes(t, src[t], LotAfterDebit(t))
    BY <1>1, <2>2, WriteUnits
  <2> QED
    BY <1>1, <2>1, <2>2, DebitWrites
<1>5. CASE p = Source(t)
  <2>1. src[t] \in BatchId
    BY <1>1, <1>3, <1>5 DEF LineTaken, Source
  <2>2. At(p, LotSeen(t, src[t]))
    BY <1>1, <1>5, <2>1, SourceLot DEF LotsInv
  <2>3. /\ LotSeen(t, src[t]) \in Lot /\ LotAfterDebit(t) \in Lot
        /\ LotAfterDebit(t).pair = p
        /\ LotAfterDebit(t).qty = LotSeen(t, src[t]).qty - amt[t]
        /\ Writes(t, src[t], LotAfterDebit(t))
    BY <1>1, <2>1, <2>2, DebitWrites DEF At
  <2>4. /\ InLotsOf(p, LotSeen(t, src[t])) = LotSeen(t, src[t]).qty
        /\ InLotsOf(p, LotAfterDebit(t)) = LotSeen(t, src[t]).qty - amt[t]
        /\ LotSeen(t, src[t]).qty \in Int
    BY <2>2, <2>3 DEF InLotsOf, At, Lot
  <2>5. InLots(t, p)' = InLots(t, p)
          + (InLotsOf(p, LotAfterDebit(t)) - InLotsOf(p, LotSeen(t, src[t])))
    BY <1>1, <2>1, <2>3, WriteUnits
  <2>6. InLots(t, p) \in Int /\ Sum(View(t, p)) \in Int
    BY <1>1, LotUnitsType, SumsExist
  <2>7. InLots(t, p)' = InLots(t, p) - amt[t]
    BY <1>1, <2>4, <2>5, <2>6
  <2>8. Sum(View(t, p)') = Sum(View(t, p)) - amt[t]
    BY <1>2, <1>5
  <2>9. Loose(t, p)' = Sum(View(t, p)') - InLots(t, p)'
    BY DEF Loose, Sum, Qty, View
  <2>10. Loose(t, p)' = Loose(t, p)
    BY <1>1, <2>6, <2>7, <2>8, <2>9 DEF Loose
  <2> QED
    BY <1>1, <1>2, <1>4, <1>5, <2>10 DEF Loose, LooseNow, Sum, Qty
<1>6. CASE p # Source(t)
  <2>1. InLots(t, p)' = InLots(t, p)
    <3>1. CASE dirty' = dirty /\ lots' = lots
      BY <1>1, <3>1, QuietUnits
    <3>2. CASE /\ src[t] \in BatchId /\ LotAfterDebit(t) \in Lot
               /\ LotAfterDebit(t).pair = LotSeen(t, src[t]).pair
               /\ Writes(t, src[t], LotAfterDebit(t))
      <4>1. At(Source(t), LotSeen(t, src[t]))
        BY <1>1, <3>2, SourceLot DEF LotsInv
      <4>2. /\ InLotsOf(p, LotSeen(t, src[t])) = 0
            /\ InLotsOf(p, LotAfterDebit(t)) = 0
        BY <1>6, <3>2, <4>1 DEF At, InLotsOf
      <4>3. InLots(t, p)' = InLots(t, p)
              + (InLotsOf(p, LotAfterDebit(t)) - InLotsOf(p, LotSeen(t, src[t])))
        BY <1>1, <3>2, WriteUnits
      <4>4. InLots(t, p) \in Int
        BY <1>1, LotUnitsType
      <4> QED
        BY <4>2, <4>3, <4>4
    <3> QED
      BY <1>1, <3>1, <3>2, DebitWrites
  <2> QED
    BY <1>1, <1>2, <1>4, <1>6, <2>1 DEF Loose, LooseNow, Sum, Qty
<1> QED
  BY <1>5, <1>6

(* Receipts of perishable products carry a number and an expiry.           *)
LabelsPerishables ==
  \A r \in Requests : r.kind \in {"entry", "nfe"} =>
    \A n \in DOMAIN r.items :
      r.items[n].product \in Perishable => r.items[n].label # NoLabel

(* What a transfer moves out of a lot has the label of the lot.            *)
LEMMA LabelMoves ==
  ASSUME BaseInv, LotsInv, AllItemsLeft, NEW t \in Tx, pc[t] = "credit",
         Current(t).product \in Perishable, LabelIn(t) = NoLabel
  PROVE  ~Debits(t) /\ ~LabelsPerishables
<1>1. TypeOK /\ SourcesExist /\ pc[t] \in Inside /\ Asked(t) /\ PlanHolds(t) /\ ItemsLeft(t)
  BY DEF BaseInv, LotsInv, PlansHold, AllItemsLeft, Inside
<1>2. ~Debits(t)
  <2> SUFFICES ASSUME Debits(t) PROVE FALSE
    OBVIOUS
  <2>1. src[t] \in BatchId
    BY <1>1 DEF PlanHolds, Debiting, LineTaken
  <2>2. LotSeen(t, src[t]) \in Lot
    BY <1>1, <2>1, LotSeenType DEF SourcesExist
  <2>3. LabelIn(t) = [number |-> LotSeen(t, src[t]).number,
                      expiry |-> LotSeen(t, src[t]).expiry]
    BY <2>1 DEF LabelIn
  <2>4. LabelIn(t) \in [number : {l.number : l \in Label}, expiry : {l.expiry : l \in Label}]
    BY <2>2, <2>3 DEF Lot
  <2> QED
    BY <2>4
<1>3. ~LabelsPerishables
  <2>1. /\ Finished(t) + 1 \in DOMAIN req[t].items
        /\ Current(t) = req[t].items[Finished(t) + 1]
    BY <1>1, CurrentOfRequest
  <2>2. Current(t).label = NoLabel
    BY <1>2 DEF LabelIn
  <2>3. req[t] \in Requests /\ req[t].kind \in {"entry", "nfe"}
    BY <1>1, <1>2 DEF TypeOK, Asked, Credits, Debits
  <2> QED
    BY <2>1, <2>2, <2>3 DEF LabelsPerishables
<1> QED
  BY <1>2, <1>3

(* A receipt without a label leaves its units loose; any other receipt     *)
(* puts them in a lot of the pair.                                         *)
LEMMA CreditLoose ==
  ASSUME BaseInv, LotsInv, RowsCounted, AllItemsLeft, NEW t \in Tx, Credit(t),
         NEW p \in Perishable \X Store
  PROVE  /\ \/ Loose(t, p)' = Loose(t, p)
            \/ Loose(t, p)' = Loose(t, p) + amt[t] /\ ~LabelsPerishables
         /\ \A u \in Tx \ {t} : Loose(u, p)' = Loose(u, p)
         /\ LooseNow(p)' = LooseNow(p)
<1>1. /\ TypeOK /\ SourcesExist /\ p \in Pair /\ p[1] \in Perishable /\ pc[t] = "credit"
      /\ rows' = rows /\ amt[t] \in Nat
  BY PerishablePair, WriteInserts DEF BaseInv, Credit
<1>2. /\ p = Target(t) => Sum(View(t, p)') = Sum(View(t, p)) + amt[t]
      /\ p # Target(t) => View(t, p)' = View(t, p)
      /\ \A u \in Tx \ {t} : View(u, p)' = View(u, p)
  BY <1>1, CreditSum
<1>3. InLots(t, p) \in Int /\ Sum(View(t, p)) \in Int
  BY <1>1, LotUnitsType, SumsExist
<1>4. /\ Loose(t, p)' = Sum(View(t, p)') - InLots(t, p)'
      /\ Loose(t, p) = Sum(View(t, p)) - InLots(t, p)
  BY DEF Loose, Sum, Qty, View
<1>5. CASE LabelIn(t) = NoLabel /\ dirty' = dirty /\ lots' = lots
  <2>1. /\ InLotsNow(p)' = InLotsNow(p)
        /\ \A u \in Tx : InLots(u, p)' = InLots(u, p)
    BY <1>1, <1>5, QuietUnits
  <2>2. /\ \A u \in Tx \ {t} : Loose(u, p)' = Loose(u, p)
        /\ LooseNow(p)' = LooseNow(p)
    BY <1>1, <1>2, <2>1 DEF Loose, LooseNow, Sum, Qty
  <2>3. \/ Sum(View(t, p)') = Sum(View(t, p))
        \/ p = Target(t) /\ Sum(View(t, p)') = Sum(View(t, p)) + amt[t]
    BY <1>2 DEF Sum, Qty
  <2>4. p = Target(t) => ~LabelsPerishables
    BY <1>1, <1>5, LabelMoves DEF Target
  <2>5. InLots(t, p)' = InLots(t, p)
    BY <2>1
  <2>6. \/ Loose(t, p)' = Loose(t, p)
        \/ Loose(t, p)' = Loose(t, p) + amt[t] /\ ~LabelsPerishables
    BY <1>1, <1>3, <1>4, <2>3, <2>4, <2>5
  <2> QED
    BY <2>2, <2>6
<1>6. ASSUME NEW b \in BatchId, NEW l \in Lot, Writes(t, b, l), l.pair = Target(t),
             \/ LotSeen(t, b) = NoLot /\ l.qty = amt[t]
             \/ /\ LotSeen(t, b) \in Lot /\ At(Target(t), LotSeen(t, b))
                /\ l.qty = LotSeen(t, b).qty + amt[t]
      PROVE  /\ Loose(t, p)' = Loose(t, p)
             /\ \A u \in Tx \ {t} : Loose(u, p)' = Loose(u, p)
             /\ LooseNow(p)' = LooseNow(p)
  <2>1. /\ InLots(t, p)' = InLots(t, p) + (InLotsOf(p, l) - InLotsOf(p, LotSeen(t, b)))
        /\ \A u \in Tx \ {t} : InLots(u, p)' = InLots(u, p)
        /\ InLotsNow(p)' = InLotsNow(p)
    BY <1>1, <1>6, WriteUnits
  <2>2. /\ p = Target(t) => InLotsOf(p, l) - InLotsOf(p, LotSeen(t, b)) = amt[t]
        /\ p # Target(t) => InLotsOf(p, l) - InLotsOf(p, LotSeen(t, b)) = 0
    BY <1>1, <1>6 DEF InLotsOf, At, Lot
  <2>3. Loose(t, p)' = Loose(t, p)
    <3>1. CASE p = Target(t)
      <4>1. InLots(t, p)' = InLots(t, p) + amt[t]
        BY <2>1, <2>2, <3>1
      <4> QED
        BY <1>1, <1>2, <1>3, <1>4, <3>1, <4>1
    <3>2. CASE p # Target(t)
      <4>1. InLots(t, p)' = InLots(t, p)
        BY <1>3, <2>1, <2>2, <3>2
      <4> QED
        BY <1>2, <1>4, <3>2, <4>1 DEF Sum, Qty
    <3> QED
      BY <3>1, <3>2
  <2>4. /\ \A u \in Tx \ {t} : Loose(u, p)' = Loose(u, p)
        /\ LooseNow(p)' = LooseNow(p)
    BY <1>1, <1>2, <2>1 DEF Loose, LooseNow, Sum, Qty
  <2> QED
    BY <2>3, <2>4
<1>7. Loose(t, p) \in Int
  BY <1>1, LooseType
<1>8. \A b \in BatchId : NewLot(t, b) => LotSeen(t, b) = NoLot
  BY DEF NewLot, LotSeen
<1> QED
  BY <1>1, <1>5, <1>6, <1>7, <1>8, CreditWrites

(* A commit shows a pair it wrote whole, rows and lots, and leaves what    *)
(* the others see of a pair it did not write.                              *)
LEMMA CommitPair ==
  ASSUME BaseInv, LotsInv, NEW t \in Tx, Commit(t), NEW u \in Tx \ {t}, NEW p \in Pair
  PROVE  \/ /\ View(u, p)' = View(u, p)
            /\ \A b \in BatchId : InLotsOf(p, LotSeen(u, b)') = InLotsOf(p, LotSeen(u, b))
         \/ /\ View(u, p)' = View(t, p)
            /\ \A b \in BatchId : InLotsOf(p, LotSeen(u, b)') = InLotsOf(p, LotSeen(t, b))
<1>1. /\ rows' = [x \in Pair |-> View(t, x)] /\ mine'[u] = mine[u] /\ TypeOK
  BY StepUntouched DEF BaseInv, Commit, Proceed, Untouched
<1>2. \A b \in BatchId :
        LotSeen(u, b)' = IF dirty[u][b] # NoLot THEN dirty[u][b] ELSE LotSeen(t, b)
  BY <1>1, CommitLots
<1>3. CASE Holds(t, p)
  <2>1. ~Holds(u, p)
    BY <1>3, OneHolder
  <2>2. mine[u][p] = {}
    BY <2>1 DEF BaseInv, WritesUnderLock, LocksCover
  <2>3. View(u, p)' = View(t, p)
    BY <1>1, <2>2 DEF View
  <2>4. ASSUME NEW b \in BatchId, dirty[u][b] # NoLot
        PROVE  InLotsOf(p, LotSeen(u, b)') = InLotsOf(p, LotSeen(t, b))
    <3>1. dirty[u][b].pair # p
      BY <2>1, <2>4 DEF LotsInv, LotWrites, DirtyHeld
    <3>2. InLotsOf(p, LotSeen(u, b)') = 0
      BY <1>2, <2>4, <3>1 DEF InLotsOf
    <3>3. dirty[t][b] = NoLot
      BY <2>4 DEF LotsInv, LotWrites, OneWriter
    <3>4. LotSeen(t, b) = lots[b]
      BY <3>3 DEF LotSeen
    <3>5. lots[b] # NoLot => lots[b].pair # p
      BY <2>4, <3>1 DEF LotsInv, LotWrites, SameLot
    <3> QED
      BY <3>2, <3>4, <3>5 DEF InLotsOf
  <2>5. \A b \in BatchId : dirty[u][b] = NoLot => LotSeen(u, b)' = LotSeen(t, b)
    BY <1>2
  <2> QED
    BY <2>3, <2>4, <2>5
<1>4. CASE ~Holds(t, p)
  <2>1. mine[t][p] = {}
    BY <1>4 DEF BaseInv, WritesUnderLock, LocksCover
  <2>2. View(u, p)' = View(u, p)
    BY <1>1, <2>1 DEF View
  <2>3. ASSUME NEW b \in BatchId, dirty[u][b] = NoLot, dirty[t][b] # NoLot
        PROVE  InLotsOf(p, LotSeen(u, b)') = InLotsOf(p, LotSeen(u, b))
    <3>1. dirty[t][b].pair # p
      BY <1>4, <2>3 DEF LotsInv, LotWrites, DirtyHeld
    <3>2. LotSeen(u, b)' = dirty[t][b] /\ LotSeen(u, b) = lots[b]
      BY <1>2, <2>3 DEF LotSeen
    <3>3. lots[b] # NoLot => lots[b].pair # p
      BY <2>3, <3>1 DEF LotsInv, LotWrites, SameLot
    <3> QED
      BY <3>1, <3>2, <3>3 DEF InLotsOf
  <2>4. \A b \in BatchId : dirty[u][b] # NoLot \/ dirty[t][b] = NoLot =>
          LotSeen(u, b)' = LotSeen(u, b)
    BY <1>2 DEF LotSeen
  <2> QED
    BY <2>2, <2>3, <2>4
<1> QED
  BY <1>3, <1>4

LEMMA CommitLoose ==
  ASSUME BaseInv, LotsInv, NEW t \in Tx, Commit(t), NEW p \in Pair
  PROVE  /\ LooseNow(p)' = Loose(t, p)
         /\ Loose(t, p)' = Loose(t, p)
         /\ \A u \in Tx \ {t} : Loose(u, p)' \in {Loose(u, p), Loose(t, p)}
<1>0. TypeOK
  BY DEF BaseInv
<1>1. \A b \in BatchId : lots'[b] = LotSeen(t, b) /\ LotSeen(t, b)' = LotSeen(t, b)
  BY <1>0, CommitLots
<1>2. rows'[p] = View(t, p) /\ View(t, p)' = View(t, p)
  BY CommitViews
<1>3. InLotsNow(p)' = InLots(t, p)
  <2>1. LotUnitsNow(p)' = LotUnits(t, p)
    BY <1>1 DEF LotUnitsNow, LotUnits, InLotsOf
  <2> QED
    BY <2>1 DEF InLotsNow, InLots, Units
<1>4. InLots(t, p)' = InLots(t, p)
  BY <1>1, SameLots DEF InLotsOf
<1>5. ASSUME NEW u \in Tx \ {t}
      PROVE  Loose(u, p)' \in {Loose(u, p), Loose(t, p)}
  <2>1. CASE /\ View(u, p)' = View(u, p)
             /\ \A b \in BatchId : InLotsOf(p, LotSeen(u, b)') = InLotsOf(p, LotSeen(u, b))
    <3>1. InLots(u, p)' = InLots(u, p)
      BY <2>1, SameLots
    <3> QED
      BY <2>1, <3>1 DEF Loose, Sum, Qty
  <2>2. CASE /\ View(u, p)' = View(t, p)
             /\ \A b \in BatchId : InLotsOf(p, LotSeen(u, b)') = InLotsOf(p, LotSeen(t, b))
    <3>1. LotUnits(u, p)' = LotUnits(t, p)
      BY <2>2 DEF LotUnits, InLotsOf
    <3>2. InLots(u, p)' = InLots(t, p)
      BY <3>1 DEF InLots, Units
    <3> QED
      BY <2>2, <3>2 DEF Loose, Sum, Qty
  <2> QED
    BY <2>1, <2>2, CommitPair
<1> QED
  BY <1>2, <1>3, <1>4, <1>5 DEF Loose, LooseNow, Sum, Qty

LEMMA UndoLoose ==
  ASSUME BaseInv, NEW t \in Tx, Refuse(t) \/ Abort(t), NEW p \in Pair
  PROVE  /\ LooseNow(p)' = LooseNow(p)
         /\ Loose(t, p)' = LooseNow(p)
         /\ \A u \in Tx \ {t} : Loose(u, p)' = Loose(u, p)
<1>0. TypeOK
  BY DEF BaseInv
<1>1. /\ lots' = lots
      /\ \A b \in BatchId :
           /\ LotSeen(t, b)' = lots[b]
           /\ \A u \in Tx \ {t} : LotSeen(u, b)' = LotSeen(u, b)
  BY <1>0, UndoLots
<1>2. /\ rows' = rows /\ View(t, p)' = rows[p]
      /\ \A u \in Tx \ {t} : View(u, p)' = View(u, p)
  BY UndoViews
<1>3. InLotsNow(p)' = InLotsNow(p)
  BY <1>1 DEF InLotsNow, LotUnitsNow, InLotsOf
<1>4. InLots(t, p)' = InLotsNow(p)
  <2>1. LotUnits(t, p)' = LotUnitsNow(p)
    BY <1>1 DEF LotUnitsNow, LotUnits, InLotsOf
  <2> QED
    BY <2>1 DEF InLotsNow, InLots, Units
<1>5. \A u \in Tx \ {t} : InLots(u, p)' = InLots(u, p)
  BY <1>1, SameLots DEF InLotsOf
<1> QED
  BY <1>2, <1>3, <1>4, <1>5 DEF Loose, LooseNow, Sum, Qty

(* The lots of a perishable pair never hold more than its balance, and     *)
(* hold all of it when every receipt is labelled.                          *)
LotsWithin ==
  \A p \in Perishable \X Store :
    LooseNow(p) >= 0 /\ \A t \in Tx : Loose(t, p) >= 0

LotsExact ==
  \A p \in Perishable \X Store :
    LooseNow(p) = 0 /\ \A t \in Tx : Loose(t, p) = 0

LEMMA StepLoose ==
  ASSUME BaseInv, LotsInv, RowsCounted, AllItemsLeft, NEW t \in Tx,
         Begin(t) \/ Proceed(t) \/ Abort(t)
  PROVE  /\ LotsWithin => LotsWithin'
         /\ LabelsPerishables /\ LotsExact => LotsExact'
<1>1. ASSUME NEW p \in Perishable \X Store, NEW u \in Tx
      PROVE  /\ \/ LooseNow(p)' = LooseNow(p)
                \/ LooseNow(p)' = Loose(t, p)
             /\ \/ Loose(u, p)' = Loose(u, p)
                \/ Loose(u, p)' = Loose(u, p) + amt[t] /\ ~LabelsPerishables
                \/ Loose(u, p)' = Loose(t, p)
                \/ Loose(u, p)' = LooseNow(p)
  <2>1. p \in Pair /\ TypeOK
    BY PerishablePair DEF BaseInv
  <2>2. Loose(u, p) \in Int
    BY <2>1, LooseType
  <2>3. CASE Begin(t) \/ Lock(t) \/ Resolve(t) \/ Pick(t) \/ Receive(t)
    <3>1. UNCHANGED <<rows, mine, lots, dirty>>
      BY <2>3 DEF Begin, Lock, Resolve, Pick, Receive, shared
    <3>2. InLotsNow(p)' = InLotsNow(p) /\ InLots(u, p)' = InLots(u, p)
      BY <2>1, <3>1, QuietUnits
    <3>3. View(u, p)' = View(u, p)
      BY <3>1 DEF View
    <3> QED
      BY <2>2, <3>1, <3>2, <3>3 DEF Loose, LooseNow, Sum, Qty
  <2>4. CASE Debit(t)
    BY <2>2, <2>4, DebitLoose
  <2>5. CASE Credit(t)
    <3>1. CASE u = t
      BY <2>5, <3>1, CreditLoose
    <3>2. CASE u # t
      BY <2>2, <2>5, <3>2, CreditLoose
    <3> QED
      BY <3>1, <3>2
  <2>6. CASE Commit(t)
    <3>1. CASE u = t
      BY <2>1, <2>2, <2>6, <3>1, CommitLoose
    <3>2. CASE u # t
      BY <2>1, <2>2, <2>6, <3>2, CommitLoose
    <3> QED
      BY <3>1, <3>2
  <2>7. CASE Refuse(t) \/ Abort(t)
    <3>1. CASE u = t
      BY <2>1, <2>7, <3>1, UndoLoose
    <3>2. CASE u # t
      BY <2>1, <2>2, <2>7, <3>2, UndoLoose
    <3> QED
      BY <3>1, <3>2
  <2> QED
    BY <2>3, <2>4, <2>5, <2>6, <2>7 DEF Proceed
<1>2. ASSUME NEW p \in Perishable \X Store
      PROVE  LooseNow(p) \in Int /\ \A u \in Tx : Loose(u, p) \in Int
  BY PerishablePair, LooseType DEF BaseInv
<1>3. LotsWithin => LotsWithin'
  <2> SUFFICES ASSUME LotsWithin, NEW p \in Perishable \X Store, NEW u \in Tx
               PROVE  LooseNow(p)' >= 0 /\ Loose(u, p)' >= 0
    BY DEF LotsWithin
  <2>1. LooseNow(p) >= 0 /\ Loose(t, p) >= 0 /\ Loose(u, p) >= 0
    BY DEF LotsWithin
  <2>2. LooseNow(p)' >= 0
    BY <1>1, <2>1
  <2>3. CASE Loose(u, p)' = Loose(u, p) + amt[t]
    <3>1. amt[t] \in Nat
      BY DEF BaseInv, TypeOK
    <3> QED
      BY <1>2, <2>1, <2>2, <2>3, <3>1
  <2> QED
    BY <1>1, <2>1, <2>2, <2>3
<1>4. LabelsPerishables /\ LotsExact => LotsExact'
  <2> SUFFICES ASSUME LabelsPerishables, LotsExact,
                      NEW p \in Perishable \X Store, NEW u \in Tx
               PROVE  LooseNow(p)' = 0 /\ Loose(u, p)' = 0
    BY DEF LotsExact
  <2> QED
    BY <1>1 DEF LotsExact
<1> QED
  BY <1>3, <1>4

LEMMA InitLoose == Init => LotsWithin /\ LotsExact
<1> SUFFICES ASSUME Init, NEW p \in Perishable \X Store
             PROVE  LooseNow(p) = 0 /\ \A t \in Tx : Loose(t, p) = 0
  BY DEF LotsWithin, LotsExact
<1>1. p \in Pair
  BY PerishablePair
<1>2. rows[p] = {} /\ \A t \in Tx : View(t, p) = {}
  BY <1>1 DEF Init, View
<1>3. \A b \in BatchId : lots[b] = NoLot /\ \A t \in Tx : LotSeen(t, b) = NoLot
  BY DEF Init, LotSeen
<1>4. \A b \in BatchId : LotUnitsNow(p)[b] = 0
  BY <1>3 DEF LotUnitsNow, InLotsOf
<1>5. \A t \in Tx, b \in BatchId : LotUnits(t, p)[b] = 0
  BY <1>3 DEF LotUnits, InLotsOf
<1>6. InLotsNow(p) = 0
  <2> DEFINE f == LotUnitsNow(p)
  <2>1. \A b \in BatchId : f[b] = 0
    BY <1>4
  <2> HIDE DEF f
  <2>2. SumFunctionOnSet(f, BatchId) = 0
    BY <2>1, SumOfZeros
  <2> QED
    BY <2>2 DEF f, InLotsNow, Units
<1>7. ASSUME NEW t \in Tx
      PROVE  InLots(t, p) = 0
  <2>1. \A b \in BatchId : LotUnits(t, p)[b] = 0
    BY <1>5
  <2> QED
    BY <2>1, SumOfZeros DEF InLots, Units
<1>8. Sum(rows[p]) = 0 /\ \A t \in Tx : Sum(View(t, p)) = 0
  BY <1>2, SumOfNone, Zenon
<1> QED
  BY <1>6, <1>7, <1>8 DEF LooseNow, Loose

LEMMA StutterLoose ==
  ASSUME UNCHANGED vars
  PROVE  (LotsWithin => LotsWithin') /\ (LotsExact => LotsExact')
<1>1. \A p \in Perishable \X Store :
        LooseNow(p)' = LooseNow(p) /\ \A t \in Tx : Loose(t, p)' = Loose(t, p)
  <2> SUFFICES ASSUME NEW p \in Perishable \X Store
               PROVE  LooseNow(p)' = LooseNow(p) /\ \A t \in Tx : Loose(t, p)' = Loose(t, p)
    OBVIOUS
  <2>1. p \in Pair
    BY PerishablePair
  <2>2. InLotsNow(p)' = InLotsNow(p) /\ \A t \in Tx : InLots(t, p)' = InLots(t, p)
    BY <2>1, QuietUnits DEF vars
  <2>3. rows'[p] = rows[p] /\ \A t \in Tx : View(t, p)' = View(t, p)
    BY DEF vars, View
  <2> QED
    BY <2>2, <2>3 DEF LooseNow, Loose, Sum, Qty
<1> QED
  BY <1>1 DEF LotsWithin, LotsExact

(* Everything the two books rest on.                                       *)
BooksInv == BaseInv /\ RowsCounted /\ LotsInv /\ AllItemsLeft /\ LotsWithin

LEMMA BooksInductive ==
  ASSUME NamesOwnLot
  PROVE  Spec => []BooksInv
<1>1. Init => BooksInv
  BY InitBase, InitCounted, InitLots, InitItems, InitLoose DEF BooksInv
<1>2. BooksInv /\ [Next]_vars => BooksInv'
  <2> SUFFICES ASSUME BooksInv, [Next]_vars PROVE BooksInv'
    OBVIOUS
  <2>1. CASE UNCHANGED vars
    BY <2>1, StutterBase, StutterCounted, StutterLots, StutterItems, StutterLoose
    DEF BooksInv
  <2>2. ASSUME NEW t \in Tx, Begin(t) \/ Proceed(t) \/ Abort(t)
        PROVE  BooksInv'
    BY <2>2, StepBase, StepCounted, StepLots, StepItems, StepLoose DEF BooksInv
  <2> QED
    BY <2>1, <2>2 DEF Next
<1> QED
  BY <1>1, <1>2, PTL DEF Spec

LEMMA ExactInductive ==
  ASSUME NamesOwnLot, LabelsPerishables
  PROVE  Spec => []LotsExact
<1>1. BooksInv /\ LotsExact /\ [Next]_vars => LotsExact'
  BY StepLoose, StutterLoose DEF BooksInv, Next
<1>2. Init => LotsExact
  BY InitLoose
<1> QED
  BY <1>1, <1>2, BooksInductive, PTL DEF Spec

(* If operators name only lots of the product and store of their line, and *)
(* every receipt of a perishable product is labelled, then at every moment *)
(* the lots of a perishable product at a store add up to the balance of    *)
(* its movements there: batches and stock_movements, which the code        *)
(* updates one after the other, are only ever seen changed together.       *)
THEOREM BooksAgree ==
  ASSUME NamesOwnLot, LabelsPerishables
  PROVE  Spec => []LotsMatchBalance
<1>1. BooksInv /\ LotsExact => LotsMatchBalance
  <2> SUFFICES ASSUME BooksInv, LotsExact, NEW p \in Perishable \X Store
               PROVE  InLotsNow(p) = Sum(rows[p])
    BY DEF LotsMatchBalance, InLotsNow, LotUnitsNow
  <2>1. p \in Pair
    BY PerishablePair
  <2>2. InLotsNow(p) \in Int /\ Sum(rows[p]) \in Int
    BY <2>1, LotUnitsType, SumsExist DEF BooksInv, BaseInv
  <2>3. LooseNow(p) = 0
    BY DEF LotsExact
  <2> QED
    BY <2>2, <2>3 DEF LooseNow
<1> QED
  BY <1>1, BooksInductive, ExactInductive, PTL

(* Whether or not receipts are labelled, the lots of a perishable product  *)
(* never hold more units than its movements say there are: a sale that     *)
(* chooses lots never takes what the balance does not have.                *)
THEOREM LotsWithinBalance ==
  ASSUME NamesOwnLot
  PROVE  Spec => []LotsWithin
<1>1. BooksInv => LotsWithin
  BY DEF BooksInv
<1> QED
  BY <1>1, BooksInductive, PTL

--------------------------------------------------------------------------------
(* No balance goes below zero.  For a perishable product the lots stand    *)
(* behind it.  For the others the balance read when the item is resolved   *)
(* does, as long as no exit can go round it through a lot.                 *)

(* Receipts of other products carry no number or no expiry.                *)
LabelsOnlyPerishables ==
  \A r \in Requests : r.kind \in {"entry", "nfe"} =>
    \A n \in DOMAIN r.items :
      r.items[n].label # NoLabel => r.items[n].product \in Perishable

Plain == (Product \ Perishable) \X Store

NoStrayLots ==
  /\ \A b \in BatchId : lots[b] # NoLot => lots[b].pair \notin Plain
  /\ \A t \in Tx, b \in BatchId : LotSeen(t, b) # NoLot => LotSeen(t, b).pair \notin Plain

TakesFromLot(t) ==
  pc[t] \in {"debit", "receive", "credit"} /\ Debits(t) /\ src[t] \in BatchId =>
    Current(t).product \in Perishable

Stray == NoStrayLots /\ \A t \in Tx : TakesFromLot(t)

LEMMA PlainPair ==
  /\ Plain \subseteq Pair
  /\ \A p \in Pair : p \in Plain <=> p[1] \notin Perishable
BY DEF Plain, Pair

LEMMA SourcePlain ==
  ASSUME TypeOK, NEW t \in Tx, pc[t] \in Inside
  PROVE  /\ Source(t) \in Plain <=> Current(t).product \notin Perishable
         /\ Target(t) \in Plain <=> Current(t).product \notin Perishable
<1>1. Source(t) \in Pair /\ Target(t) \in Pair
  BY CurrentType
<1>2. Source(t)[1] = Current(t).product /\ Target(t)[1] = Current(t).product
  BY DEF Source, Target
<1> QED
  BY <1>1, <1>2, PlainPair

(* No lot is ever made of a product without lots.                          *)
LEMMA CreditStray ==
  ASSUME LabelsOnlyPerishables, BaseInv, LotsInv, AllItemsLeft, Stray, NEW t \in Tx,
         pc[t] = "credit", LabelIn(t) # NoLabel
  PROVE  Target(t) \notin Plain
<1>1. TypeOK /\ pc[t] \in Inside /\ Asked(t) /\ ItemsLeft(t) /\ TakesFromLot(t)
  BY DEF BaseInv, LotsInv, PlansHold, AllItemsLeft, Inside, Stray
<1>2. CASE Debits(t)
  <2>1. src[t] \in BatchId
    BY <1>1, <1>2 DEF LabelIn, TypeOK
  <2> QED
    BY <1>1, <1>2, <2>1, SourcePlain DEF TakesFromLot
<1>3. CASE ~Debits(t)
  <2>1. /\ Finished(t) + 1 \in DOMAIN req[t].items
        /\ Current(t) = req[t].items[Finished(t) + 1]
    BY <1>1, CurrentOfRequest
  <2>2. Current(t).label # NoLabel
    BY <1>3 DEF LabelIn
  <2>3. req[t] \in Requests /\ req[t].kind \in {"entry", "nfe"}
    BY <1>1, <1>3 DEF TypeOK, Asked, Credits, Debits
  <2> QED
    BY <1>1, <2>1, <2>2, <2>3, SourcePlain DEF LabelsOnlyPerishables
<1> QED
  BY <1>2, <1>3

LEMMA StepNoStray ==
  ASSUME LabelsOnlyPerishables, BaseInv, LotsInv, AllItemsLeft, Stray, NEW t \in Tx,
         Begin(t) \/ Proceed(t) \/ Abort(t)
  PROVE  NoStrayLots'
<1>0. TypeOK /\ SourcesExist /\ NoStrayLots
  BY DEF BaseInv, Stray
<1>1. CASE UNCHANGED <<lots, dirty>>
  BY <1>0, <1>1, QuietLots DEF NoStrayLots
<1>2. ASSUME NEW b \in BatchId, NEW l \in Lot, Writes(t, b, l), l.pair \notin Plain
      PROVE  NoStrayLots'
  <2>1. lots' = lots
    BY <1>2 DEF Writes
  <2>2. LotSeen(t, b)' = l /\ \A u \in Tx, c \in BatchId :
          u # t \/ c # b => LotSeen(u, c)' = LotSeen(u, c)
    BY <1>0, <1>2, WriteSeen
  <2>3. ASSUME NEW u \in Tx, NEW c \in BatchId, LotSeen(u, c)' # NoLot
        PROVE  LotSeen(u, c)'.pair \notin Plain
    <3>1. CASE u = t /\ c = b
      BY <1>2, <2>2, <3>1
    <3>2. CASE u # t \/ c # b
      BY <1>0, <2>2, <2>3, <3>2 DEF NoStrayLots
    <3> QED
      BY <3>1, <3>2
  <2> QED
    BY <1>0, <2>1, <2>3 DEF NoStrayLots, Plain
<1>3. CASE Begin(t) \/ Lock(t) \/ Resolve(t) \/ Pick(t) \/ Receive(t)
  BY <1>1, <1>3 DEF Begin, Lock, Resolve, Pick, Receive, shared
<1>4. CASE Debit(t)
  <2>1. CASE /\ src[t] \in BatchId /\ LotSeen(t, src[t]) \in Lot /\ LotAfterDebit(t) \in Lot
             /\ LotAfterDebit(t).pair = LotSeen(t, src[t]).pair
             /\ Writes(t, src[t], LotAfterDebit(t))
    BY <1>0, <1>2, <2>1 DEF NoStrayLots
  <2> QED
    BY <1>0, <1>1, <1>4, <2>1, DebitWrites
<1>5. CASE Credit(t)
  <2>1. LabelIn(t) # NoLabel => Target(t) \notin Plain
    BY <1>5, CreditStray DEF Credit
  <2> QED
    BY <1>0, <1>1, <1>2, <1>5, <2>1, CreditWrites
<1>6. CASE Commit(t)
  BY <1>0, <1>6, CommitLots DEF NoStrayLots, LotSeen, Plain
<1>7. CASE Refuse(t) \/ Abort(t)
  BY <1>0, <1>7, UndoLots DEF NoStrayLots, Plain
<1> QED
  BY <1>3, <1>4, <1>5, <1>6, <1>7 DEF Proceed

LEMMA StepTakes ==
  ASSUME BaseInv, LotsInv, Stray, NEW t \in Tx, Begin(t) \/ Proceed(t) \/ Abort(t),
         NEW u \in Tx
  PROVE  TakesFromLot(u)'
<1>0. TypeOK /\ TakesFromLot(u) /\ NoStrayLots
  BY DEF BaseInv, Stray
<1>1. CASE u # t
  <2>1. pc'[u] = pc[u] /\ req'[u] = req[u] /\ todo'[u] = todo[u] /\ src'[u] = src[u]
    BY <1>0, <1>1, StepUntouched, LineUntouched DEF Untouched
  <2> QED
    BY <1>0, <2>1 DEF TakesFromLot, Debits, Current
<1>2. CASE u = t /\ Pick(t)
  <2>1. PICK s \in Sources :
           /\ ExpiresFirst(t, s) /\ src'[t] = s
           /\ pc[t] = "pick" /\ pc'[t] = "debit" /\ req' = req /\ todo' = todo
    BY <1>0, <1>2, PickFacts
  <2>2. s \in BatchId => At(Source(t), LotSeen(t, s))
    BY <2>1 DEF ExpiresFirst, LotsInv, PlansHold, Asked, PlanHolds, Debiting, OfferBacked, Has
  <2>3. s \in BatchId => Current(t).product \in Perishable
    BY <1>0, <2>1, <2>2, SourcePlain DEF NoStrayLots, At, Inside
  <2> QED
    BY <1>2, <2>1, <2>3 DEF TakesFromLot, Current
<1>3. CASE u = t /\ (Debit(t) \/ Receive(t) \/ Credit(t))
  <2>1. req' = req /\ src' = src /\ pc[t] \in {"debit", "receive", "credit"}
    BY <1>3 DEF Debit, Receive, Credit, line
  <2>2. pc'[t] \in {"debit", "receive", "credit"} => todo'[t] = todo[t]
    BY <1>0, <1>3 DEF Debit, Receive, Credit, LineDone, TypeOK
  <2> QED
    BY <1>0, <1>3, <2>1, <2>2 DEF TakesFromLot, Debits, Current
<1>4. CASE u = t /\ ~(Pick(t) \/ Debit(t) \/ Receive(t) \/ Credit(t))
  <2>1. pc'[t] \notin {"debit", "receive", "credit"} \/ ~Debits(t)'
    BY <1>0, <1>4 DEF Proceed, Begin, Lock, Resolve, Refuse, Commit, Abort, End, TypeOK, Debits
  <2> QED
    BY <1>4, <2>1 DEF TakesFromLot
<1> QED
  BY <1>1, <1>2, <1>3, <1>4

(* What an exit of a product without lots has been promised is there.      *)
BalanceCovers(t) ==
  Debits(t) /\ Source(t) \in Plain =>
    /\ pc[t] = "pick" /\ plan[t][NoBatch] > 0 =>
         Sum(View(t, Source(t))) >= plan[t][NoBatch]
    /\ pc[t] = "debit" => Sum(View(t, Source(t))) >= amt[t]

BalancesCover ==
  /\ \A p \in Plain : Sum(rows[p]) >= 0 /\ \A t \in Tx : Sum(View(t, p)) >= 0
  /\ \A t \in Tx : pc[t] \in {"pick", "debit"} => BalanceCovers(t)

LEMMA OthersCover ==
  ASSUME BaseInv, BalancesCover, NEW t \in Tx, NEW u \in Tx \ {t}, Untouched(t),
         plan'[u] = plan[u], amt'[u] = amt[u],
         \A p \in Pair : Holds(u, p) => View(u, p)' = View(u, p)
  PROVE  pc'[u] \in {"pick", "debit"} => BalanceCovers(u)'
<1> SUFFICES ASSUME pc'[u] \in {"pick", "debit"} PROVE BalanceCovers(u)'
  OBVIOUS
<1>1. pc'[u] = pc[u] /\ req'[u] = req[u] /\ todo'[u] = todo[u]
  BY DEF Untouched
<1>2. Source(u)' = Source(u) /\ Debits(u)' = Debits(u)
  BY <1>1, SameItem
<1>3. Source(u) \in Pair /\ Holds(u, Source(u))
  BY <1>1, CurrentType DEF BaseInv, WritesUnderLock, LocksCover, Working, Inside
<1>4. View(u, Source(u))' = View(u, Source(u))
  <2>1. rows'[Source(u)] \cup mine'[u][Source(u)] = View(u, Source(u))
    BY <1>3 DEF View
  <2> QED
    BY <1>2, <2>1 DEF View
<1>5. BalanceCovers(u)
  BY <1>1 DEF BalancesCover
<1>6. Sum(View(u, Source(u)))' = Sum(View(u, Source(u)))
  BY <1>4 DEF Sum, Qty
<1> QED
  BY <1>1, <1>2, <1>5, <1>6 DEF BalanceCovers, Plain

(* The sum of a plain pair as the item is resolved and its line is picked. *)
LEMMA ResolveCovers ==
  ASSUME Resolution = 1, NamesOwnLot, LedgerInv, RowsCounted, Stray, NEW t \in Tx, Resolve(t)
  PROVE  BalanceCovers(t)'
<1>1. PICK o \in Offers(t) : Covers(t, o) /\ plan' = [plan EXCEPT ![t] = o]
  BY DEF Resolve
<1>2. /\ pc[t] = "resolve" /\ pc'[t] = "pick" /\ plan'[t] = o /\ req' = req /\ todo' = todo
      /\ rows' = rows /\ mine' = mine /\ pc[t] \in Inside /\ TypeOK
  BY <1>1 DEF LedgerInv, BaseInv, TypeOK, Resolve, shared, Inside
<1>3. Source(t)' = Source(t) /\ Debits(t)' = Debits(t)
  BY <1>2, SameItem
<1> SUFFICES ASSUME Source(t) \in Plain, o[NoBatch] > 0
             PROVE  Sum(View(t, Source(t))) >= o[NoBatch]
  <2>1. View(t, Source(t))' = View(t, Source(t))
    BY <1>2, <1>3 DEF View
  <2>2. Sum(View(t, Source(t)))' = Sum(View(t, Source(t)))
    BY <2>1 DEF Sum, Qty
  <2> QED
    BY <1>2, <1>3, <2>2 DEF BalanceCovers, Plain
<1>4. ~UsesFefo(t) /\ Source(t) \in Pair
  BY <1>2, SourcePlain, CurrentType DEF UsesFefo
<1>5. PICK s \in Sources, n \in Int :
           /\ o = Only(s, n)
           /\ s \in BatchId => At(Source(t), LotSeen(t, s))
           /\ s = NoBatch => n \in CurrentStock(View(t, Source(t)))
  BY <1>1, <1>2, <1>4, OfferOfOne
<1>6. s = NoBatch
  BY <1>5 DEF Stray, NoStrayLots, At, Sources
<1>7. o[NoBatch] = n
  BY <1>5, <1>6, OnlyAt
<1>8. n = Sum(View(t, Source(t)))
  BY <1>4, <1>5, <1>6, StockReported
<1> QED
  BY <1>7, <1>8

LEMMA PickCovers ==
  ASSUME BaseInv, LotsInv, RowsCounted, Stray, BalancesCover, NEW t \in Tx, Pick(t)
  PROVE  BalanceCovers(t)'
<1>1. PICK s \in Sources :
           /\ ExpiresFirst(t, s) /\ src'[t] = s /\ amt'[t] = Take(t, s)
           /\ pc[t] = "pick" /\ pc'[t] = "debit" /\ req' = req /\ todo' = todo
           /\ UNCHANGED <<rows, lots, mine, dirty>>
  BY PickFacts DEF BaseInv
<1>2. Source(t)' = Source(t) /\ Debits(t)' = Debits(t) /\ Source(t) \in Pair
  BY <1>1, SameItem, CurrentType DEF BaseInv, Inside
<1> SUFFICES ASSUME Source(t) \in Plain
             PROVE  Sum(View(t, Source(t))) >= Take(t, s)
  <2>1. View(t, Source(t))' = View(t, Source(t))
    BY <1>1, <1>2 DEF View
  <2>2. Sum(View(t, Source(t)))' = Sum(View(t, Source(t)))
    BY <2>1 DEF Sum, Qty
  <2> QED
    BY <1>1, <1>2, <2>2 DEF BalanceCovers, Plain
<1>3. Asked(t) /\ Debits(t) /\ OfferBacked(t) /\ OfferEnough(t)
  BY <1>1 DEF LotsInv, PlansHold, Asked, PlanHolds, Debiting
<1>4. plan[t][s] > 0 /\ plan[t][s] \in Int /\ need[t] \in Nat
  BY <1>1 DEF ExpiresFirst, BaseInv, TypeOK, Sources
<1>5. s = NoBatch
  <2>1. s \in BatchId => At(Source(t), LotSeen(t, s))
    BY <1>3, <1>4 DEF OfferBacked, Has
  <2> QED
    BY <2>1 DEF Stray, NoStrayLots, At, Sources
<1>6. Sum(View(t, Source(t))) >= plan[t][NoBatch]
  BY <1>1, <1>3, <1>4, <1>5 DEF BalancesCover, BalanceCovers
<1>7. Take(t, s) <= plan[t][s] /\ Take(t, s) \in Int
  BY <1>3, <1>4 DEF Take, OfferEnough
<1>8. Sum(View(t, Source(t))) \in Int
  BY <1>2, SumsExist DEF BaseInv
<1> QED
  BY <1>4, <1>5, <1>6, <1>7, <1>8

LEMMA StepBalances ==
  ASSUME Resolution = 1, NamesOwnLot, LedgerInv, LotsInv, RowsCounted, Stray, BalancesCover,
         NEW t \in Tx, Begin(t) \/ Proceed(t) \/ Abort(t)
  PROVE  BalancesCover'
<1>0. BaseInv /\ TypeOK /\ SourcesExist
  BY DEF LedgerInv, BaseInv
<1>1. Untouched(t) /\ \A u \in Tx \ {t} : plan'[u] = plan[u] /\ amt'[u] = amt[u]
  BY <1>0, StepUntouched, LineUntouched
<1>2. ASSUME \A u \in Tx \ {t}, p \in Pair : Holds(u, p) => View(u, p)' = View(u, p),
             pc'[t] \in {"pick", "debit"} => BalanceCovers(t)',
             \A p \in Plain : Sum(rows'[p]) >= 0 /\ \A u \in Tx : Sum(View(u, p)') >= 0
      PROVE  BalancesCover'
  <2>1. \A u \in Tx \ {t} : pc'[u] \in {"pick", "debit"} => BalanceCovers(u)'
    BY <1>0, <1>1, <1>2, OthersCover
  <2> QED
    BY <1>2, <2>1 DEF BalancesCover, Sum, Qty, Plain
<1>3. ASSUME NEW p \in Plain, NEW S, S = rows[p] \/ \E u \in Tx : S = View(u, p)
      PROVE  Sum(S) >= 0
  BY <1>3 DEF BalancesCover
<1>4. CASE Begin(t) \/ Lock(t) \/ Resolve(t) \/ Pick(t) \/ Receive(t)
  <2>1. UNCHANGED <<rows, mine, clock>>
    BY <1>4 DEF Begin, Lock, Resolve, Pick, Receive, shared
  <2>2. \A u \in Tx, p \in Pair : View(u, p)' = View(u, p)
    BY <2>1, QuietViews
  <2>3. pc'[t] \in {"pick", "debit"} => BalanceCovers(t)'
    <3>1. CASE Begin(t) \/ Lock(t) \/ Receive(t)
      BY <1>0, <3>1 DEF Begin, Lock, Receive, TypeOK
    <3> QED
      BY <1>0, <1>4, <3>1, ResolveCovers, PickCovers
  <2>4. \A p \in Plain : Sum(rows'[p]) >= 0 /\ \A u \in Tx : Sum(View(u, p)') >= 0
    BY <1>3, <2>1, <2>2, PlainPair
  <2> QED
    BY <1>2, <2>2, <2>3, <2>4
<1>5. CASE Debit(t)
  <2>1. \A p \in Pair :
         /\ p = Source(t) => Sum(View(t, p)') = Sum(View(t, p)) - amt[t]
         /\ p # Source(t) => View(t, p)' = View(t, p)
         /\ \A u \in Tx \ {t} : View(u, p)' = View(u, p)
    BY <1>0, <1>5, DebitSum
  <2>2. pc[t] = "debit" /\ rows' = rows /\ amt[t] \in Int /\ need' = need
    BY <1>0, <1>5, WriteInserts DEF Debit, line
  <2>3. Debits(t) /\ LineTaken(t)
    BY <2>2 DEF LotsInv, PlansHold, Asked, PlanHolds, Debiting
  <2>4. \A p \in Plain : p = Source(t) => Sum(View(t, p)) >= amt[t]
    BY <2>2, <2>3 DEF BalancesCover, BalanceCovers
  <2>5. \A p \in Plain : Sum(View(t, p)') >= 0
    <3> SUFFICES ASSUME NEW p \in Plain PROVE Sum(View(t, p)') >= 0
      OBVIOUS
    <3>1. p \in Pair /\ Sum(View(t, p)) \in Int
      BY <1>0, PlainPair, SumsExist
    <3>2. CASE p = Source(t)
      BY <2>1, <2>2, <2>4, <3>1, <3>2
    <3>3. CASE p # Source(t)
      BY <1>3, <2>1, <3>1, <3>3
    <3> QED
      BY <3>2, <3>3
  <2>6. \A p \in Plain : Sum(rows'[p]) >= 0 /\ \A u \in Tx : Sum(View(u, p)') >= 0
    BY <1>3, <2>1, <2>2, <2>5, PlainPair
  <2>7. pc'[t] \in {"pick", "debit"} => BalanceCovers(t)'
    <3>1. CASE pc'[t] = "pick" /\ Source(t)' \in Plain
      <4>1. need[t] > 0 /\ todo'[t] = todo[t] /\ req' = req
        BY <1>0, <1>5, <3>1 DEF Debit, LineDone, TypeOK
      <4>2. UsesFefo(t)
        BY <1>0, <2>3, <4>1 DEF LineTaken, TypeOK
      <4>3. Source(t)' = Source(t)
        BY <4>1, SameItem
      <4> QED
        BY <1>0, <2>2, <3>1, <4>2, <4>3, SourcePlain DEF UsesFefo, Inside
    <3>2. pc'[t] # "debit"
      BY <1>0, <1>5 DEF Debit, LineDone, TypeOK
    <3> QED
      BY <3>1, <3>2 DEF BalanceCovers, Plain
  <2> QED
    BY <1>2, <2>1, <2>6, <2>7
<1>6. CASE Credit(t)
  <2>1. \A p \in Pair :
         /\ p = Target(t) => Sum(View(t, p)') = Sum(View(t, p)) + amt[t]
         /\ p # Target(t) => View(t, p)' = View(t, p)
         /\ \A u \in Tx \ {t} : View(u, p)' = View(u, p)
    BY <1>0, <1>6, CreditSum
  <2>2. pc[t] = "credit" /\ rows' = rows /\ amt[t] \in Nat
    BY <1>0, <1>6, WriteInserts DEF Credit
  <2>3. \A p \in Plain : Sum(View(t, p)') >= 0
    <3> SUFFICES ASSUME NEW p \in Plain PROVE Sum(View(t, p)') >= 0
      OBVIOUS
    <3>1. p \in Pair /\ Sum(View(t, p)) \in Int /\ Sum(View(t, p)) >= 0
      BY <1>0, <1>3, PlainPair, SumsExist
    <3>2. CASE p = Target(t)
      BY <2>1, <2>2, <3>1, <3>2
    <3>3. CASE p # Target(t)
      BY <2>1, <3>1, <3>3
    <3> QED
      BY <3>2, <3>3
  <2>4. \A p \in Plain : Sum(rows'[p]) >= 0 /\ \A u \in Tx : Sum(View(u, p)') >= 0
    BY <1>3, <2>1, <2>2, <2>3, PlainPair
  <2>5. pc'[t] \in {"pick", "debit"} => BalanceCovers(t)'
    <3>1. CASE pc'[t] = "pick" /\ Source(t)' \in Plain /\ Debits(t)'
      <4>1. need[t] > 0 /\ todo'[t] = todo[t] /\ req' = req
        BY <1>0, <1>6, <3>1 DEF Credit, LineDone, TypeOK
      <4>2. Debits(t) /\ Source(t)' = Source(t)
        BY <3>1, <4>1, SameItem
      <4>3. UsesFefo(t)
        <5>1. LineTaken(t)
          BY <2>2, <4>2 DEF LotsInv, PlansHold, PlanHolds, Debiting
        <5>2. need[t] # 0
          BY <4>1
        <5> QED
          BY <5>1, <5>2 DEF LineTaken
      <4> QED
        BY <1>0, <2>2, <3>1, <4>2, <4>3, SourcePlain DEF UsesFefo, Inside
    <3>2. pc'[t] # "debit"
      BY <1>0, <1>6 DEF Credit, LineDone, TypeOK
    <3> QED
      BY <3>1, <3>2 DEF BalanceCovers, Plain
  <2> QED
    BY <1>2, <2>1, <2>4, <2>5
<1>7. CASE Commit(t)
  <2>1. /\ \A p \in Pair : rows'[p] = View(t, p)
        /\ \A u \in Tx, p \in Pair : View(u, p)' \in {View(t, p), View(u, p)}
        /\ \A u \in Tx \ {t}, p \in Pair : Holds(u, p) => View(u, p)' = View(u, p)
    BY <1>0, <1>7, CommitViews
  <2>2. pc'[t] = "done"
    BY <1>0, <1>7 DEF Commit, End, TypeOK
  <2>3. \A p \in Plain : Sum(rows'[p]) >= 0 /\ \A u \in Tx : Sum(View(u, p)') >= 0
    BY <1>3, <2>1, PlainPair
  <2> QED
    BY <1>2, <2>1, <2>2, <2>3
<1>8. CASE Refuse(t) \/ Abort(t)
  <2>1. /\ rows' = rows
        /\ \A u \in Tx \ {t}, p \in Pair : View(u, p)' = View(u, p)
        /\ \A p \in Pair : View(t, p)' = rows[p]
    BY <1>0, <1>8, UndoViews
  <2>2. pc'[t] \in {"refused", "failed"}
    BY <1>0, <1>8 DEF Refuse, Abort, End, TypeOK
  <2>3. \A p \in Plain : Sum(rows'[p]) >= 0 /\ \A u \in Tx : Sum(View(u, p)') >= 0
    BY <1>3, <2>1, PlainPair
  <2> QED
    BY <1>2, <2>1, <2>2, <2>3
<1> QED
  BY <1>4, <1>5, <1>6, <1>7, <1>8 DEF Proceed

LEMMA InitStock == Init => Stray /\ BalancesCover
<1> SUFFICES ASSUME Init PROVE Stray /\ BalancesCover
  OBVIOUS
<1>1. \A b \in BatchId : lots[b] = NoLot /\ \A t \in Tx : LotSeen(t, b) = NoLot
  BY DEF Init, LotSeen
<1>2. \A t \in Tx : pc[t] = "idle"
  BY DEF Init
<1>3. Stray
  BY <1>1, <1>2 DEF Stray, NoStrayLots, TakesFromLot
<1>4. \A p \in Pair : rows[p] = {} /\ \A t \in Tx : View(t, p) = {}
  BY DEF Init, View
<1>5. \A p \in Plain : Sum(rows[p]) = 0 /\ \A t \in Tx : Sum(View(t, p)) = 0
  BY <1>4, PlainPair, SumOfNone
<1>6. \A p \in Plain : Sum(rows[p]) >= 0 /\ \A t \in Tx : Sum(View(t, p)) >= 0
  BY <1>5
<1> QED
  BY <1>2, <1>3, <1>6 DEF BalancesCover

LEMMA StutterStock ==
  ASSUME Stray, BalancesCover, UNCHANGED vars
  PROVE  Stray' /\ BalancesCover'
<1>1. Stray'
  BY DEF Stray, NoStrayLots, TakesFromLot, LotSeen, Plain, Debits, Current, vars
<1>2. \A t \in Tx, p \in Pair : View(t, p)' = View(t, p)
  BY QuietViews DEF vars
<1>3. \A p \in Plain : Sum(rows'[p]) >= 0 /\ \A t \in Tx : Sum(View(t, p)') >= 0
  BY <1>2, PlainPair DEF BalancesCover, vars
<1>4. \A t \in Tx : BalanceCovers(t) => BalanceCovers(t)'
  BY DEF BalanceCovers, Plain, Debits, Source, Current, View, Sum, Qty, vars
<1>5. \A t \in Tx : pc'[t] \in {"pick", "debit"} => BalanceCovers(t)'
  BY <1>4 DEF BalancesCover, vars
<1> QED
  BY <1>1, <1>3, <1>5 DEF BalancesCover, Sum, Qty, Plain

(* Everything that keeps stock from being sold twice.                      *)
StockInv == LedgerInv /\ BooksInv /\ Stray /\ BalancesCover

LEMMA StockInductive ==
  ASSUME Resolution = 1, NamesOwnLot, LabelsOnlyPerishables
  PROVE  Spec => []StockInv
<1>1. Init => StockInv
  BY InitLedger, InitBase, InitCounted, InitLots, InitItems, InitLoose, InitStock
  DEF StockInv, BooksInv
<1>2. StockInv /\ [Next]_vars => StockInv'
  <2> SUFFICES ASSUME StockInv, [Next]_vars PROVE StockInv'
    OBVIOUS
  <2>1. CASE UNCHANGED vars
    BY <2>1, StutterLedger, StutterBase, StutterCounted, StutterLots, StutterItems,
       StutterLoose, StutterStock
    DEF StockInv, BooksInv
  <2>2. ASSUME NEW t \in Tx, Begin(t) \/ Proceed(t) \/ Abort(t)
        PROVE  StockInv'
    <3>1. LedgerInv' /\ BooksInv'
      BY <2>2, StepKeepsLedger, StepBase, StepCounted, StepLots, StepItems, StepLoose
      DEF StockInv, BooksInv
    <3>2. NoStrayLots' /\ \A u \in Tx : TakesFromLot(u)'
      BY <2>2, StepNoStray, StepTakes DEF StockInv, BooksInv
    <3>3. BalancesCover'
      BY <2>2, StepBalances DEF StockInv, BooksInv
    <3> QED
      BY <3>1, <3>2, <3>3 DEF StockInv, Stray
  <2> QED
    BY <2>1, <2>2 DEF Next
<1> QED
  BY <1>1, <1>2, PTL DEF Spec

LEMMA EveryBalance ==
  ASSUME StockInv, NEW p \in Pair
  PROVE  Sum(rows[p]) \in Int /\ Sum(rows[p]) >= 0
<1>0. BaseInv /\ TypeOK /\ RowsCounted /\ LotsNotNegative /\ LotsWithin
  BY DEF StockInv, BooksInv, BaseInv, LotsInv
<1>1. Sum(rows[p]) \in Int
  BY <1>0, SumsExist
<1>2. CASE p \in Plain
  BY <1>1, <1>2 DEF StockInv, BalancesCover
<1>3. CASE p \notin Plain
  <2>1. p \in Perishable \X Store
    BY <1>3 DEF Pair, Plain
  <2>2. LooseNow(p) >= 0
    BY <1>0, <2>1 DEF LotsWithin
  <2>3. \A b \in BatchId : LotUnitsNow(p)[b] \in Int /\ LotUnitsNow(p)[b] >= 0
    <3>1. \A b \in BatchId : LotUnitsNow(p)[b] \in Int
      BY <1>0, LotUnitsType
    <3>2. \A b \in BatchId : InLotsOf(p, lots[b]) >= 0
      BY <1>0 DEF LotsNotNegative, InLotsOf
    <3> QED
      BY <3>1, <3>2 DEF LotUnitsNow
  <2>4. InLotsNow(p) \in Nat
    BY <2>3, SumNotNegative DEF InLotsNow, Units
  <2> QED
    BY <1>1, <2>2, <2>4 DEF LooseNow
<1> QED
  BY <1>2, <1>3

(* If no two movements of a pair share a created_at, operators name only   *)
(* lots of the product and store of their line, and only perishable        *)
(* products get lots, then no committed balance and no committed lot is    *)
(* ever below zero: resolveExitLines' check, made once per line before its *)
(* movements are written, is still good when they are.                     *)
THEOREM NothingOversold ==
  ASSUME Resolution = 1, NamesOwnLot, LabelsOnlyPerishables
  PROVE  Spec => []NoOversell
<1>1. StockInv => NoOversell
  BY EveryBalance DEF StockInv, BooksInv, LotsInv, LotsNotNegative, NoOversell
<1> QED
  BY <1>1, StockInductive, PTL

--------------------------------------------------------------------------------
(* A refused exit really lacks the units.                                  *)

LEMMA PlainRefusal ==
  ASSUME Resolution = 1, LedgerInv, RowsCounted, NEW t \in Tx, pc[t] = "resolve",
         ~Current(t).manual, ~UsesFefo(t), NEW o \in Offers(t), ~Covers(t, o)
  PROVE  Sum(View(t, Source(t))) < Current(t).qty
<1>1. TypeOK /\ pc[t] \in Inside
  BY DEF LedgerInv, BaseInv, Inside
<1>2. Source(t) \in Pair /\ Current(t).qty \in Nat
  BY <1>1, CurrentType, ItemFields
<1>3. CurrentStock(View(t, Source(t))) = {Sum(View(t, Source(t)))}
  BY <1>2, StockReported
<1>4. o = Only(NoBatch, Sum(View(t, Source(t))))
  BY <1>3 DEF Offers
<1>5. o[NoBatch] = Sum(View(t, Source(t)))
  BY <1>4, OnlyAt DEF Sources
<1>6. ~(o[NoBatch] >= Current(t).qty)
  BY DEF Covers
<1>7. Sum(View(t, Source(t))) \in Int
  BY <1>1, <1>2, SumsExist
<1> QED
  BY <1>2, <1>5, <1>6, <1>7

LEMMA FefoRefusal ==
  ASSUME LotsExact, BooksInv, NEW t \in Tx, pc[t] = "resolve",
         UsesFefo(t), NEW o \in Offers(t), ~Covers(t, o)
  PROVE  Sum(View(t, Source(t))) < Current(t).qty
<1> DEFINE p == Source(t)
           f == LotUnits(t, p)
<1>0. TypeOK /\ RowsCounted /\ pc[t] \in Inside
  BY DEF BooksInv, BaseInv, Inside
<1>1. p \in Pair /\ Current(t).qty \in Nat /\ Current(t).product \in Perishable
      /\ p \in Perishable \X Store
  BY <1>0, CurrentType, ItemFields DEF UsesFefo, Source, Pair
<1>2. Loose(t, p) = 0 /\ Sum(View(t, p)) \in Int /\ InLots(t, p) \in Int
  BY <1>0, <1>1, LotUnitsType, SumsExist DEF LotsExact
<1>3. \A b \in BatchId : f[b] \in Int
  BY <1>0, <1>1, LotUnitsType
<1>4. \A b \in BatchId : o[b] \in Int /\ f[b] <= o[b]
  <2>1. \A b \in BatchId :
          /\ o[b] = IF At(p, LotSeen(t, b)) /\ LotSeen(t, b).qty > 0
                    THEN LotSeen(t, b).qty ELSE 0
          /\ o[b] \in Nat
    BY <1>0, OfferOfLots
  <2>2. \A b \in BatchId : f[b] = IF At(p, LotSeen(t, b)) THEN LotSeen(t, b).qty ELSE 0
    BY DEF LotUnits, InLotsOf, At
  <2> HIDE DEF f, p
  <2>3. \A b \in BatchId : o[b] \in Int /\ (o[b] = f[b] \/ (o[b] = 0 /\ ~(f[b] > 0)))
    BY <2>1, <2>2
  <2> QED
    BY <1>3, <2>3
<1>5. SumFunctionOnSet(f, BatchId) <= SumFunctionOnSet(o, BatchId)
  <2> HIDE DEF f
  <2> QED
    BY <1>3, <1>4, SumMonotonic
<1>6. Units(o) \in Int /\ ~(Units(o) >= Current(t).qty)
  BY <1>4, SumType DEF Covers, Units
<1>7. InLots(t, p) <= Units(o)
  BY <1>5 DEF InLots, Units
<1>8. Sum(View(t, p)) = InLots(t, p)
  BY <1>2 DEF Loose
<1> HIDE DEF p
<1>9. Sum(View(t, p)) < Current(t).qty
  BY <1>1, <1>2, <1>6, <1>7, <1>8
<1> QED
  BY <1>9 DEF p

(* An exit that names no lot is refused only when the movements of its     *)
(* pair, its own transaction's included, add up to less than it asks for:  *)
(* whatever else commits while it runs, ConflictError is never a false     *)
(* alarm, if movements can be told apart by created_at and the lots of a   *)
(* perishable product are its whole stock.                                 *)
THEOREM NoFalseRefusal ==
  ASSUME Resolution = 1, NamesOwnLot, LabelsPerishables
  PROVE  Spec => RefusedOnlyWhenShort
<1>1. ASSUME LedgerInv, BooksInv, LotsExact, [Next]_vars,
             NEW t \in Tx, pc[t] = "resolve", pc'[t] = "refused", ~Current(t).manual
      PROVE  Sum(View(t, Source(t))) < Current(t).qty
  <2>0. TypeOK
    BY <1>1 DEF LedgerInv, BaseInv
  <2>1. PICK u \in Tx : Begin(u) \/ Proceed(u) \/ Abort(u)
    BY <1>1 DEF Next, vars
  <2>2. u = t
    BY <1>1, <2>0, <2>1, StepUntouched DEF Untouched
  <2>3. ~Abort(t) /\ ~Begin(t) /\ ~Lock(t) /\ ~Resolve(t) /\ ~Pick(t) /\ ~Debit(t)
        /\ ~Receive(t) /\ ~Credit(t) /\ ~Commit(t)
    BY <1>1, <2>0
    DEF Abort, End, Begin, Lock, Resolve, Pick, Debit, Receive, Credit, Commit, TypeOK
  <2>4. PICK o \in Offers(t) : ~Covers(t, o)
    BY <2>1, <2>2, <2>3 DEF Proceed, Refuse
  <2> QED
    BY <1>1, <2>4, PlainRefusal, FefoRefusal DEF BooksInv
<1>2. LedgerInv /\ BooksInv /\ LotsExact /\ [Next]_vars =>
        (\A t \in Tx :
           pc[t] = "resolve" /\ pc'[t] = "refused" /\ ~Current(t).manual =>
             Sum(View(t, Source(t))) < Current(t).qty)
  BY <1>1
<1> QED
  BY <1>2, LedgerInductive, BooksInductive, ExactInductive, PTL
  DEF Spec, RefusedOnlyWhenShort

--------------------------------------------------------------------------------
(* The atomic book.  At every moment a transaction has moved what its      *)
(* finished items ask for and a known part of the current one.             *)

Moved(t, p) == Sum(View(t, p)) - Sum(rows[p])

Changes(r, p) == [n \in DOMAIN r.items |-> Change(r, r.items[n], p)]

Posted(t, p) == SumFunctionOnSet(Changes(req[t], p), 1 .. Finished(t))

Out(t) ==
  IF pc[t] \in Debiting /\ Debits(t)
  THEN Current(t).qty - need[t] - (IF pc[t] = "debit" THEN amt[t] ELSE 0)
  ELSE 0

In(t) ==
  IF pc[t] \in Debiting /\ Debits(t) /\ Credits(t)
  THEN Current(t).qty - need[t] - (IF pc[t] = "pick" THEN 0 ELSE amt[t])
  ELSE 0

Part(t, p) ==
  (IF p = Target(t) THEN In(t) ELSE 0) - (IF p = Source(t) THEN Out(t) ELSE 0)

Accounted(t) ==
  /\ pc[t] = "credit" /\ ~Debits(t) => amt[t] = Current(t).qty
  /\ \A p \in Pair :
       /\ pc[t] = "idle" => Moved(t, p) = 0
       /\ pc[t] \in Inside \cup {"commit"} => Moved(t, p) = Posted(t, p) + Part(t, p)

AllAccounted == \A t \in Tx : Accounted(t)

LEMMA MovedType ==
  ASSUME TypeOK, RowsCounted, NEW t \in Tx, NEW p \in Pair
  PROVE  Moved(t, p) \in Int
BY SumsExist DEF Moved

LEMMA ChangesType ==
  ASSUME TypeOK, NEW t \in Tx, NEW p \in Pair
  PROVE  \A n \in DOMAIN req[t].items : Changes(req[t], p)[n] \in Int
<1> SUFFICES ASSUME NEW n \in DOMAIN req[t].items
             PROVE  Change(req[t], req[t].items[n], p) \in Int
  BY DEF Changes
<1>1. req[t].items[n] \in Item
  BY ItemsOfRequest
<1>2. req[t].items[n].qty \in Int
  BY <1>1, ItemFields
<1> QED
  BY <1>2 DEF Change

LEMMA PostedType ==
  ASSUME TypeOK, NEW t \in Tx, ItemsLeft(t), pc[t] \in Inside \cup {"commit"}, NEW p \in Pair
  PROVE  /\ Finished(t) \in Nat /\ IsFiniteSet(1 .. Finished(t))
         /\ \A n \in 1 .. Finished(t) : n \in DOMAIN req[t].items
         /\ Posted(t, p) \in Int
<1>1. Finished(t) \in Int /\ Finished(t) >= 0 /\ Finished(t) <= Len(req[t].items)
  <2> DEFINE n == Len(req[t].items)
             m == Len(todo[t])
             k == Finished(t)
  <2>1. n \in Nat /\ m \in Nat
    BY ItemsOfRequest
  <2>2. k = n - m
    BY DEF Finished
  <2>3. k >= 0
    BY DEF ItemsLeft
  <2> HIDE DEF n, m, k
  <2>4. k \in Int /\ k >= 0 /\ k <= n
    BY <2>1, <2>2, <2>3
  <2> QED
    BY <2>4 DEF n, k
<1>2. IsFiniteSet(1 .. Finished(t))
  BY <1>1, FS_Interval
<1>3. \A n \in 1 .. Finished(t) : n \in DOMAIN req[t].items
  BY <1>1, ItemsOfRequest
<1>4. \A n \in 1 .. Finished(t) : Changes(req[t], p)[n] \in Int
  BY <1>3, ChangesType
<1>5. Posted(t, p) \in Int
  BY <1>2, <1>4, SumType DEF Posted
<1> QED
  BY <1>1, <1>2, <1>3, <1>5

LEMMA PostedSame ==
  ASSUME NEW t \in Tx, req'[t] = req[t], todo'[t] = todo[t], NEW p \in Pair
  PROVE  Posted(t, p)' = Posted(t, p)
BY DEF Posted, Finished, Changes, Change

LEMMA PostedNext ==
  ASSUME TypeOK, NEW t \in Tx, ItemsLeft(t), pc[t] \in Inside, NEW p \in Pair,
         req'[t] = req[t], todo'[t] = Tail(todo[t])
  PROVE  Posted(t, p)' = Posted(t, p) + Change(req[t], Current(t), p)
<1> DEFINE k == Finished(t)
           f == Changes(req[t], p)
<1>1. /\ k \in Nat /\ k + 1 \in DOMAIN req[t].items
      /\ Current(t) = req[t].items[k + 1]
  BY CurrentOfRequest
<1>2. IsFiniteSet(1 .. k) /\ \A n \in 1 .. k : f[n] \in Int
  BY PostedType, ChangesType
<1>3. f[k + 1] = Change(req[t], Current(t), p) /\ f[k + 1] \in Int
  BY <1>1, ChangesType DEF Changes
<1>4. Finished(t)' = k + 1
  <2>1. todo[t] # <<>> /\ todo[t] \in Seq(Item) /\ Len(req[t].items) \in Nat
    BY ItemsOfRequest DEF TypeOK
  <2>2. Len(todo[t]) \in Nat /\ Len(todo'[t]) = Len(todo[t]) - 1
    BY <2>1, TailFacts
  <2>3. Finished(t)' = Len(req[t].items) - Len(todo'[t]) /\ k = Len(req[t].items) - Len(todo[t])
    BY DEF Finished
  <2> QED
    BY <2>1, <2>2, <2>3
<1>5. Changes(req[t], p)' = f
  BY DEF Changes, Change
<1>6. Posted(t, p)' = SumFunctionOnSet(f, 1 .. k + 1)
  BY <1>4, <1>5 DEF Posted
<1> HIDE DEF k, f
<1>7. 1 .. k + 1 = (1 .. k) \cup {k + 1} /\ k + 1 \notin 1 .. k
  BY <1>1
<1>8. SumFunctionOnSet(f, (1 .. k) \cup {k + 1}) = SumFunctionOnSet(f, 1 .. k) + f[k + 1]
  BY <1>2, <1>3, <1>7, SumAdd
<1> QED
  BY <1>3, <1>6, <1>7, <1>8 DEF Posted, k, f

LEMMA ChangeNow ==
  ASSUME NEW t \in Tx, NEW p \in Pair
  PROVE  Change(req[t], Current(t), p) =
           (IF Credits(t) /\ p = Target(t) THEN Current(t).qty ELSE 0)
           - (IF Debits(t) /\ p = Source(t) THEN Current(t).qty ELSE 0)
BY DEF Change, Credits, Debits, Target, Source

LEMMA PartsType ==
  ASSUME TypeOK, NEW t \in Tx
  PROVE  /\ In(t) \in Int /\ Out(t) \in Int
         /\ \A p \in Pair : Part(t, p) \in Int
<1>1. CASE pc[t] \in Debiting
  <2>1. Current(t).qty \in Int
    BY <1>1, CurrentType, ItemFields DEF Debiting, Inside
  <2>2. need[t] \in Int /\ amt[t] \in Int
    BY DEF TypeOK
  <2>3. In(t) \in Int /\ Out(t) \in Int
    BY <2>1, <2>2 DEF In, Out
  <2> QED
    BY <2>3 DEF Part
<1>2. CASE pc[t] \notin Debiting
  BY <1>2 DEF In, Out, Part
<1> QED
  BY <1>1, <1>2

(* A step within a line moves d out of the one pair and c into the other.  *)
LEMMA SameLine ==
  ASSUME TypeOK, RowsCounted, NEW t \in Tx, ItemsLeft(t), Accounted(t), pc[t] \in Inside,
         req'[t] = req[t], todo'[t] = todo[t],
         NEW c \in Int, NEW d \in Int, In(t)' = In(t) + c, Out(t)' = Out(t) + d,
         NEW p \in Pair,
         Moved(t, p)' = Moved(t, p) + ((IF p = Target(t) THEN c ELSE 0)
                                       - (IF p = Source(t) THEN d ELSE 0))
  PROVE  Moved(t, p)' = Posted(t, p)' + Part(t, p)'
<1>1. Posted(t, p)' = Posted(t, p) /\ Source(t)' = Source(t) /\ Target(t)' = Target(t)
  BY PostedSame, SameItem
<1>2. Moved(t, p) = Posted(t, p) + Part(t, p) /\ Posted(t, p) \in Int
      /\ In(t) \in Int /\ Out(t) \in Int
  BY PostedType, PartsType DEF Accounted
<1>3. Part(t, p)' = Part(t, p) + ((IF p = Target(t) THEN c ELSE 0)
                                  - (IF p = Source(t) THEN d ELSE 0))
  BY <1>1, <1>2 DEF Part
<1>4. Part(t, p) \in Int
  BY PartsType
<1> QED
  BY <1>1, <1>2, <1>3, <1>4

(* The step that finishes an item makes up its whole change.               *)
LEMMA NextItem ==
  ASSUME TypeOK, RowsCounted, NEW t \in Tx, ItemsLeft(t), Accounted(t), pc[t] \in Inside,
         req'[t] = req[t], todo'[t] = Tail(todo[t]), pc'[t] \in {"lock", "commit"},
         NEW c \in Int, NEW d \in Int,
         In(t) + c = IF Credits(t) THEN Current(t).qty ELSE 0,
         Out(t) + d = IF Debits(t) THEN Current(t).qty ELSE 0,
         NEW p \in Pair,
         Moved(t, p)' = Moved(t, p) + ((IF p = Target(t) THEN c ELSE 0)
                                       - (IF p = Source(t) THEN d ELSE 0))
  PROVE  Moved(t, p)' = Posted(t, p)' + Part(t, p)'
<1>1. Posted(t, p)' = Posted(t, p) + Change(req[t], Current(t), p)
  BY PostedNext
<1>2. Moved(t, p) = Posted(t, p) + Part(t, p) /\ Posted(t, p) \in Int
      /\ In(t) \in Int /\ Out(t) \in Int
  BY PostedType, PartsType DEF Accounted
<1>3. Part(t, p)' = 0
  BY DEF Part, In, Out, Debiting
<1>4. Change(req[t], Current(t), p) =
        Part(t, p) + ((IF p = Target(t) THEN c ELSE 0) - (IF p = Source(t) THEN d ELSE 0))
  <2> DEFINE q == Current(t).qty
  <2>1. Change(req[t], Current(t), p) = (IF Credits(t) /\ p = Target(t) THEN q ELSE 0)
                                         - (IF Debits(t) /\ p = Source(t) THEN q ELSE 0)
    BY ChangeNow
  <2>2. q \in Int
    BY CurrentType, ItemFields
  <2> HIDE DEF q
  <2>3. (IF Credits(t) THEN q ELSE 0) = In(t) + c /\ (IF Debits(t) THEN q ELSE 0) = Out(t) + d
    BY DEF q
  <2>4. (IF Credits(t) /\ p = Target(t) THEN q ELSE 0) = IF p = Target(t) THEN In(t) + c ELSE 0
    BY <2>3
  <2>5. (IF Debits(t) /\ p = Source(t) THEN q ELSE 0) = IF p = Source(t) THEN Out(t) + d ELSE 0
    BY <2>3
  <2> QED
    BY <1>2, <2>1, <2>4, <2>5 DEF Part
<1>5. Part(t, p) \in Int
  BY PartsType
<1> QED
  BY <1>1, <1>2, <1>3, <1>4, <1>5

LEMMA OthersMoved ==
  ASSUME BaseInv, RowsCounted, NEW t \in Tx, Begin(t) \/ Proceed(t) \/ Abort(t),
         NEW u \in Tx \ {t}, NEW p \in Pair
  PROVE  Moved(u, p)' = Moved(u, p)
<1>0. TypeOK
  BY DEF BaseInv
<1>1. CASE Begin(t) \/ Lock(t) \/ Resolve(t) \/ Pick(t) \/ Receive(t)
  BY <1>1 DEF Moved, View, Sum, Qty, Begin, Lock, Resolve, Pick, Receive, shared
<1>2. CASE Debit(t) \/ Credit(t)
  <2>1. rows' = rows /\ View(u, p)' = View(u, p)
    BY <1>0, <1>2, WriteInserts, DebitSum, CreditSum
  <2> QED
    BY <2>1 DEF Moved, Sum, Qty
<1>3. CASE Refuse(t) \/ Abort(t)
  <2>1. rows' = rows /\ View(u, p)' = View(u, p)
    BY <1>3, UndoViews
  <2> QED
    BY <2>1 DEF Moved, Sum, Qty
<1>4. CASE Commit(t)
  <2>1. rows'[p] = View(t, p) /\ mine'[u] = mine[u]
    BY <1>0, <1>4, CommitViews, StepUntouched DEF Untouched
  <2>2. CASE mine[u][p] = {}
    <3>1. View(u, p) = rows[p] /\ View(u, p)' = rows'[p]
      BY <2>1, <2>2 DEF View
    <3>2. Moved(u, p) = Sum(rows[p]) - Sum(rows[p]) /\ Sum(rows[p]) \in Int
      BY <1>0, <3>1, SumsExist DEF Moved
    <3>3. Moved(u, p)' = Sum(View(t, p)) - Sum(View(t, p)) /\ Sum(View(t, p)) \in Int
      BY <1>0, <2>1, <3>1, SumsExist DEF Moved, Sum, Qty
    <3> QED
      BY <3>2, <3>3
  <2>3. CASE mine[u][p] # {}
    <3>1. Holds(u, p) /\ mine[t][p] = {}
      BY <2>3, OneHolder DEF BaseInv, WritesUnderLock, LocksCover
    <3>2. rows'[p] = rows[p] /\ View(u, p)' = View(u, p)
      BY <2>1, <3>1 DEF View
    <3> QED
      BY <3>2 DEF Moved, Sum, Qty
  <2> QED
    BY <2>2, <2>3
<1> QED
  BY <1>1, <1>2, <1>3, <1>4 DEF Proceed

LEMMA OthersAccounted ==
  ASSUME BaseInv, RowsCounted, NEW t \in Tx, Begin(t) \/ Proceed(t) \/ Abort(t),
         NEW u \in Tx \ {t}, Accounted(u)
  PROVE  Accounted(u)'
<1>1. /\ pc'[u] = pc[u] /\ req'[u] = req[u] /\ todo'[u] = todo[u]
      /\ need'[u] = need[u] /\ amt'[u] = amt[u]
  BY StepUntouched, LineUntouched DEF BaseInv, Untouched
<1>2. /\ Current(u)' = Current(u) /\ Source(u)' = Source(u) /\ Target(u)' = Target(u)
      /\ Debits(u)' = Debits(u) /\ Credits(u)' = Credits(u)
  BY <1>1, SameItem
<1>3. ASSUME NEW p \in Pair
      PROVE  /\ Moved(u, p)' = Moved(u, p) /\ Posted(u, p)' = Posted(u, p)
             /\ Part(u, p)' = Part(u, p)
  BY <1>1, <1>2, OthersMoved, PostedSame DEF Part, In, Out
<1> QED
  BY <1>1, <1>2, <1>3 DEF Accounted

AllAsked == \A t \in Tx : Asked(t)

(* A transaction is where its request takes it, whatever lot is named.     *)
LEMMA InitAsked == Init => AllAsked
BY DEF Init, AllAsked, Asked, Debiting

LEMMA StutterAsked ==
  ASSUME AllAsked, UNCHANGED vars
  PROVE  AllAsked'
BY DEF vars, AllAsked, Asked, Debits, Credits

LEMMA LineAsked ==
  ASSUME TypeOK, NEW t \in Tx, Asked(t), pc[t] \in {"debit", "credit"}, LineDone(t),
         req' = req, need' = need
  PROVE  Asked(t)'
<1>1. Debits(t)' = Debits(t) /\ Credits(t)' = Credits(t)
  BY DEF Debits, Credits
<1>2. need[t] \in Nat /\ (need[t] > 0 => Debits(t)) /\ Valid(req[t])
  BY DEF TypeOK, Asked, Debiting
<1> QED
  BY <1>1, <1>2, LineDoneFacts DEF Asked, Debiting

LEMMA StepAsked ==
  ASSUME BaseInv, AllAsked, NEW t \in Tx, Begin(t) \/ Proceed(t) \/ Abort(t)
  PROVE  AllAsked'
<1>0. TypeOK /\ Asked(t)
  BY DEF BaseInv, AllAsked
<1>1. ASSUME NEW u \in Tx \ {t}
      PROVE  Asked(u)'
  <2>1. pc'[u] = pc[u] /\ req'[u] = req[u] /\ need'[u] = need[u]
    BY <1>0, StepUntouched, LineUntouched DEF Untouched
  <2>2. Asked(u) /\ Debits(u)' = Debits(u) /\ Credits(u)' = Credits(u)
    BY <2>1 DEF AllAsked, Debits, Credits
  <2> QED
    BY <2>1, <2>2 DEF Asked
<1> SUFFICES Asked(t)'
  BY <1>1 DEF AllAsked
<1>2. CASE Begin(t)
  <2>1. PICK r \in Requests : Valid(r) /\ req' = [req EXCEPT ![t] = r]
    BY <1>2 DEF Begin
  <2>2. pc[t] = "idle" /\ pc'[t] = "lock" /\ need' = need /\ req'[t] = r
    BY <1>0, <1>2, <2>1 DEF Begin, TypeOK, line
  <2>3. Valid(req[t])' /\ need[t] = 0
    BY <1>0, <2>1, <2>2 DEF Valid, Asked, Debiting
  <2> QED
    BY <2>2, <2>3 DEF Asked
<1>3. CASE Lock(t)
  <2>1. /\ pc[t] = "lock" /\ need' = need /\ req' = req
        /\ \/ pc'[t] = "lock"
           \/ pc'[t] = "resolve" /\ Debits(t)
           \/ pc'[t] = "receive" /\ ~Debits(t)
    BY <1>0, <1>3 DEF Lock, line, TypeOK
  <2>2. /\ need[t] = 0 /\ Valid(req[t])
        /\ Debits(t)' = Debits(t) /\ Credits(t)' = Credits(t)
    BY <1>0, <2>1 DEF Asked, Debiting, Debits, Credits
  <2>3. ~Debits(t) => Credits(t)
    <3>1. req[t].kind \in Kind
      BY <1>0, RequestFields DEF TypeOK
    <3> QED
      BY <3>1 DEF Kind, Debits, Credits
  <2> QED
    BY <2>1, <2>2, <2>3 DEF Asked
<1>4. CASE Resolve(t) \/ Pick(t) \/ Receive(t)
  <2>1. /\ req' = req
        /\ \/ pc[t] = "resolve" /\ pc'[t] = "pick"
           \/ pc[t] = "pick" /\ pc'[t] = "debit"
           \/ pc[t] = "receive" /\ pc'[t] = "credit" /\ need' = need
    BY <1>0, <1>4 DEF Resolve, Pick, Receive, shared, TypeOK
  <2>2. Debits(t)' = Debits(t) /\ Credits(t)' = Credits(t)
    BY <2>1 DEF Debits, Credits
  <2>3. Valid(req[t])'
    BY <1>0, <2>1 DEF Asked, Valid
  <2>4. CASE pc[t] = "resolve" /\ pc'[t] = "pick"
    BY <1>0, <2>2, <2>3, <2>4 DEF Asked, Debiting
  <2>5. CASE pc[t] = "pick" /\ pc'[t] = "debit"
    BY <1>0, <2>2, <2>3, <2>5 DEF Asked, Debiting
  <2>6. CASE pc[t] = "receive" /\ pc'[t] = "credit" /\ need' = need
    BY <1>0, <2>2, <2>3, <2>6 DEF Asked, Debiting
  <2> QED
    BY <2>1, <2>4, <2>5, <2>6
<1>5. CASE Debit(t)
  <2>1. pc[t] = "debit" /\ req' = req /\ need' = need
    BY <1>5 DEF Debit, line
  <2>2. CASE Credits(t)
    <3>1. pc'[t] = "receive"
      BY <1>0, <1>5, <2>2 DEF Debit, TypeOK
    <3>2. Debits(t)' = Debits(t) /\ Credits(t)' = Credits(t)
      BY <2>1 DEF Debits, Credits
    <3>3. Valid(req[t])' /\ Debits(t)
      BY <1>0, <2>1 DEF Asked, Valid
    <3> QED
      BY <2>2, <3>1, <3>2, <3>3 DEF Asked, Debiting
  <2>3. CASE ~Credits(t)
    <3>1. LineDone(t)
      BY <1>5, <2>3 DEF Debit
    <3> QED
      BY <1>0, <2>1, <3>1, LineAsked
  <2> QED
    BY <2>2, <2>3
<1>6. CASE Credit(t)
  <2>1. pc[t] = "credit" /\ req' = req /\ need' = need /\ LineDone(t)
    BY <1>6 DEF Credit, line
  <2> QED
    BY <1>0, <2>1, LineAsked
<1>7. CASE Refuse(t) \/ Commit(t) \/ Abort(t)
  <2>1. /\ pc'[t] \in {"refused", "failed", "done"} /\ need'[t] = 0
        /\ req' = req /\ pc[t] # "idle"
    BY <1>0, <1>7 DEF TypeOK, Refuse, Commit, Abort, End
  <2>2. Valid(req[t])'
    BY <1>0, <2>1 DEF Asked, Valid
  <2>3. pc'[t] \notin {"resolve", "pick", "debit", "receive", "credit"}
    BY <2>1
  <2> QED
    BY <2>1, <2>2, <2>3 DEF Asked
<1> QED
  BY <1>2, <1>3, <1>4, <1>5, <1>6, <1>7 DEF Proceed

(* What a step of t does to what it has moved.                             *)
LEMMA QuietMoved ==
  ASSUME BaseInv, RowsCounted, NEW t \in Tx, UNCHANGED <<rows, mine>>, NEW p \in Pair
  PROVE  Moved(t, p)' = Moved(t, p) + ((IF p = Target(t) THEN 0 ELSE 0)
                                       - (IF p = Source(t) THEN 0 ELSE 0))
<1>1. Moved(t, p)' = Moved(t, p)
  BY DEF Moved, View, Sum, Qty
<1>2. Moved(t, p) \in Int
  BY MovedType DEF BaseInv
<1> QED
  BY <1>1, <1>2

LEMMA DebitMoved ==
  ASSUME BaseInv, RowsCounted, NEW t \in Tx, Debit(t), NEW p \in Pair
  PROVE  Moved(t, p)' = Moved(t, p) + ((IF p = Target(t) THEN 0 ELSE 0)
                                       - (IF p = Source(t) THEN amt[t] ELSE 0))
<1>1. rows' = rows /\ amt[t] \in Int /\ Sum(View(t, p)) \in Int /\ Sum(rows[p]) \in Int
  BY WriteInserts, SumsExist DEF BaseInv
<1>2. Moved(t, p)' = Sum(View(t, p)') - Sum(rows[p])
  BY <1>1 DEF Moved, Sum, Qty
<1>3. CASE p = Source(t)
  <2>1. Sum(View(t, p)') = Sum(View(t, p)) - amt[t]
    BY <1>3, DebitSum
  <2> QED
    BY <1>1, <1>2, <1>3, <2>1 DEF Moved
<1>4. CASE p # Source(t)
  <2>1. Sum(View(t, p)') = Sum(View(t, p))
    BY <1>4, DebitSum
  <2> QED
    BY <1>1, <1>2, <1>4, <2>1 DEF Moved
<1> QED
  BY <1>3, <1>4

LEMMA CreditMoved ==
  ASSUME BaseInv, RowsCounted, NEW t \in Tx, Credit(t), NEW p \in Pair
  PROVE  Moved(t, p)' = Moved(t, p) + ((IF p = Target(t) THEN amt[t] ELSE 0)
                                       - (IF p = Source(t) THEN 0 ELSE 0))
<1>1. rows' = rows /\ amt[t] \in Int /\ Sum(View(t, p)) \in Int /\ Sum(rows[p]) \in Int
  BY WriteInserts, SumsExist DEF BaseInv
<1>2. Moved(t, p)' = Sum(View(t, p)') - Sum(rows[p])
  BY <1>1 DEF Moved, Sum, Qty
<1>3. CASE p = Target(t)
  <2>1. Sum(View(t, p)') = Sum(View(t, p)) + amt[t]
    BY <1>3, CreditSum
  <2> QED
    BY <1>1, <1>2, <1>3, <2>1 DEF Moved
<1>4. CASE p # Target(t)
  <2>1. Sum(View(t, p)') = Sum(View(t, p))
    BY <1>4, CreditSum
  <2> QED
    BY <1>1, <1>2, <1>4, <2>1 DEF Moved
<1> QED
  BY <1>3, <1>4

(* The steps that move nothing.                                            *)
LEMMA QuietAccounted ==
  ASSUME BaseInv, RowsCounted, AllAsked, AllItemsLeft, AllAccounted, NEW t \in Tx,
         Lock(t) \/ Resolve(t) \/ Pick(t) \/ Receive(t)
  PROVE  Accounted(t)'
<1>0. /\ TypeOK /\ ItemsLeft(t) /\ Accounted(t) /\ Asked(t)
      /\ pc[t] \in Inside /\ need[t] \in Nat /\ amt[t] \in Nat /\ Current(t).qty \in Nat
  <2>1. TypeOK /\ ItemsLeft(t) /\ Accounted(t) /\ Asked(t) /\ pc[t] \in Inside
    BY DEF BaseInv, AllItemsLeft, AllAccounted, AllAsked,
           Lock, Resolve, Pick, Receive, Inside
  <2>2. Current(t).qty \in Nat
    BY <2>1, CurrentType, ItemFields
  <2> QED
    BY <2>1, <2>2 DEF TypeOK
<1>1. req' = req /\ todo' = todo /\ rows' = rows /\ mine' = mine
  BY DEF Lock, Resolve, Pick, Receive, shared
<1>2. /\ Current(t)' = Current(t) /\ Debits(t)' = Debits(t) /\ Credits(t)' = Credits(t)
  BY <1>1, SameItem
<1>3. ASSUME In(t)' = In(t), Out(t)' = Out(t), pc'[t] \in Inside,
             pc'[t] = "credit" /\ ~Debits(t) => amt'[t] = Current(t).qty
      PROVE  Accounted(t)'
  <2>1. In(t)' = In(t) + 0 /\ Out(t)' = Out(t) + 0
    BY <1>0, <1>3, PartsType
  <2>2. \A p \in Pair : Moved(t, p)' = Posted(t, p)' + Part(t, p)'
    BY <1>0, <1>1, <2>1, QuietMoved, SameLine
  <2> QED
    BY <1>2, <1>3, <2>2 DEF Accounted, Inside
<1>4. CASE Lock(t)
  <2>1. pc[t] = "lock" /\ pc'[t] \in Inside
        /\ (pc'[t] \notin Debiting \/ (pc'[t] = "receive" /\ ~Debits(t)))
    BY <1>0, <1>4 DEF Lock, TypeOK, Inside, Debiting
  <2>2. In(t) = 0 /\ Out(t) = 0 /\ In(t)' = 0 /\ Out(t)' = 0
    BY <1>2, <2>1 DEF In, Out, Debiting
  <2> QED
    BY <1>3, <2>1, <2>2 DEF Debiting
<1>5. CASE Resolve(t)
  <2>1. pc[t] = "resolve" /\ pc'[t] = "pick" /\ need'[t] = Current(t).qty
    BY <1>0, <1>5 DEF Resolve, TypeOK
  <2>2. In(t) = 0 /\ Out(t) = 0 /\ In(t)' = 0 /\ Out(t)' = 0
    BY <1>0, <1>2, <2>1 DEF In, Out, Debiting
  <2> QED
    BY <1>3, <2>1, <2>2 DEF Inside
<1>6. CASE Pick(t)
  <2>1. PICK s \in Sources :
          /\ ExpiresFirst(t, s) /\ amt'[t] = Take(t, s) /\ need'[t] = need[t] - Take(t, s)
          /\ pc[t] = "pick" /\ pc'[t] = "debit"
    BY <1>0, <1>6, PickFacts
  <2>2. Take(t, s) \in Nat
    BY <1>0, <2>1, TakeType
  <2>3. In(t)' = In(t) /\ Out(t)' = Out(t)
    BY <1>0, <1>2, <2>1, <2>2 DEF In, Out, Debiting
  <2> QED
    BY <1>3, <2>1, <2>3 DEF Inside
<1>7. CASE Receive(t)
  <2>1. /\ pc[t] = "receive" /\ pc'[t] = "credit" /\ need' = need
        /\ amt'[t] = IF Debits(t) THEN amt[t] ELSE Current(t).qty
    BY <1>0, <1>7 DEF Receive, TypeOK
  <2>2. In(t)' = In(t) /\ Out(t)' = Out(t)
    BY <1>2, <2>1 DEF In, Out, Debiting
  <2> QED
    BY <1>3, <2>1, <2>2 DEF Inside
<1> QED
  BY <1>4, <1>5, <1>6, <1>7

(* The end of a line, after the movement that c and d stand for.           *)
LEMMA LineAccounted ==
  ASSUME TypeOK, RowsCounted, NEW t \in Tx, ItemsLeft(t), Accounted(t), Asked(t),
         pc[t] \in {"debit", "credit"}, LineDone(t), UNCHANGED <<req, need, amt>>,
         NEW c \in Int, NEW d \in Int,
         need[t] = 0 => /\ In(t) + c = IF Credits(t) THEN Current(t).qty ELSE 0
                        /\ Out(t) + d = IF Debits(t) THEN Current(t).qty ELSE 0,
         Debits(t) => /\ Out(t) + d = Current(t).qty - need[t]
                      /\ In(t) + c = IF Credits(t) THEN Current(t).qty - need[t] ELSE 0,
         \A p \in Pair :
           Moved(t, p)' = Moved(t, p) + ((IF p = Target(t) THEN c ELSE 0)
                                         - (IF p = Source(t) THEN d ELSE 0))
  PROVE  Accounted(t)'
<1>0. pc[t] \in Inside
  BY DEF Inside
<1>1. CASE need[t] > 0 /\ pc'[t] = "pick" /\ todo'[t] = todo[t]
  <2>1. Debits(t)
    BY <1>1 DEF Asked
  <2>2. /\ Current(t)' = Current(t) /\ Debits(t)' = Debits(t) /\ Credits(t)' = Credits(t)
    BY <1>1, SameItem
  <2>3. Current(t).qty \in Int /\ need[t] \in Int
    <3>1. Current(t) \in Item
      BY <1>0, CurrentType
    <3> QED
      BY <3>1, ItemFields DEF TypeOK
  <2>4. Out(t)' = Out(t) + d /\ In(t)' = In(t) + c
    <3>1. Out(t)' = Current(t).qty - need[t] - 0
      BY <1>1, <2>1, <2>2 DEF Out, Debiting
    <3>2. In(t)' = IF Credits(t) THEN Current(t).qty - need[t] - 0 ELSE 0
      BY <1>1, <2>1, <2>2 DEF In, Debiting
    <3> QED
      BY <2>1, <2>3, <3>1, <3>2
  <2>5. \A p \in Pair : Moved(t, p)' = Posted(t, p)' + Part(t, p)'
    BY <1>0, <1>1, <2>4, SameLine
  <2> QED
    BY <1>1, <2>5 DEF Accounted
<1>2. CASE /\ need[t] = 0 /\ todo'[t] = Tail(todo[t])
           /\ pc'[t] = IF Tail(todo[t]) = <<>> THEN "commit" ELSE "lock"
  <2>1. pc'[t] \in {"lock", "commit"}
    BY <1>2
  <2>2. \A p \in Pair : Moved(t, p)' = Posted(t, p)' + Part(t, p)'
    BY <1>0, <1>2, <2>1, NextItem
  <2> QED
    BY <2>1, <2>2 DEF Accounted
<1> QED
  BY <1>1, <1>2, LineDoneFacts

LEMMA WriteAccounted ==
  ASSUME BaseInv, RowsCounted, AllAsked, AllItemsLeft, AllAccounted, NEW t \in Tx,
         Debit(t) \/ Credit(t)
  PROVE  Accounted(t)'
<1>0. /\ TypeOK /\ ItemsLeft(t) /\ Accounted(t) /\ Asked(t)
      /\ pc[t] \in {"debit", "credit"} /\ pc[t] \in Inside
      /\ need[t] \in Nat /\ amt[t] \in Nat /\ Current(t).qty \in Nat
      /\ UNCHANGED <<req, need, amt>>
  <2>1. TypeOK /\ ItemsLeft(t) /\ Accounted(t) /\ Asked(t)
        /\ pc[t] \in {"debit", "credit"} /\ pc[t] \in Inside
        /\ UNCHANGED <<req, need, amt>>
    BY DEF BaseInv, AllItemsLeft, AllAccounted, AllAsked, Debit, Credit, line, Inside
  <2>2. Current(t).qty \in Nat
    BY <2>1, CurrentType, ItemFields
  <2> QED
    BY <2>1, <2>2 DEF TypeOK
<1>1. CASE Debit(t)
  <2>1. pc[t] = "debit" /\ Debits(t)
    BY <1>0, <1>1 DEF Debit, Asked
  <2>2. /\ Out(t) + amt[t] = Current(t).qty - need[t]
        /\ In(t) + 0 = IF Credits(t) THEN Current(t).qty - need[t] - amt[t] ELSE 0
    BY <1>0, <2>1 DEF Out, In, Debiting
  <2>3. \A p \in Pair :
          Moved(t, p)' = Moved(t, p) + ((IF p = Target(t) THEN 0 ELSE 0)
                                        - (IF p = Source(t) THEN amt[t] ELSE 0))
    BY <1>1, DebitMoved
  <2>4. CASE Credits(t)
    <3>1. pc'[t] = "receive" /\ todo' = todo
      BY <1>0, <1>1, <2>4 DEF Debit, TypeOK
    <3>2. /\ Current(t)' = Current(t) /\ Debits(t)' = Debits(t) /\ Credits(t)' = Credits(t)
      BY <1>0, <3>1, SameItem
    <3>3. Out(t)' = Out(t) + amt[t] /\ In(t)' = In(t) + 0
      BY <1>0, <2>1, <2>2, <3>1, <3>2 DEF Out, In, Debiting
    <3>4. \A p \in Pair : Moved(t, p)' = Posted(t, p)' + Part(t, p)'
      BY <1>0, <2>3, <3>1, <3>3, SameLine
    <3> QED
      BY <3>1, <3>4 DEF Accounted
  <2>5. CASE ~Credits(t)
    <3>1. LineDone(t)
      BY <1>1, <2>5 DEF Debit
    <3>2. In(t) + 0 = 0
      BY <2>2, <2>5
    <3>3. Out(t) + amt[t] = Current(t).qty - need[t]
          /\ (need[t] = 0 => Out(t) + amt[t] = Current(t).qty)
      BY <1>0, <2>2
    <3> QED
      BY <1>0, <2>1, <2>3, <2>5, <3>1, <3>2, <3>3, LineAccounted
  <2> QED
    BY <2>4, <2>5
<1>2. CASE Credit(t)
  <2>1. pc[t] = "credit" /\ Credits(t) /\ LineDone(t)
    BY <1>0, <1>2 DEF Credit, Asked
  <2>2. \A p \in Pair :
          Moved(t, p)' = Moved(t, p) + ((IF p = Target(t) THEN amt[t] ELSE 0)
                                        - (IF p = Source(t) THEN 0 ELSE 0))
    BY <1>2, CreditMoved
  <2>3. CASE Debits(t)
    <3>1. /\ Out(t) + 0 = Current(t).qty - need[t]
          /\ In(t) + amt[t] = Current(t).qty - need[t]
      BY <1>0, <2>1, <2>3 DEF Out, In, Debiting
    <3>2. need[t] = 0 => Current(t).qty - need[t] = Current(t).qty
      BY <1>0
    <3> QED
      BY <1>0, <2>1, <2>2, <2>3, <3>1, <3>2, LineAccounted
  <2>4. CASE ~Debits(t)
    <3>1. Out(t) + 0 = 0 /\ In(t) + amt[t] = Current(t).qty
      BY <1>0, <2>1, <2>4 DEF Out, In, Accounted
    <3> QED
      BY <1>0, <2>1, <2>2, <2>4, <3>1, LineAccounted
  <2> QED
    BY <2>3, <2>4
<1> QED
  BY <1>1, <1>2

LEMMA BeginAccounted ==
  ASSUME BaseInv, RowsCounted, AllAccounted, NEW t \in Tx, Begin(t)
  PROVE  Accounted(t)'
<1>1. PICK r \in Requests : req' = [req EXCEPT ![t] = r]
                            /\ todo' = [todo EXCEPT ![t] = r.items]
  BY DEF Begin
<1>2. /\ TypeOK /\ pc[t] = "idle" /\ pc'[t] = "lock" /\ rows' = rows /\ mine' = mine
      /\ req'[t] = r /\ todo'[t] = r.items
  BY <1>1 DEF BaseInv, TypeOK, Begin, shared
<1>3. Finished(t)' = 0
  <2>1. r.items \in Seq(Item)
    BY RequestFields
  <2>2. Len(r.items) \in Nat
    BY <2>1
  <2>3. Finished(t)' = Len(r.items) - Len(r.items)
    BY <1>2 DEF Finished
  <2> QED
    BY <2>2, <2>3
<1>4. ASSUME NEW p \in Pair
      PROVE  Moved(t, p)' = Posted(t, p)' + Part(t, p)'
  <2>1. Moved(t, p)' = 0
    BY <1>2 DEF AllAccounted, Accounted, Moved, View, Sum, Qty
  <2>2. Part(t, p)' = 0
    BY <1>2 DEF Part, In, Out, Debiting
  <2>3. 1 .. 0 = {}
    OBVIOUS
  <2>4. Posted(t, p)' = SumFunctionOnSet(Changes(r, p)', {})
    BY <1>2, <1>3, <2>3 DEF Posted, Changes, Change
  <2>5. Posted(t, p)' = 0
    BY <2>4, SumEmpty
  <2> QED
    BY <2>1, <2>2, <2>5
<1> QED
  BY <1>2, <1>4 DEF Accounted

LEMMA StepAccounted ==
  ASSUME BaseInv, RowsCounted, AllAsked, AllItemsLeft, AllAccounted, NEW t \in Tx,
         Begin(t) \/ Proceed(t) \/ Abort(t)
  PROVE  AllAccounted'
<1>1. \A u \in Tx \ {t} : Accounted(u)'
  BY OthersAccounted DEF AllAccounted
<1>2. CASE Refuse(t) \/ Commit(t) \/ Abort(t)
  <2>1. pc'[t] \in {"refused", "failed", "done"}
    BY <1>2 DEF BaseInv, TypeOK, Refuse, Commit, Abort, End
  <2>2. Accounted(t)'
    BY <2>1 DEF Accounted, Inside
  <2> QED
    BY <1>1, <2>2 DEF AllAccounted
<1>3. CASE ~(Refuse(t) \/ Commit(t) \/ Abort(t))
  <2>1. Accounted(t)'
    BY <1>3, BeginAccounted, QuietAccounted, WriteAccounted DEF Proceed
  <2> QED
    BY <1>1, <2>1 DEF AllAccounted
<1> QED
  BY <1>2, <1>3

LEMMA InitAccounted == Init => AllAccounted
<1> SUFFICES ASSUME Init, NEW t \in Tx PROVE Accounted(t)
  BY DEF AllAccounted
<1>0. pc[t] = "idle"
  BY DEF Init
<1> SUFFICES ASSUME NEW p \in Pair PROVE Moved(t, p) = 0
  BY <1>0 DEF Accounted, Inside
<1>1. rows[p] = {} /\ View(t, p) = {}
  BY DEF Init, View
<1>2. Sum(rows[p]) = 0 /\ Sum(View(t, p)) = 0
  BY <1>1, SumOfNone, Zenon
<1> QED
  BY <1>1, <1>2 DEF Moved

LEMMA StutterAccounted ==
  ASSUME AllAccounted, UNCHANGED vars
  PROVE  AllAccounted'
<1> SUFFICES ASSUME NEW t \in Tx PROVE Accounted(t)'
  BY DEF AllAccounted
<1>1. /\ pc'[t] = pc[t] /\ req'[t] = req[t] /\ todo'[t] = todo[t]
      /\ need'[t] = need[t] /\ amt'[t] = amt[t] /\ rows' = rows /\ mine' = mine
  BY DEF vars
<1>2. /\ Current(t)' = Current(t) /\ Source(t)' = Source(t) /\ Target(t)' = Target(t)
      /\ Debits(t)' = Debits(t) /\ Credits(t)' = Credits(t)
  BY <1>1, SameItem
<1>3. ASSUME NEW p \in Pair
      PROVE  /\ Moved(t, p)' = Moved(t, p) /\ Posted(t, p)' = Posted(t, p)
             /\ Part(t, p)' = Part(t, p)
  <2>1. Moved(t, p)' = Moved(t, p)
    BY <1>1 DEF Moved, View, Sum, Qty
  <2>2. Part(t, p)' = Part(t, p)
    BY <1>1, <1>2 DEF Part, In, Out
  <2> QED
    BY <1>1, <2>1, <2>2, PostedSame
<1> QED
  BY <1>1, <1>2, <1>3 DEF AllAccounted, Accounted

(* What a transaction that commits has moved is the deal of its request.   *)
LEMMA CommitPosts ==
  ASSUME TypeOK, RowsCounted, NEW t \in Tx, ItemsLeft(t), Accounted(t), pc[t] = "commit",
         NEW p \in Pair
  PROVE  /\ Sum(View(t, p)) = Sum(rows[p]) + Deal(req[t])[p]
         /\ Deal(req[t])[p] \in Int
<1> DEFINE f == Changes(req[t], p)
<1>1. todo[t] = <<>> /\ req[t].items \in Seq(Item) /\ Len(req[t].items) \in Nat
  BY ItemsOfRequest DEF ItemsLeft
<1>2. Finished(t) = Len(req[t].items)
  BY <1>1 DEF Finished
<1>3. DOMAIN f = 1 .. Finished(t)
  BY <1>1, <1>2 DEF Changes
<1>4. Deal(req[t])[p] = SumFunction(f)
  BY DEF Deal, Changes
<1>5. Posted(t, p) = Deal(req[t])[p]
  BY <1>3, <1>4 DEF Posted, SumFunction
<1>6. Part(t, p) = 0
  BY DEF Part, In, Out, Debiting
<1>7. Moved(t, p) = Posted(t, p) + Part(t, p) /\ Posted(t, p) \in Int
  BY PostedType DEF Accounted
<1>8. Sum(View(t, p)) \in Int /\ Sum(rows[p]) \in Int
  BY SumsExist
<1> QED
  BY <1>5, <1>6, <1>7, <1>8 DEF Moved

AccountInv == BaseInv /\ RowsCounted /\ AllAsked /\ AllItemsLeft /\ AllAccounted

LEMMA AccountedInductive == Spec => []AccountInv
<1>1. Init => AccountInv
  BY InitBase, InitCounted, InitAsked, InitItems, InitAccounted DEF AccountInv
<1>2. AccountInv /\ [Next]_vars => AccountInv'
  <2>1. ASSUME AccountInv, UNCHANGED vars
        PROVE  AccountInv'
    BY <2>1, StutterBase, StutterCounted, StutterAsked, StutterItems, StutterAccounted
    DEF AccountInv
  <2>2. ASSUME AccountInv, NEW t \in Tx, Begin(t) \/ Proceed(t) \/ Abort(t)
        PROVE  AccountInv'
    <3>1. BaseInv' /\ RowsCounted' /\ AllAsked' /\ AllItemsLeft'
      BY <2>2, StepBase, StepCounted, StepAsked, StepItems DEF AccountInv
    <3>2. AllAccounted'
      BY <2>2, StepAccounted DEF AccountInv
    <3> QED
      BY <3>1, <3>2 DEF AccountInv
  <2> QED
    BY <2>1, <2>2 DEF Next
<1> QED
  BY <1>1, <1>2, PTL DEF Spec

(* The deals of the requests that have ended well.                         *)
Done == {t \in Tx : pc[t] = "done"}

Dealt(p) == [t \in Tx |-> Deal(req[t])[p]]

LEMMA DealType ==
  ASSUME TypeOK, NEW t \in Tx, NEW p \in Pair
  PROVE  Deal(req[t])[p] \in Int
<1> DEFINE f == Changes(req[t], p)
           n == Len(req[t].items)
<1>1. DOMAIN f = 1 .. n /\ n \in Nat
  BY ItemsOfRequest DEF Changes
<1>2. Deal(req[t])[p] = SumFunctionOnSet(f, 1 .. n)
  BY <1>1 DEF Deal, Changes, SumFunction
<1>3. \A k \in 1 .. n : f[k] \in Int
  BY <1>1, ChangesType DEF Changes
<1>4. IsFiniteSet(1 .. n)
  BY <1>1, FS_Interval
<1> HIDE DEF f, n
<1>5. SumFunctionOnSet(f, 1 .. n) \in Int
  BY <1>3, <1>4, SumType
<1> QED
  BY <1>2, <1>5

(* A step that commits nothing leaves the rows and the finished requests.  *)
LEMMA NothingCommitted ==
  ASSUME AccountInv, NEW t \in Tx, Begin(t) \/ Proceed(t) \/ Abort(t), ~Commit(t)
  PROVE  rows' = rows /\ Done' = Done /\ \A u \in Done : req'[u] = req[u]
<1>1. TypeOK
  BY DEF AccountInv, BaseInv
<1>2. rows' = rows
  BY DEF Begin, Proceed, Lock, Resolve, Refuse, Pick, Debit, Receive, Credit, Abort, shared
<1>3. \A u \in Tx \ {t} : pc'[u] = pc[u] /\ req'[u] = req[u]
  BY <1>1, StepUntouched DEF Untouched
<1>4. pc[t] # "done"
  BY DEF Begin, Proceed, Lock, Resolve, Refuse, Pick, Debit, Receive, Credit, Abort
<1>5. pc'[t] # "done"
  <2>1. CASE Begin(t) \/ Lock(t) \/ Resolve(t) \/ Pick(t) \/ Receive(t)
    BY <1>1, <2>1 DEF Begin, Lock, Resolve, Pick, Receive, TypeOK
  <2>2. CASE Debit(t) \/ Credit(t)
    BY <1>1, <2>2, LineDoneFacts DEF Debit, Credit, TypeOK
  <2>3. CASE Refuse(t) \/ Abort(t)
    BY <1>1, <2>3 DEF Refuse, Abort, End, TypeOK
  <2> QED
    BY <2>1, <2>2, <2>3 DEF Proceed
<1>6. Done' = Done
  BY <1>3, <1>4, <1>5 DEF Done
<1> QED
  BY <1>2, <1>3, <1>4, <1>6 DEF Done

DealsInv == IsFiniteSet(Done) /\ DealsAddUp

LEMMA DealsRead ==
  DealsAddUp <=> \A p \in Pair : Sum(rows[p]) = SumFunctionOnSet(Dealt(p), Done)
BY DEF DealsAddUp, Dealt, Done

LEMMA StepDeals ==
  ASSUME AccountInv, DealsInv, NEW t \in Tx, Begin(t) \/ Proceed(t) \/ Abort(t)
  PROVE  DealsInv'
<1>0. TypeOK
  BY DEF AccountInv, BaseInv
<1>1. ASSUME NEW p \in Pair
      PROVE  \A u \in Tx : Dealt(p)[u] \in Int
  BY <1>0, <1>1, DealType DEF Dealt
<1>2. Done \subseteq Tx /\ IsFiniteSet(Done)
  BY DEF Done, DealsInv
<1>3. \A p \in Pair : Sum(rows[p]) = SumFunctionOnSet(Dealt(p), Done)
  BY DealsRead DEF DealsInv
<1>4. CASE ~Commit(t)
  <2>1. rows' = rows /\ Done' = Done /\ \A u \in Done : req'[u] = req[u]
    BY <1>4, NothingCommitted
  <2>2. ASSUME NEW p \in Pair
        PROVE  SumFunctionOnSet(Dealt(p)', Done) = SumFunctionOnSet(Dealt(p), Done)
    <3> DEFINE f == Dealt(p)
               g == Dealt(p)'
    <3>1. \A u \in Done : f[u] \in Int /\ g[u] = f[u]
      BY <1>1, <1>2, <2>1 DEF Dealt, Deal, Change
    <3> HIDE DEF f, g
    <3>2. SumFunctionOnSet(g, Done) = SumFunctionOnSet(f, Done)
      BY <1>2, <3>1, SumSame
    <3> QED
      BY <3>2 DEF f, g
  <2>3. \A p \in Pair : Sum(rows'[p]) = SumFunctionOnSet(Dealt(p)', Done')
    BY <1>3, <2>1, <2>2
  <2> QED
    BY <1>2, <2>1, <2>3 DEF DealsInv, DealsAddUp, Dealt, Done, Sum, Qty
<1>5. CASE Commit(t)
  <2>1. pc[t] = "commit" /\ pc'[t] = "done" /\ req' = req
    BY <1>0, <1>5 DEF Commit, End, TypeOK
  <2>2. \A u \in Tx \ {t} : pc'[u] = pc[u]
    BY <1>0, StepUntouched DEF Untouched
  <2>3. Done' = Done \cup {t} /\ t \notin Done
    BY <2>1, <2>2 DEF Done
  <2>4. ASSUME NEW p \in Pair
        PROVE  Sum(rows'[p]) = SumFunctionOnSet(Dealt(p), Done \cup {t})
    <3>1. Sum(rows'[p]) = Sum(rows[p]) + Dealt(p)[t]
      <4>1. ItemsLeft(t) /\ Accounted(t) /\ RowsCounted
        BY DEF AccountInv, AllItemsLeft, AllAccounted
      <4>2. Sum(View(t, p)) = Sum(rows[p]) + Deal(req[t])[p]
        BY <1>0, <2>1, <4>1, CommitPosts
      <4>3. rows'[p] = View(t, p)
        BY <1>0, <1>5, CommitViews, Zenon DEF AccountInv
      <4> QED
        BY <4>2, <4>3 DEF Dealt
    <3> DEFINE f == Dealt(p)
    <3>2. \A u \in Tx : f[u] \in Int
      BY <1>1
    <3>3. Sum(rows[p]) = SumFunctionOnSet(f, Done)
      BY <1>3
    <3> HIDE DEF f
    <3>4. SumFunctionOnSet(f, Done \cup {t}) = SumFunctionOnSet(f, Done) + f[t]
      BY <1>2, <2>3, <3>2, SumAdd
    <3> QED
      BY <3>1, <3>3, <3>4 DEF f
  <2>5. \A p \in Pair : Dealt(p)' = Dealt(p)
    BY <2>1 DEF Dealt, Deal, Change
  <2>6. IsFiniteSet(Done')
    BY <1>2, <2>3, FS_AddElement
  <2>7. \A p \in Pair : Sum(rows'[p]) = SumFunctionOnSet(Dealt(p)', Done')
    BY <2>3, <2>4, <2>5
  <2> QED
    BY <2>6, <2>7 DEF DealsInv, DealsAddUp, Dealt, Done, Sum, Qty
<1> QED
  BY <1>4, <1>5

(* The ledger of a pair is at every moment the sum of what the requests    *)
(* that ended well asked for: a transfer of several items or an exit split *)
(* over lots is in it whole or not at all.  Nothing is supposed of the     *)
(* clock, of the lots that operators name or of the labels they type.      *)
THEOREM DealsAreBooked == Spec => []DealsAddUp
<1>1. Init => DealsInv
  <2> SUFFICES ASSUME Init PROVE DealsInv
    OBVIOUS
  <2>1. Done = {} /\ \A p \in Pair : rows[p] = {}
    BY DEF Init, Done
  <2>2. \A p \in Pair : Sum(rows[p]) = 0 /\ SumFunctionOnSet(Dealt(p), Done) = 0
    BY <2>1, SumOfNone, SumEmpty
  <2> QED
    BY <2>1, <2>2, DealsRead, FS_EmptySet DEF DealsInv
<1>2. AccountInv /\ DealsInv /\ [Next]_vars => DealsInv'
  <2>1. ASSUME DealsInv, UNCHANGED vars
        PROVE  DealsInv'
    <3>1. rows' = rows /\ pc' = pc /\ req' = req
      BY <2>1 DEF vars
    <3>2. Done' = Done /\ \A p \in Pair : Dealt(p)' = Dealt(p)
      BY <3>1 DEF Done, Dealt, Deal, Change
    <3>3. \A p \in Pair : Sum(rows[p]) = SumFunctionOnSet(Dealt(p), Done)
      BY <2>1, DealsRead DEF DealsInv
    <3>4. \A p \in Pair : Sum(rows'[p]) = SumFunctionOnSet(Dealt(p)', Done')
      BY <3>1, <3>2, <3>3
    <3> QED
      BY <2>1, <3>2, <3>4 DEF DealsInv, DealsAddUp, Dealt, Done, Sum, Qty
  <2> QED
    BY <2>1, StepDeals DEF Next
<1>3. DealsInv => DealsAddUp
  BY DEF DealsInv
<1> QED
  BY <1>1, <1>2, <1>3, AccountedInductive, PTL DEF Spec

(* The book of a state: what getCurrentStock reports for each pair.        *)
OnHand == [p \in Pair |-> CHOOSE c \in CurrentStock(rows[p]) : TRUE]

SumsOnHand ==
  /\ OnHand = [p \in Pair |-> Sum(rows[p])]
  /\ \A p \in Pair : Sum(rows[p]) >= 0

LEMMA OnHandIsSum ==
  ASSUME Resolution = 1, StockInv
  PROVE  SumsOnHand
<1>1. \A p \in Pair : CurrentStock(rows[p]) = {Sum(rows[p])}
  BY StockReported DEF StockInv, BooksInv
<1>2. \A p \in Pair : (CHOOSE c \in CurrentStock(rows[p]) : TRUE) = Sum(rows[p])
  BY <1>1
<1> QED
  BY <1>2, EveryBalance DEF OnHand, SumsOnHand

LEMMA OnHandNext ==
  ASSUME Resolution = 1
  PROVE  StockInv' => SumsOnHand'
<1>1. StockInv => SumsOnHand
  BY OnHandIsSum
<1> QED
  BY <1>1, PTL

LEMMA InitBook == Init => Book!Init
<1> SUFFICES ASSUME Init PROVE OnHand = [p \in Pair |-> 0]
  BY DEF Book!Init, OnHand
<1>1. \A p \in Pair : CurrentStock(rows[p]) = {0}
  BY DEF Init, CurrentStock
<1>2. \A p \in Pair : (CHOOSE c \in CurrentStock(rows[p]) : TRUE) = 0
  BY <1>1
<1> QED
  BY <1>2 DEF OnHand

(* The commit of a request is the one step that posts its deal.            *)
LEMMA CommitIsPost ==
  ASSUME Resolution = 1, StockInv, StockInv', AllAccounted, NEW t \in Tx, Commit(t)
  PROVE  Book!Next
<1>0. /\ TypeOK /\ RowsCounted /\ ItemsLeft(t) /\ Accounted(t) /\ pc[t] = "commit"
      /\ req[t] \in Requests /\ Valid(req[t])
  BY DEF StockInv, BooksInv, BaseInv, TypeOK, AllItemsLeft, AllAccounted, LotsInv,
         PlansHold, Asked, Commit
<1> DEFINE d == Deal(req[t])
<1>1. \A p \in Pair : rows'[p] = View(t, p)
  BY CommitViews DEF StockInv, BooksInv
<1>2. SumsOnHand /\ SumsOnHand'
  BY OnHandIsSum, OnHandNext
<1>3. ASSUME NEW p \in Pair
      PROVE  OnHand[p] + d[p] >= 0 /\ OnHand'[p] = OnHand[p] + d[p]
  <2>1. Sum(View(t, p)) = Sum(rows[p]) + d[p]
    BY <1>0, CommitPosts
  <2>2. OnHand[p] = Sum(rows[p])
    BY <1>2 DEF SumsOnHand
  <2>3. OnHand'[p] = Sum(View(t, p)) /\ Sum(View(t, p)) >= 0
    BY <1>1, <1>2 DEF SumsOnHand, Sum, Qty
  <2> QED
    BY <2>1, <2>2, <2>3
<1>4. OnHand' = [p \in Pair |-> OnHand[p] + d[p]]
  <2>1. OnHand' = [p \in Pair |-> OnHand'[p]]
    BY DEF OnHand
  <2> HIDE DEF d
  <2> QED
    BY <1>3, <2>1
<1> QED
  BY <1>0, <1>3, <1>4 DEF Book!Next, Book!Post, OnHand

LEMMA StepIsPost ==
  ASSUME Resolution = 1, StockInv, StockInv', AllAccounted, [Next]_vars
  PROVE  Book!Next \/ UNCHANGED OnHand
<1>1. CASE UNCHANGED vars
  BY <1>1 DEF vars, OnHand, CurrentStock, Latest, CreatedAt
<1>2. ASSUME NEW t \in Tx, Begin(t) \/ Proceed(t) \/ Abort(t)
      PROVE  Book!Next \/ UNCHANGED OnHand
  <2>1. CASE Commit(t)
    BY <2>1, CommitIsPost
  <2>2. CASE ~Commit(t)
    <3>1. rows' = rows
      BY <1>2, <2>2 DEF Begin, Proceed, Lock, Resolve, Refuse, Pick, Debit, Receive,
         Credit, Abort, shared
    <3> QED
      BY <3>1 DEF OnHand, CurrentStock, Latest, CreatedAt
  <2> QED
    BY <2>1, <2>2
<1> QED
  BY <1>1, <1>2 DEF Next

(* What readers see of the stock core is the atomic book: every committed  *)
(* request changes all its balances in one step, by what it asks for, and  *)
(* leaves none below zero, for any number of transactions, products,       *)
(* stores and lots and however their statements interleave.                *)
THEOREM StockImplementsBook ==
  ASSUME Resolution = 1, NamesOwnLot, LabelsOnlyPerishables
  PROVE  Spec => RefinesBook
<1>1. Init => Book!Init
  BY InitBook
<1>2. StockInv /\ StockInv' /\ AllAccounted /\ [Next]_vars => Book!Next \/ UNCHANGED OnHand
  BY StepIsPost
<1>3. AccountInv => AllAccounted
  BY DEF AccountInv
<1> QED
  BY <1>1, <1>2, <1>3, StockInductive, AccountedInductive, PTL
  DEF Spec, RefinesBook, Book!Spec, OnHand

--------------------------------------------------------------------------------
(* First expired, first out.  An item's plan, made once from what the lots *)
(* held, stays what they hold: a lot that was taken from is empty unless   *)
(* the item is served.                                                     *)

Exact(t, b) == At(Source(t), LotSeen(t, b)) => plan[t][b] = LotSeen(t, b).qty

EarlierEmpty(t) ==
  \A b \in BatchId :
    At(Source(t), LotSeen(t, b)) /\ LotSeen(t, b).expiry < LotSeen(t, src[t]).expiry =>
      LotSeen(t, b).qty = 0

(* The three shapes of the plan: as resolved, while a line is written, and *)
(* of a product without lots.                                              *)
PlanExact(t) ==
  UsesFefo(t) /\ (pc[t] = "pick" \/ (pc[t] \in {"receive", "credit"} /\ need[t] > 0)) =>
    \A b \in BatchId : Exact(t, b)

LineExact(t) ==
  UsesFefo(t) /\ pc[t] = "debit" =>
    /\ \A b \in BatchId \ {src[t]} : Exact(t, b)
    /\ need[t] > 0 => amt[t] = LotSeen(t, src[t]).qty
    /\ EarlierEmpty(t)

NoLotTaken(t) ==
  ~Current(t).manual /\ Current(t).product \notin Perishable =>
    /\ \A b \in BatchId : plan[t][b] = 0
    /\ pc[t] # "pick" => src[t] = NoBatch

OfferExact(t) ==
  pc[t] \in Debiting /\ Debits(t) => PlanExact(t) /\ LineExact(t) /\ NoLotTaken(t)

AllExact == \A t \in Tx : OfferExact(t)

LEMMA FefoItem ==
  ASSUME NEW t \in Tx, UsesFefo(t)
  PROVE  ~Current(t).manual /\ Current(t).product \in Perishable
BY DEF UsesFefo

LEMMA OthersExact ==
  ASSUME BaseInv, LotsInv, AllExact, NEW t \in Tx, Begin(t) \/ Proceed(t) \/ Abort(t),
         NEW u \in Tx \ {t}
  PROVE  OfferExact(u)'
<1>1. /\ pc'[u] = pc[u] /\ req'[u] = req[u] /\ todo'[u] = todo[u]
      /\ need'[u] = need[u] /\ plan'[u] = plan[u] /\ src'[u] = src[u] /\ amt'[u] = amt[u]
  BY StepUntouched, LineUntouched DEF Untouched, BaseInv
<1>2. /\ Current(u)' = Current(u) /\ Source(u)' = Source(u)
      /\ Debits(u)' = Debits(u) /\ UsesFefo(u)' = UsesFefo(u)
  BY <1>1, SameItem
<1> SUFFICES ASSUME pc[u] \in Debiting, Debits(u) PROVE OfferExact(u)'
  BY <1>1, <1>2 DEF OfferExact
<1>3. Source(u) \in Pair /\ Holds(u, Source(u))
  BY CurrentType DEF BaseInv, WritesUnderLock, LocksCover, Debiting, Working, Inside
<1>4. \A b \in BatchId :
        At(Source(u), LotSeen(u, b)) \/ At(Source(u), LotSeen(u, b)') =>
          LotSeen(u, b)' = LotSeen(u, b)
  BY <1>3, HeldLots DEF LotsInv
<1>5. \A b \in BatchId : Exact(u, b) => Exact(u, b)'
  BY <1>1, <1>2, <1>4 DEF Exact, At
<1>6. PlanExact(u) /\ LineExact(u) /\ NoLotTaken(u)
  BY DEF AllExact, OfferExact
<1>7. PlanExact(u)'
  BY <1>1, <1>2, <1>5, <1>6 DEF PlanExact
<1>8. NoLotTaken(u)'
  BY <1>1, <1>2, <1>6 DEF NoLotTaken
<1>9. LineExact(u)'
  <2> SUFFICES ASSUME UsesFefo(u), pc[u] = "debit" PROVE LineExact(u)'
    BY <1>1, <1>2 DEF LineExact
  <2>1. LineTaken(u) /\ LineBacked(u)
    BY DEF LotsInv, PlansHold, PlanHolds
  <2>2. src[u] \in BatchId /\ At(Source(u), LotSeen(u, src[u]))
    BY <2>1, FefoItem DEF LineTaken, LineBacked, Has
  <2>3. LotSeen(u, src[u])' = LotSeen(u, src[u])
    <3> DEFINE s == src[u]
    <3>1. s \in BatchId /\ At(Source(u), LotSeen(u, s))
      BY <2>2
    <3>2. LotSeen(u, s)' = LotSeen(u, s) /\ src'[u] = s
      <4> HIDE DEF s
      <4>1. dirty'[u] = dirty[u]
        BY LineUntouched DEF BaseInv
      <4>2. (IF dirty'[u][s] # NoLot THEN dirty'[u][s] ELSE lots'[s]) = LotSeen(u, s)
        BY <1>1, <1>4, <3>1 DEF s, LotSeen
      <4> QED
        BY <1>1, <4>2 DEF s, LotSeen
    <3> QED
      BY <1>1, <3>2 DEF LotSeen
  <2>4. EarlierEmpty(u)'
    BY <1>1, <1>2, <1>4, <1>6, <2>3 DEF LineExact, EarlierEmpty, At
  <2>5. \A b \in BatchId \ {src'[u]} : Exact(u, b)'
    BY <1>1, <1>5, <1>6 DEF LineExact
  <2> QED
    BY <1>1, <1>6, <2>3, <2>4, <2>5 DEF LineExact
<1> QED
  BY <1>7, <1>8, <1>9 DEF OfferExact

LEMMA ResolveExact ==
  ASSUME BaseInv, LotsInv, NEW t \in Tx, Resolve(t)
  PROVE  OfferExact(t)'
<1>1. PICK o \in Offers(t) : Covers(t, o) /\ plan' = [plan EXCEPT ![t] = o]
  BY DEF Resolve
<1>2. /\ TypeOK /\ pc'[t] = "pick" /\ plan'[t] = o /\ req' = req /\ todo' = todo
      /\ lots' = lots /\ dirty' = dirty
  BY <1>1 DEF BaseInv, TypeOK, Resolve, shared
<1>3. /\ Current(t)' = Current(t) /\ Source(t)' = Source(t) /\ UsesFefo(t)' = UsesFefo(t)
      /\ \A b \in BatchId : LotSeen(t, b)' = LotSeen(t, b)
  BY <1>2, SameItem, QuietLots
<1>4. PlanExact(t)'
  <2> SUFFICES ASSUME UsesFefo(t), NEW b \in BatchId, At(Source(t), LotSeen(t, b))
               PROVE  o[b] = LotSeen(t, b).qty
    BY <1>2, <1>3 DEF PlanExact, Exact, At
  <2>1. o[b] = IF At(Source(t), LotSeen(t, b)) /\ LotSeen(t, b).qty > 0
               THEN LotSeen(t, b).qty ELSE 0
    BY <1>2, OfferOfLots
  <2>2. LotSeen(t, b) \in Lot /\ LotSeen(t, b).qty >= 0
    BY <1>2, LotSeenType DEF At, LotsInv, LotsNotNegative
  <2>3. LotSeen(t, b).qty \in Int
    BY <2>2 DEF Lot
  <2> QED
    BY <2>1, <2>2, <2>3
<1>5. NoLotTaken(t)'
  <2> SUFFICES ASSUME ~Current(t).manual, Current(t).product \notin Perishable,
                      NEW b \in BatchId
               PROVE  o[b] = 0
    BY <1>2, <1>3 DEF NoLotTaken
  <2>1. PICK c : o = Only(NoBatch, c)
    BY DEF Offers, UsesFefo
  <2> QED
    BY <2>1, OnlyAt DEF Sources
<1>6. LineExact(t)'
  BY <1>2 DEF LineExact
<1> QED
  BY <1>4, <1>5, <1>6 DEF OfferExact

LEMMA PickExact ==
  ASSUME BaseInv, LotsInv, AllExact, NEW t \in Tx, Pick(t)
  PROVE  OfferExact(t)'
<1>1. PICK s \in Sources :
           /\ ExpiresFirst(t, s) /\ src'[t] = s /\ amt'[t] = Take(t, s)
           /\ need'[t] = need[t] - Take(t, s) /\ plan'[t][s] = 0
           /\ \A x \in Sources : x # s => plan'[t][x] = plan[t][x]
           /\ pc[t] = "pick" /\ pc'[t] = "debit" /\ req' = req /\ todo' = todo
           /\ UNCHANGED <<rows, lots, mine, dirty>>
  BY PickFacts DEF BaseInv
<1>2. /\ Current(t)' = Current(t) /\ Source(t)' = Source(t) /\ UsesFefo(t)' = UsesFefo(t)
      /\ \A b \in BatchId : LotSeen(t, b)' = LotSeen(t, b)
  BY <1>1, SameItem, QuietLots
<1>3. Debits(t) /\ OfferBacked(t) /\ OfferExact(t)
  BY <1>1 DEF LotsInv, PlansHold, Asked, PlanHolds, Debiting, AllExact
<1>4. plan[t][s] > 0 /\ plan[t][s] \in Int /\ need[t] \in Nat
      /\ \A b \in BatchId : plan[t][b] \in Int
  BY <1>1 DEF ExpiresFirst, BaseInv, TypeOK, Sources
<1>5. NoLotTaken(t)'
  <2> SUFFICES ASSUME ~Current(t).manual, Current(t).product \notin Perishable
               PROVE  s = NoBatch /\ \A b \in BatchId : plan[t][b] = 0
    BY <1>1, <1>2 DEF NoLotTaken, Sources
  <2>1. \A b \in BatchId : plan[t][b] = 0
    BY <1>1, <1>3 DEF OfferExact, NoLotTaken, Debiting
  <2> QED
    BY <1>4, <2>1 DEF Sources
<1>6. LineExact(t)'
  <2> SUFFICES ASSUME UsesFefo(t) PROVE LineExact(t)'
    BY <1>2 DEF LineExact
  <2>1. s \in BatchId /\ At(Source(t), LotSeen(t, s))
    BY <1>3, <1>4, FefoItem DEF OfferBacked, Has, Sources
  <2>2. \A b \in BatchId : Exact(t, b)
    BY <1>1, <1>3 DEF OfferExact, PlanExact, Debiting
  <2>3. \A b \in BatchId \ {s} : Exact(t, b)'
    BY <1>1, <1>2, <2>2 DEF Exact, At, Sources
  <2>4. Take(t, s) = LotSeen(t, s).qty \/ need'[t] = 0
    BY <1>1, <1>4, <2>1, <2>2 DEF Take, Exact
  <2>5. ASSUME NEW b \in BatchId, At(Source(t), LotSeen(t, b)),
               LotSeen(t, b).expiry < LotSeen(t, s).expiry
        PROVE  LotSeen(t, b).qty = 0
    <3>1. LotSeen(t, b) \in Lot /\ LotSeen(t, s) \in Lot
      BY <2>1, <2>5, LotSeenType DEF At, BaseInv
    <3>2. LotSeen(t, b).expiry \in Nat /\ LotSeen(t, s).expiry \in Nat
          /\ LotSeen(t, b).qty \in Int
      BY <3>1 DEF Lot
    <3>3. s # NoBatch
      BY <2>1
    <3>4. ~(plan[t][b] > 0)
      BY <1>1, <2>5, <3>2, <3>3 DEF ExpiresFirst
    <3>5. plan[t][b] = LotSeen(t, b).qty
      BY <2>2, <2>5 DEF Exact
    <3>6. LotSeen(t, b).qty >= 0
      BY <2>5 DEF At, LotsInv, LotsNotNegative
    <3> QED
      BY <3>2, <3>4, <3>5, <3>6
  <2>6. LotSeen(t, src[t])' = LotSeen(t, s)
    BY <1>1 DEF LotSeen
  <2>7. EarlierEmpty(t)'
    BY <1>2, <2>5, <2>6 DEF EarlierEmpty, At
  <2>8. need'[t] > 0 => amt'[t] = LotSeen(t, s).qty
    BY <1>1, <2>4
  <2> QED
    BY <1>1, <2>3, <2>6, <2>7, <2>8 DEF LineExact
<1>7. PlanExact(t)'
  BY <1>1 DEF PlanExact
<1> QED
  BY <1>5, <1>6, <1>7 DEF OfferExact

LEMMA DebitExact ==
  ASSUME BaseInv, LotsInv, AllExact, NEW t \in Tx, Debit(t)
  PROVE  OfferExact(t)'
<1>1. /\ pc[t] = "debit" /\ plan' = plan /\ src' = src /\ need' = need /\ req' = req
      /\ TypeOK /\ SourcesExist /\ need[t] \in Nat
  BY DEF Debit, line, BaseInv, TypeOK
<1>2. Debits(t) /\ LineTaken(t) /\ LineBacked(t) /\ OfferExact(t)
  BY <1>1 DEF LotsInv, PlansHold, Asked, PlanHolds, Debiting, AllExact
<1>3. CASE pc'[t] \notin Debiting
  BY <1>3 DEF OfferExact
<1>4. CASE pc'[t] \in {"receive", "pick"} /\ todo'[t] = todo[t]
            /\ (pc'[t] = "pick" => need[t] > 0)
  <2>1. /\ Current(t)' = Current(t) /\ Source(t)' = Source(t) /\ UsesFefo(t)' = UsesFefo(t)
    BY <1>1, <1>4, SameItem
  <2>2. NoLotTaken(t)'
    BY <1>1, <1>2, <2>1 DEF OfferExact, NoLotTaken, Debiting
  <2>3. LineExact(t)'
    BY <1>4 DEF LineExact
  <2>4. ASSUME UsesFefo(t), need[t] > 0, NEW b \in BatchId
        PROVE  Exact(t, b)'
    <3>1. src[t] \in BatchId
      BY <1>2, <2>4, FefoItem DEF LineTaken
    <3>2. src[t] # NoBatch
      BY <3>1
    <3>3. /\ LotSeen(t, src[t]) \in Lot /\ LotAfterDebit(t) \in Lot
          /\ LotAfterDebit(t).qty = LotSeen(t, src[t]).qty - amt[t]
          /\ Writes(t, src[t], LotAfterDebit(t))
      BY <1>1, <3>2, DebitWrites
    <3>4. LotSeen(t, src[t]).qty \in Int /\ amt[t] = LotSeen(t, src[t]).qty
          /\ plan[t][src[t]] = 0
      BY <1>1, <1>2, <2>4, <3>3 DEF OfferExact, LineExact, LineBacked, Debiting, Lot
    <3>5. CASE b = src[t]
      <4>1. LotSeen(t, b)' = LotAfterDebit(t)
        BY <1>1, <3>1, <3>3, <3>5, WriteSeen
      <4>2. LotSeen(t, b)'.qty = 0 /\ plan'[t][b] = 0
        BY <1>1, <3>3, <3>4, <3>5, <4>1
      <4> QED
        BY <4>2 DEF Exact
    <3>6. CASE b # src[t]
      <4>1. LotSeen(t, b)' = LotSeen(t, b)
        BY <1>1, <3>1, <3>3, <3>6, WriteSeen
      <4>2. Exact(t, b)
        BY <1>1, <1>2, <2>4, <3>6 DEF OfferExact, LineExact, Debiting
      <4> QED
        BY <1>1, <2>1, <4>1, <4>2 DEF Exact, At
    <3> QED
      BY <3>5, <3>6
  <2>5. PlanExact(t)'
    BY <1>1, <1>4, <2>1, <2>4 DEF PlanExact
  <2> QED
    BY <2>2, <2>3, <2>5 DEF OfferExact
<1>5. (pc'[t] = "receive" /\ todo'[t] = todo[t]) \/ LineDone(t)
  BY DEF Debit, BaseInv, TypeOK
<1> QED
  BY <1>1, <1>3, <1>4, <1>5, LineDoneFacts DEF Debiting

(* What comes in at the other store is no lot of this one.                 *)
LEMMA CreditElsewhere ==
  ASSUME BaseInv, LotsInv, NEW t \in Tx, Credit(t), Debits(t)
  PROVE  \A b \in BatchId :
           At(Source(t), LotSeen(t, b)) \/ At(Source(t), LotSeen(t, b)') =>
             LotSeen(t, b)' = LotSeen(t, b)
<1>1. pc[t] = "credit" /\ TypeOK /\ SourcesExist
  BY DEF Credit, BaseInv
<1>2. Valid(req[t]) /\ Credits(t)
  BY <1>1 DEF LotsInv, PlansHold, Asked
<1>3. req[t].kind = "transfer"
  BY <1>2 DEF Debits, Credits
<1>4. Source(t) # Target(t)
  BY <1>2, <1>3 DEF Valid, Source, Target
<1>5. CASE dirty' = dirty /\ lots' = lots
  BY <1>5, QuietLots
<1>6. ASSUME NEW c \in BatchId, NEW l \in Lot, Writes(t, c, l),
             ~At(Source(t), LotSeen(t, c)), l.pair = Target(t)
      PROVE  \A b \in BatchId :
               At(Source(t), LotSeen(t, b)) \/ At(Source(t), LotSeen(t, b)') =>
                 LotSeen(t, b)' = LotSeen(t, b)
  <2>1. LotSeen(t, c)' = l
    BY <1>1, <1>6, WriteSeen
  <2>2. \A b \in BatchId \ {c} : LotSeen(t, b)' = LotSeen(t, b)
    BY <1>1, <1>6, WriteSeen
  <2> QED
    BY <1>4, <1>6, <2>1, <2>2 DEF At
<1>7. \A c \in BatchId : At(Target(t), LotSeen(t, c)) => ~At(Source(t), LotSeen(t, c))
  BY <1>4 DEF At
<1>8. \A c \in BatchId : NewLot(t, c) => ~At(Source(t), LotSeen(t, c))
  BY DEF NewLot, LotSeen, At
<1> QED
  BY <1>1, <1>5, <1>6, <1>7, <1>8, CreditWrites

LEMMA CreditExact ==
  ASSUME BaseInv, LotsInv, AllExact, NEW t \in Tx, Credit(t)
  PROVE  OfferExact(t)'
<1>1. /\ pc[t] = "credit" /\ plan' = plan /\ src' = src /\ need' = need /\ req' = req
      /\ TypeOK /\ LineDone(t)
  BY DEF Credit, line, BaseInv
<1>2. CASE pc'[t] \notin Debiting \/ ~Debits(t)
  BY <1>1, <1>2 DEF OfferExact, Debits
<1>3. CASE need[t] > 0 /\ pc'[t] = "pick" /\ todo'[t] = todo[t] /\ Debits(t)
  <2>1. /\ Current(t)' = Current(t) /\ Source(t)' = Source(t) /\ UsesFefo(t)' = UsesFefo(t)
    BY <1>1, <1>3, SameItem
  <2>2. OfferExact(t)
    BY DEF AllExact
  <2>3. \A b \in BatchId :
          At(Source(t), LotSeen(t, b)) \/ At(Source(t), LotSeen(t, b)') =>
            LotSeen(t, b)' = LotSeen(t, b)
    BY <1>3, CreditElsewhere
  <2>4. UsesFefo(t) => \A b \in BatchId : Exact(t, b)
    BY <1>1, <1>3, <2>2 DEF OfferExact, PlanExact, Debiting
  <2>5. PlanExact(t)'
    BY <1>1, <2>1, <2>3, <2>4 DEF PlanExact, Exact, At
  <2>6. NoLotTaken(t)'
    BY <1>1, <1>3, <2>1, <2>2 DEF OfferExact, NoLotTaken, Debiting
  <2>7. LineExact(t)'
    BY <1>3 DEF LineExact
  <2> QED
    BY <2>5, <2>6, <2>7 DEF OfferExact
<1> QED
  BY <1>1, <1>2, <1>3, LineDoneFacts DEF Debiting

LEMMA StepExact ==
  ASSUME BaseInv, LotsInv, AllExact, NEW t \in Tx, Begin(t) \/ Proceed(t) \/ Abort(t)
  PROVE  AllExact'
<1>0. TypeOK
  BY DEF BaseInv
<1>1. \A u \in Tx \ {t} : OfferExact(u)'
  BY OthersExact
<1>2. CASE Begin(t) \/ Lock(t) \/ Refuse(t) \/ Commit(t) \/ Abort(t)
  <2>1. pc'[t] \notin Debiting \/ ~Debits(t)'
    <3>1. CASE Lock(t)
      <4>1. pc'[t] \in {"lock", "resolve"} \/ (req' = req /\ ~Debits(t))
        BY <1>0, <3>1 DEF Lock, TypeOK
      <4> QED
        BY <4>1 DEF Debiting, Debits
    <3>2. CASE Begin(t)
      BY <1>0, <3>2 DEF Begin, TypeOK, Debiting
    <3>3. CASE Refuse(t) \/ Commit(t) \/ Abort(t)
      <4>1. pc'[t] \in {"refused", "failed", "done"}
        BY <1>0, <3>3 DEF TypeOK, Refuse, Commit, Abort, End
      <4> QED
        BY <4>1 DEF Debiting
    <3> QED
      BY <1>2, <3>1, <3>2, <3>3
  <2>2. OfferExact(t)'
    BY <2>1 DEF OfferExact
  <2> QED
    BY <1>1, <2>2 DEF AllExact
<1>3. CASE Receive(t)
  <2>1. /\ pc[t] = "receive" /\ pc'[t] = "credit" /\ req' = req /\ todo' = todo
        /\ need' = need /\ plan' = plan /\ src' = src /\ lots' = lots /\ dirty' = dirty
    BY <1>0, <1>3 DEF Receive, TypeOK, shared
  <2>2. /\ Current(t)' = Current(t) /\ Source(t)' = Source(t) /\ Debits(t)' = Debits(t)
        /\ UsesFefo(t)' = UsesFefo(t) /\ \A b \in BatchId : LotSeen(t, b)' = LotSeen(t, b)
    BY <2>1, SameItem, QuietLots
  <2> SUFFICES ASSUME Debits(t) PROVE OfferExact(t)'
    BY <1>1, <2>2 DEF AllExact, OfferExact
  <2>3. PlanExact(t) /\ NoLotTaken(t)
    BY <2>1 DEF AllExact, OfferExact, Debiting
  <2>4. PlanExact(t)'
    BY <2>1, <2>2, <2>3 DEF PlanExact, Exact, At
  <2>5. NoLotTaken(t)'
    BY <2>1, <2>2, <2>3 DEF NoLotTaken
  <2>6. LineExact(t)'
    BY <2>1 DEF LineExact
  <2> QED
    BY <2>4, <2>5, <2>6 DEF OfferExact
<1>4. CASE Resolve(t) \/ Pick(t) \/ Debit(t) \/ Credit(t)
  BY <1>1, <1>4, ResolveExact, PickExact, DebitExact, CreditExact DEF AllExact
<1> QED
  BY <1>2, <1>3, <1>4 DEF Proceed

LEMMA InitExact == Init => AllExact
BY DEF Init, AllExact, OfferExact, Debiting

LEMMA StutterExact ==
  ASSUME AllExact, UNCHANGED vars
  PROVE  AllExact'
<1> SUFFICES ASSUME NEW t \in Tx, OfferExact(t) PROVE OfferExact(t)'
  BY DEF AllExact
<1>1. /\ pc'[t] = pc[t] /\ req'[t] = req[t] /\ todo'[t] = todo[t] /\ need'[t] = need[t]
      /\ plan'[t] = plan[t] /\ src'[t] = src[t] /\ amt'[t] = amt[t]
      /\ lots' = lots /\ dirty' = dirty
  BY DEF vars
<1>2. /\ Current(t)' = Current(t) /\ Source(t)' = Source(t) /\ Debits(t)' = Debits(t)
      /\ UsesFefo(t)' = UsesFefo(t)
  BY <1>1, SameItem
<1>3. \A b \in BatchId : Exact(t, b)' = Exact(t, b)
  BY <1>1, <1>2 DEF Exact, At, LotSeen
<1>4. EarlierEmpty(t)' = EarlierEmpty(t) /\ LotSeen(t, src[t])' = LotSeen(t, src[t])
  BY <1>1, <1>2 DEF EarlierEmpty, At, LotSeen
<1>5. /\ PlanExact(t) => PlanExact(t)'
      /\ NoLotTaken(t) => NoLotTaken(t)'
  BY <1>1, <1>2, <1>3 DEF PlanExact, NoLotTaken
<1>6. LineExact(t) => LineExact(t)'
  BY <1>1, <1>2, <1>3, <1>4 DEF LineExact
<1> QED
  BY <1>1, <1>2, <1>5, <1>6 DEF OfferExact

(* No item of the request names a lot.                                     *)
Automatic(t) == \A i \in DOMAIN req[t].items : ~req[t].items[i].manual

Lessened(t, b) == lots[b] # NoLot /\ LotSeen(t, b).qty < lots[b].qty

(* A lot that t has taken from is of its own store, and those of the pair  *)
(* that expire sooner are empty.                                           *)
TakenAtHome(t) ==
  \A b \in BatchId : Lessened(t, b) => Debits(t) /\ lots[b].pair[2] = req[t].from

SoonerEmpty(t) ==
  \A a, b \in BatchId :
    Lessened(t, b) /\ lots[a] # NoLot /\ lots[a].pair = lots[b].pair
      /\ lots[a].expiry < lots[b].expiry => LotSeen(t, a).qty = 0

InOrder(t) ==
  /\ pc[t] = "idle" => \A b \in BatchId : dirty[t][b] = NoLot
  /\ pc[t] \in Inside \cup {"commit"} /\ Automatic(t) => TakenAtHome(t) /\ SoonerEmpty(t)

AllInOrder == \A t \in Tx : InOrder(t)

LEMMA OthersInOrder ==
  ASSUME BaseInv, LotsInv, AllInOrder, NEW t \in Tx, Begin(t) \/ Proceed(t) \/ Abort(t),
         NEW u \in Tx \ {t}
  PROVE  InOrder(u)'
<1>0. /\ TypeOK /\ OneWriter /\ DirtyHeld /\ SameLot
  BY DEF BaseInv, LotsInv, LotWrites
<1>1. pc'[u] = pc[u] /\ req'[u] = req[u] /\ dirty'[u] = dirty[u]
  BY <1>0, StepUntouched, LineUntouched DEF Untouched
<1>2. Automatic(u)' = Automatic(u) /\ Debits(u)' = Debits(u)
  BY <1>1 DEF Automatic, Debits
<1>3. InOrder(u)
  BY DEF AllInOrder
<1>4. CASE lots' = lots
  <2>1. \A b \in BatchId : LotSeen(u, b)' = LotSeen(u, b)
    BY <1>1, <1>4 DEF LotSeen
  <2>2. \A b \in BatchId : Lessened(u, b)' = Lessened(u, b)
    BY <1>4, <2>1 DEF Lessened
  <2> QED
    BY <1>1, <1>2, <1>3, <1>4, <2>1, <2>2 DEF InOrder, TakenAtHome, SoonerEmpty
<1>5. CASE Commit(t)
  <2>1. \A b \in BatchId :
          /\ lots'[b] = LotSeen(t, b)
          /\ LotSeen(u, b)' = IF dirty[u][b] # NoLot THEN dirty[u][b] ELSE LotSeen(t, b)
    BY <1>0, <1>5, CommitLots
  <2>2. ASSUME NEW b \in BatchId, Lessened(u, b)'
        PROVE  /\ dirty[u][b] # NoLot /\ lots'[b] = lots[b]
               /\ LotSeen(u, b)' = LotSeen(u, b) /\ Lessened(u, b)
    <3>1. lots'[b] # NoLot /\ LotSeen(u, b)'.qty < lots'[b].qty
      BY <2>2 DEF Lessened
    <3>2. LotSeen(t, b) \in Lot
      BY <1>0, <2>1, <3>1, LotSeenType
    <3>3. LotSeen(t, b).qty \in Int
      BY <3>2 DEF Lot
    <3>4. dirty[u][b] # NoLot
      BY <2>1, <3>1, <3>3
    <3>5. dirty[t][b] = NoLot
      BY <1>0, <3>4 DEF OneWriter
    <3>6. lots'[b] = lots[b] /\ LotSeen(u, b)' = LotSeen(u, b)
      BY <2>1, <3>4, <3>5 DEF LotSeen
    <3> QED
      BY <3>1, <3>4, <3>6 DEF Lessened
  <2>3. ASSUME NEW a \in BatchId, NEW b \in BatchId, Lessened(u, b)', lots'[a] # NoLot,
               lots'[a].pair = lots'[b].pair
        PROVE  lots'[a] = lots[a] /\ LotSeen(u, a)' = LotSeen(u, a)
    <3>1. dirty[u][b] # NoLot /\ lots'[b] = lots[b] /\ lots[b] # NoLot
      BY <2>2, <2>3 DEF Lessened
    <3>2. lots[b] \in Lot /\ lots[b].pair \in Pair
      BY <1>0, <3>1 DEF TypeOK, Lot
    <3>3. Holds(u, lots[b].pair)
      BY <1>0, <3>1 DEF DirtyHeld, SameLot
    <3>4. dirty[t][a] = NoLot
      <4> SUFFICES ASSUME dirty[t][a] # NoLot PROVE FALSE
        OBVIOUS
      <4>1. lots'[a] = dirty[t][a]
        BY <2>1 DEF LotSeen
      <4>2. Holds(t, lots[b].pair)
        BY <1>0, <2>3, <3>1, <4>1 DEF DirtyHeld
      <4> QED
        BY <3>2, <3>3, <4>2, OneHolder
    <3> QED
      BY <2>1, <3>4 DEF LotSeen
  <2>4. TakenAtHome(u) => TakenAtHome(u)'
    BY <1>1, <1>2, <2>2 DEF TakenAtHome
  <2>5. SoonerEmpty(u) => SoonerEmpty(u)'
    BY <2>2, <2>3 DEF SoonerEmpty
  <2> QED
    BY <1>1, <1>2, <1>3, <2>4, <2>5 DEF InOrder
<1>6. lots' = lots \/ Commit(t)
  BY DEF Begin, Proceed, Lock, Resolve, Pick, Receive, Debit, Credit, Refuse, Abort, shared
<1> QED
  BY <1>4, <1>5, <1>6

(* The steps that write no lot.                                            *)
LEMMA QuietInOrder ==
  ASSUME BaseInv, AllInOrder, NEW t \in Tx, lots' = lots, dirty' = dirty, req' = req,
         pc[t] \in Inside, pc'[t] # "idle"
  PROVE  InOrder(t)'
<1>1. \A b \in BatchId : LotSeen(t, b)' = LotSeen(t, b) /\ Lessened(t, b)' = Lessened(t, b)
  BY QuietLots DEF Lessened
<1>2. Automatic(t)' = Automatic(t) /\ Debits(t)' = Debits(t)
  BY DEF Automatic, Debits
<1>3. InOrder(t)
  BY DEF AllInOrder
<1> QED
  BY <1>1, <1>2, <1>3 DEF InOrder, TakenAtHome, SoonerEmpty

LEMMA BeginInOrder ==
  ASSUME BaseInv, AllInOrder, NEW t \in Tx, Begin(t)
  PROVE  InOrder(t)'
<1>1. /\ TypeOK /\ pc[t] = "idle" /\ pc'[t] = "lock" /\ lots' = lots /\ dirty' = dirty
  BY DEF BaseInv, TypeOK, Begin, shared
<1>2. \A b \in BatchId : dirty[t][b] = NoLot
  BY <1>1 DEF AllInOrder, InOrder
<1>3. \A b \in BatchId : LotSeen(t, b)' = lots[b]
  BY <1>1, <1>2 DEF LotSeen
<1>4. \A b \in BatchId : lots[b] # NoLot => lots[b].qty \in Int
  BY <1>1 DEF TypeOK, Lot
<1>5. \A b \in BatchId : ~Lessened(t, b)'
  BY <1>1, <1>3, <1>4 DEF Lessened
<1> QED
  BY <1>1, <1>5 DEF InOrder, TakenAtHome, SoonerEmpty

(* What is committed of a lot that a transaction sees, and the lot it sees.*)
LEMMA SeenIsCommitted ==
  ASSUME TypeOK, LotWrites, NEW t \in Tx, NEW b \in BatchId, lots[b] # NoLot
  PROVE  /\ LotSeen(t, b) # NoLot /\ LotSeen(t, b) \in Lot /\ lots[b] \in Lot
         /\ LotSeen(t, b).pair = lots[b].pair /\ LotSeen(t, b).expiry = lots[b].expiry
         /\ LotSeen(t, b).qty \in Int /\ lots[b].qty \in Int
<1>1. LotSeen(t, b) # NoLot
  BY DEF LotSeen
<1>2. LotSeen(t, b) \in Lot /\ lots[b] \in Lot
  BY <1>1, LotSeenType DEF TypeOK
<1>3. LotSeen(t, b).pair = lots[b].pair /\ LotSeen(t, b).expiry = lots[b].expiry
  BY DEF LotSeen, LotWrites, SameLot
<1> QED
  BY <1>1, <1>2, <1>3 DEF Lot

LEMMA DebitInOrder ==
  ASSUME BaseInv, LotsInv, AllItemsLeft, AllExact, AllInOrder, NEW t \in Tx, Debit(t)
  PROVE  InOrder(t)'
<1>1. /\ pc[t] = "debit" /\ pc[t] \in Inside /\ req' = req /\ amt[t] \in Nat
      /\ TypeOK /\ SourcesExist /\ LotWrites /\ ItemsLeft(t)
  BY DEF Debit, line, BaseInv, TypeOK, LotsInv, AllItemsLeft, Inside
<1>2. /\ Debits(t) /\ LineBacked(t) /\ LineExact(t) /\ NoLotTaken(t) /\ InOrder(t)
  BY <1>1 DEF LotsInv, PlansHold, Asked, PlanHolds, Debiting, AllExact, OfferExact, AllInOrder
<1>3. pc'[t] # "idle"
  BY <1>1 DEF Debit, LineDone, TypeOK
<1>4. CASE src[t] = NoBatch /\ dirty' = dirty /\ lots' = lots
  BY <1>1, <1>3, <1>4, QuietInOrder
<1>5. CASE /\ src[t] \in BatchId /\ LotSeen(t, src[t]) \in Lot /\ LotAfterDebit(t) \in Lot
           /\ LotAfterDebit(t).qty = LotSeen(t, src[t]).qty - amt[t]
           /\ Writes(t, src[t], LotAfterDebit(t))
  <2> SUFFICES ASSUME Automatic(t) PROVE TakenAtHome(t)' /\ SoonerEmpty(t)'
    BY <1>1, <1>3 DEF InOrder, Automatic
  <2>1. ~Current(t).manual
    BY <1>1, CurrentOfRequest DEF Automatic
  <2>2. UsesFefo(t)
    <3>1. src[t] # NoBatch
      BY <1>5
    <3> QED
      BY <1>1, <1>2, <2>1, <3>1 DEF NoLotTaken, UsesFefo
  <2>s. PICK s \in BatchId : s = src[t]
    BY <1>5
  <2>3. /\ s \in BatchId /\ At(Source(t), LotSeen(t, s)) /\ LotSeen(t, s).qty >= amt[t]
        /\ EarlierEmpty(t)
    BY <1>1, <1>2, <1>5, <2>2, <2>s DEF LineBacked, Has, LineExact
  <2>4. /\ lots' = lots /\ LotSeen(t, s)' = LotAfterDebit(t)
        /\ \A b \in BatchId \ {s} : LotSeen(t, b)' = LotSeen(t, b)
    <3>1. Writes(t, s, LotAfterDebit(t)) /\ LotAfterDebit(t) \in Lot
      BY <1>5, <2>s
    <3>2. lots' = lots
      BY <3>1 DEF Writes
    <3>3. PICK l : l = LotAfterDebit(t)
      OBVIOUS
    <3>4. /\ LotSeen(t, s)' = l
          /\ \A b \in BatchId \ {s} : LotSeen(t, b)' = LotSeen(t, b)
      BY <1>1, <3>1, <3>3, WriteSeen
    <3> QED
      BY <3>2, <3>3, <3>4
  <2>5. TakenAtHome(t) /\ SoonerEmpty(t)
    BY <1>1, <1>2 DEF InOrder
  <2>6. \A b \in BatchId \ {s} : Lessened(t, b)' = Lessened(t, b)
    BY <2>4 DEF Lessened
  <2>7. LotSeen(t, s).qty \in Int /\ LotSeen(t, s)'.qty = LotSeen(t, s).qty - amt[t]
        /\ LotSeen(t, s).expiry \in Nat
    BY <1>5, <2>4, <2>s DEF Lot
  <2>8. \A b \in BatchId : EarlierEmpty(t) /\ At(Source(t), LotSeen(t, b))
          /\ LotSeen(t, b).expiry < LotSeen(t, s).expiry => LotSeen(t, b).qty = 0
    BY <2>s DEF EarlierEmpty
  <2>9. lots[s] # NoLot => lots[s].pair = Source(t) /\ lots[s].expiry = LotSeen(t, s).expiry
    BY <1>1, <2>3, SeenIsCommitted DEF At
  <2>10. TakenAtHome(t)'
    <3> SUFFICES ASSUME NEW b \in BatchId, Lessened(t, b)'
                 PROVE  Debits(t) /\ lots[b].pair[2] = req[t].from
      BY <1>1, <2>4 DEF TakenAtHome, Debits
    <3>1. CASE b = s
      BY <1>2, <2>4, <2>9, <3>1 DEF Lessened, Source
    <3>2. CASE b # s
      BY <2>5, <2>6, <3>2 DEF TakenAtHome
    <3> QED
      BY <3>1, <3>2
  <2>11. SoonerEmpty(t)'
    <3> SUFFICES ASSUME NEW a \in BatchId, NEW b \in BatchId, Lessened(t, b)',
                        lots[a] # NoLot, lots[a].pair = lots[b].pair,
                        lots[a].expiry < lots[b].expiry
                 PROVE  LotSeen(t, a)'.qty = 0
      BY <2>4 DEF SoonerEmpty
    <3>1. /\ LotSeen(t, a) # NoLot /\ LotSeen(t, a).pair = lots[a].pair
          /\ LotSeen(t, a).expiry = lots[a].expiry
      BY <1>1, SeenIsCommitted
    <3>2. CASE b = s
      <4>1. At(Source(t), LotSeen(t, a)) /\ LotSeen(t, a).expiry < LotSeen(t, s).expiry
        BY <2>4, <2>9, <3>1, <3>2 DEF At, Lessened
      <4>2. LotSeen(t, a).qty = 0 /\ a # s
        BY <2>3, <2>7, <2>8, <4>1
      <4> QED
        BY <2>4, <4>2
    <3>3. CASE b # s
      <4>1. LotSeen(t, a).qty = 0
        BY <2>5, <2>6, <3>3 DEF SoonerEmpty
      <4>2. CASE a = s
        BY <1>1, <2>3, <2>7, <4>1, <4>2
      <4>3. CASE a # s
        BY <2>4, <4>1, <4>3
      <4> QED
        BY <4>2, <4>3
    <3> QED
      BY <3>2, <3>3
  <2> QED
    BY <2>10, <2>11
<1> QED
  BY <1>1, <1>4, <1>5, DebitWrites

LEMMA CreditInOrder ==
  ASSUME BaseInv, LotsInv, AllInOrder, NEW t \in Tx, Credit(t)
  PROVE  InOrder(t)'
<1>1. /\ pc[t] = "credit" /\ pc[t] \in Inside /\ req' = req /\ amt[t] \in Nat
      /\ TypeOK /\ SourcesExist /\ LotWrites
  BY DEF Credit, line, BaseInv, TypeOK, LotsInv, Inside
<1>2. Valid(req[t]) /\ Credits(t) /\ InOrder(t)
  BY <1>1 DEF LotsInv, PlansHold, Asked, AllInOrder
<1>3. pc'[t] # "idle"
  BY <1>1 DEF Credit, LineDone, TypeOK
<1>4. CASE dirty' = dirty /\ lots' = lots
  BY <1>1, <1>3, <1>4, QuietInOrder
<1>5. ASSUME NEW c \in BatchId, NEW l \in Lot, Writes(t, c, l),
             \/ lots[c] = NoLot
             \/ At(Target(t), LotSeen(t, c)) /\ l.qty = LotSeen(t, c).qty + amt[t]
      PROVE  InOrder(t)'
  <2> SUFFICES ASSUME Automatic(t) PROVE TakenAtHome(t)' /\ SoonerEmpty(t)'
    BY <1>1, <1>3 DEF InOrder, Automatic
  <2>1. /\ lots' = lots /\ LotSeen(t, c)' = l
        /\ \A b \in BatchId \ {c} : LotSeen(t, b)' = LotSeen(t, b)
    <3>1. lots' = lots
      BY <1>5 DEF Writes
    <3>2. /\ LotSeen(t, c)' = l
          /\ \A b \in BatchId \ {c} : LotSeen(t, b)' = LotSeen(t, b)
      BY <1>1, <1>5, WriteSeen
    <3> QED
      BY <3>1, <3>2
  <2>2. TakenAtHome(t) /\ SoonerEmpty(t)
    BY <1>1, <1>2 DEF InOrder
  <2>3. ASSUME NEW b \in BatchId, Lessened(t, b)'
        PROVE  Lessened(t, b)
    <3>1. CASE b # c
      BY <2>1, <2>3, <3>1 DEF Lessened
    <3>2. CASE b = c
      <4>1. lots[c] # NoLot /\ l.qty < lots[c].qty
        BY <2>1, <2>3, <3>2 DEF Lessened
      <4>2. LotSeen(t, c).qty \in Int /\ lots[c].qty \in Int
        BY <1>1, <4>1, SeenIsCommitted
      <4> QED
        BY <1>1, <1>5, <3>2, <4>1, <4>2 DEF Lessened
    <3> QED
      BY <3>1, <3>2
  <2>4. TakenAtHome(t)'
    BY <1>1, <2>1, <2>2, <2>3 DEF TakenAtHome, Debits
  <2>5. ASSUME NEW a \in BatchId, NEW b \in BatchId, Lessened(t, b), lots[a] # NoLot,
               lots[a].pair = lots[b].pair
        PROVE  a # c
    <3> SUFFICES ASSUME a = c PROVE FALSE
      OBVIOUS
    <3>1. lots[b].pair = Target(t)
      BY <1>1, <1>5, <2>5, SeenIsCommitted DEF At
    <3>2. Debits(t) /\ req[t].to = req[t].from
      BY <2>2, <2>5, <3>1 DEF TakenAtHome, Target
    <3>3. req[t].kind = "transfer"
      BY <1>2, <3>2 DEF Debits, Credits
    <3> QED
      BY <1>2, <3>2, <3>3 DEF Valid
  <2>6. SoonerEmpty(t)'
    BY <2>1, <2>2, <2>3, <2>5 DEF SoonerEmpty
  <2> QED
    BY <2>4, <2>6
<1> QED
  BY <1>1, <1>4, <1>5, CreditWrites DEF NewLot

LEMMA StepInOrder ==
  ASSUME BaseInv, LotsInv, AllItemsLeft, AllExact, AllInOrder, NEW t \in Tx,
         Begin(t) \/ Proceed(t) \/ Abort(t)
  PROVE  AllInOrder'
<1>0. TypeOK
  BY DEF BaseInv
<1>1. \A u \in Tx \ {t} : InOrder(u)'
  BY OthersInOrder
<1>2. CASE Lock(t) \/ Resolve(t) \/ Pick(t) \/ Receive(t)
  <2>1. lots' = lots /\ dirty' = dirty /\ req' = req /\ pc[t] \in Inside /\ pc'[t] # "idle"
    BY <1>0, <1>2 DEF Lock, Resolve, Pick, Receive, shared, Inside, TypeOK
  <2> QED
    BY <1>1, <2>1, QuietInOrder DEF AllInOrder
<1>3. CASE Refuse(t) \/ Commit(t) \/ Abort(t)
  <2>1. pc'[t] \in {"refused", "failed", "done"}
    BY <1>0, <1>3 DEF TypeOK, Refuse, Commit, Abort, End
  <2>2. InOrder(t)'
    BY <2>1 DEF InOrder, Inside
  <2> QED
    BY <1>1, <2>2 DEF AllInOrder
<1>4. CASE Begin(t) \/ Debit(t) \/ Credit(t)
  BY <1>1, <1>4, BeginInOrder, DebitInOrder, CreditInOrder DEF AllInOrder
<1> QED
  BY <1>2, <1>3, <1>4 DEF Proceed

LEMMA StutterInOrder ==
  ASSUME AllInOrder, UNCHANGED vars
  PROVE  AllInOrder'
<1>1. \A t \in Tx, b \in BatchId :
        LotSeen(t, b)' = LotSeen(t, b) /\ Lessened(t, b)' = Lessened(t, b)
  BY QuietLots DEF Lessened, vars
<1>2. lots' = lots /\ dirty' = dirty /\ req' = req /\ pc' = pc
  BY DEF vars
<1>3. \A t \in Tx : InOrder(t) => InOrder(t)'
  BY <1>1, <1>2 DEF InOrder, TakenAtHome, SoonerEmpty, Automatic, Debits
<1> QED
  BY <1>3 DEF AllInOrder

LEMMA OrderInductive ==
  ASSUME NamesOwnLot
  PROVE  Spec => [](AllExact /\ AllInOrder)
<1>1. Init => AllExact /\ AllInOrder
  BY InitExact DEF Init, AllInOrder, InOrder, Inside
<1>2. BooksInv /\ AllExact /\ AllInOrder /\ [Next]_vars => (AllExact /\ AllInOrder)'
  BY StepExact, StepInOrder, StutterExact, StutterInOrder DEF BooksInv, Next
<1> QED
  BY <1>1, <1>2, BooksInductive, PTL DEF Spec

(* A committed request whose items name no lot took from no lot while one  *)
(* of the same product and store that expires sooner had a unit left:      *)
(* suggestFefoBatches plans once per item from what it reads, and neither  *)
(* the other items of the request nor the transactions that commit while   *)
(* it runs can make the plan wrong.                                        *)
THEOREM FirstExpiredFirstOut ==
  ASSUME NamesOwnLot
  PROVE  Spec => FefoOrder
<1>1. ASSUME BooksInv, AllInOrder, [Next]_vars, NEW t \in Tx,
             pc[t] = "commit", pc'[t] = "done", Automatic(t),
             NEW a \in {b \in BatchId : lots[b] # NoLot},
             NEW b \in {b \in BatchId : lots[b] # NoLot},
             lots[a].pair = lots[b].pair, lots[a].expiry < lots[b].expiry,
             lots'[b].qty < lots[b].qty
      PROVE  lots'[a].qty = 0
  <2>0. TypeOK
    BY <1>1 DEF BooksInv, BaseInv
  <2>1. PICK u \in Tx : Begin(u) \/ Proceed(u) \/ Abort(u)
    BY <1>1 DEF Next, vars
  <2>2. u = t
    BY <1>1, <2>0, <2>1, StepUntouched DEF Untouched
  <2>3. Commit(t)
    BY <1>1, <2>0, <2>1, <2>2
    DEF Proceed, Abort, End, Begin, Lock, Resolve, Refuse, Pick, Debit, Receive, Credit, TypeOK
  <2>4. \A c \in BatchId : lots'[c] = LotSeen(t, c)
    BY <2>0, <2>3, CommitLots
  <2>5. SoonerEmpty(t)
    BY <1>1 DEF AllInOrder, InOrder
  <2> QED
    BY <1>1, <2>4, <2>5 DEF SoonerEmpty, Lessened
<1>2. BooksInv /\ AllInOrder /\ [Next]_vars =>
        \A t \in Tx :
          pc[t] = "commit" /\ pc'[t] = "done"
            /\ (\A i \in DOMAIN req[t].items : ~req[t].items[i].manual) =>
          \A a, b \in {b \in BatchId : lots[b] # NoLot} :
            lots[a].pair = lots[b].pair /\ lots[a].expiry < lots[b].expiry
              /\ lots'[b].qty < lots[b].qty => lots'[a].qty = 0
  BY <1>1 DEF Automatic
<1> QED
  BY <1>2, BooksInductive, OrderInductive, PTL DEF Spec, FefoOrder

--------------------------------------------------------------------------------
(* Who waits for whom.  lockStockRow's keys come in the order of the items *)
(* and, within a transfer, in the order of the store ids.  f gives every   *)
(* key a height; a list of items climbs when no key comes after a higher   *)
(* one.                                                                    *)

NotAbove(f, k, l) == k = l \/ f[k] < f[l]

ListClimbs(f, r, s) ==
  /\ \A m, n \in DOMAIN s : m < n =>
       \A x \in PairsToLock(r, s[m]), y \in PairsToLock(r, s[n]) :
         NotAbove(f, LockKey[x], LockKey[y])
  /\ \A m \in DOMAIN s : \A x, y \in PairsToLock(r, s[m]) :
       x[2] < y[2] => NotAbove(f, LockKey[x], LockKey[y])

Climb(f) == \A r \in Requests : Valid(r) => ListClimbs(f, r, r.items)

Ended == {"idle", "refused", "failed", "done"}

(* No key that t holds is above one that it has still to take.             *)
HoldsBelow(f, t) ==
  \A k \in Key : owner[k] = t =>
    /\ \A n \in DOMAIN todo[t] : n > 1 =>
         \A y \in PairsToLock(req[t], todo[t][n]) : NotAbove(f, k, LockKey[y])
    /\ pc[t] = "lock" => \A y \in want[t] : NotAbove(f, k, LockKey[y])

Climbing(f, t) ==
  /\ pc[t] \in Ended => \A k \in Key : owner[k] # t
  /\ pc[t] \in Inside => ListClimbs(f, req[t], todo[t]) /\ HoldsBelow(f, t)
  /\ pc[t] = "lock" => want[t] \subseteq PairsToLock(req[t], Current(t))

AllClimb(f) == \A t \in Tx : Climbing(f, t)

LEMMA ClimbOfOthers ==
  ASSUME NEW f, AllClimb(f), TypeOK, NEW t \in Tx, Begin(t) \/ Proceed(t) \/ Abort(t),
         \A k \in Key : owner'[k] \in {owner[k], t, NoTx}, Climbing(f, t)'
  PROVE  AllClimb(f)'
<1>1. ASSUME NEW u \in Tx \ {t}
      PROVE  Climbing(f, u)'
  <2>1. Climbing(f, u)
    BY DEF AllClimb
  <2>2. /\ pc'[u] = pc[u] /\ want'[u] = want[u] /\ todo'[u] = todo[u] /\ req'[u] = req[u]
        /\ Current(u)' = Current(u)
    BY StepUntouched DEF Untouched, Current
  <2>3. \A k \in Key : owner'[k] = u => owner[k] = u
    BY <1>1
  <2>4. pc'[u] \in Ended => \A k \in Key : owner'[k] # u
    BY <2>1, <2>2, <2>3 DEF Climbing
  <2>5. HoldsBelow(f, u) => HoldsBelow(f, u)'
    BY <2>2, <2>3 DEF HoldsBelow
  <2>6. pc'[u] \in Inside => ListClimbs(f, req'[u], todo'[u]) /\ HoldsBelow(f, u)'
    BY <2>1, <2>2, <2>5 DEF Climbing
  <2> QED
    BY <2>1, <2>2, <2>4, <2>6 DEF Climbing
<1> QED
  BY <1>1 DEF AllClimb

LEMMA BeginClimbs ==
  ASSUME NEW f, Climb(f), AllClimb(f), TypeOK, NEW t \in Tx, Begin(t)
  PROVE  owner' = owner /\ Climbing(f, t)'
<1>1. PICK r \in Requests :
        /\ Valid(r) /\ req' = [req EXCEPT ![t] = r]
        /\ todo' = [todo EXCEPT ![t] = r.items]
        /\ want' = [want EXCEPT ![t] = PairsToLock(r, Head(r.items))]
  BY DEF Begin
<1>2. /\ req'[t] = r /\ todo'[t] = r.items /\ want'[t] = PairsToLock(r, Head(r.items))
      /\ pc'[t] = "lock" /\ owner' = owner /\ pc[t] = "idle"
  BY <1>1 DEF Begin, shared, TypeOK
<1>3. \A k \in Key : owner'[k] # t
  BY <1>2 DEF AllClimb, Climbing, Ended
<1>4. HoldsBelow(f, t)'
  BY <1>3 DEF HoldsBelow
<1>5. ListClimbs(f, req'[t], todo'[t])
  BY <1>1, <1>2 DEF Climb
<1>6. want'[t] = PairsToLock(req'[t], Current(t)')
  BY <1>2 DEF Current
<1> QED
  BY <1>2, <1>3, <1>4, <1>5, <1>6 DEF Climbing

LEMMA LockClimbs ==
  ASSUME NEW f, AllClimb(f), TypeOK, NEW t \in Tx, Lock(t)
  PROVE  (\A k \in Key : owner'[k] \in {owner[k], t}) /\ Climbing(f, t)'
<1>1. PICK p \in want[t] :
        /\ LocksNext(t, p) /\ owner' = [owner EXCEPT ![LockKey[p]] = t]
        /\ want' = [want EXCEPT ![t] = @ \ {p}]
  BY DEF Lock
<1>2. /\ pc[t] = "lock" /\ req' = req /\ todo' = todo /\ want'[t] = want[t] \ {p}
      /\ pc'[t] \in Inside /\ pc'[t] \notin Ended
  BY <1>1 DEF Lock, line, TypeOK, Inside, Ended
<1>3. /\ ListClimbs(f, req[t], todo[t]) /\ HoldsBelow(f, t)
      /\ want[t] \subseteq PairsToLock(req[t], Current(t))
  BY <1>2 DEF AllClimb, Climbing, Inside
<1>4. /\ todo[t] \in Seq(Item) /\ todo[t] # <<>> /\ Current(t) = todo[t][1]
      /\ 1 \in DOMAIN todo[t] /\ DOMAIN todo[t] \subseteq Nat
  BY <1>2 DEF TypeOK, Inside, Current
<1>5. \A k \in Key : owner'[k] \in {owner[k], t} /\ (owner'[k] = t => owner[k] = t \/ k = LockKey[p])
  BY <1>1 DEF TypeOK
<1>6. p \in PairsToLock(req[t], todo[t][1])
  BY <1>3, <1>4
<1>7. ASSUME NEW n \in DOMAIN todo[t], n > 1, NEW y \in PairsToLock(req[t], todo[t][n])
      PROVE  NotAbove(f, LockKey[p], LockKey[y])
  <2>1. 1 < n
    BY <1>4, <1>7
  <2> QED
    BY <1>3, <1>4, <1>6, <1>7, <2>1 DEF ListClimbs
<1>8. ASSUME NEW y \in want[t] \ {p}
      PROVE  NotAbove(f, LockKey[p], LockKey[y])
  <2>1. y \in PairsToLock(req[t], todo[t][1])
    BY <1>3, <1>4
  <2>2. p[2] <= y[2]
    BY <1>1 DEF LocksNext
  <2>3. p[2] # y[2]
    BY <1>6, <1>8, <2>1 DEF PairsToLock
  <2>4. p \in Pair /\ y \in Pair
    BY <1>8 DEF TypeOK
  <2>5. p[2] \in Nat /\ y[2] \in Nat
    BY <2>4 DEF Pair
  <2>6. p[2] < y[2]
    BY <2>2, <2>3, <2>5
  <2> QED
    BY <1>3, <1>4, <1>6, <2>1, <2>6 DEF ListClimbs
<1>9. HoldsBelow(f, t)'
  <2> SUFFICES ASSUME NEW k \in Key, owner'[k] = t
               PROVE  /\ \A n \in DOMAIN todo[t] : n > 1 =>
                           \A y \in PairsToLock(req[t], todo[t][n]) : NotAbove(f, k, LockKey[y])
                      /\ \A y \in want[t] \ {p} : NotAbove(f, k, LockKey[y])
    BY <1>2 DEF HoldsBelow
  <2>1. CASE owner[k] = t
    BY <1>2, <1>3, <2>1 DEF HoldsBelow
  <2>2. CASE k = LockKey[p]
    BY <1>7, <1>8, <2>2
  <2> QED
    BY <1>5, <2>1, <2>2
<1>10. want'[t] \subseteq PairsToLock(req'[t], Current(t)')
  BY <1>2, <1>3 DEF Current
<1> QED
  BY <1>2, <1>3, <1>5, <1>9, <1>10 DEF Climbing

LEMMA WorkClimbs ==
  ASSUME NEW f, AllClimb(f), TypeOK, NEW t \in Tx,
         Resolve(t) \/ Pick(t) \/ Receive(t) \/ Debit(t) \/ Credit(t)
  PROVE  owner' = owner /\ Climbing(f, t)'
<1>1. /\ owner' = owner /\ req' = req /\ pc[t] \in Inside /\ pc[t] \in Working
  BY DEF Resolve, Pick, Receive, Debit, Credit, shared, Inside, Working
<1>2. ListClimbs(f, req[t], todo[t]) /\ HoldsBelow(f, t)
  BY <1>1 DEF AllClimb, Climbing
<1>3. CASE todo' = todo /\ pc'[t] \in Inside \ {"lock"}
  <2>1. HoldsBelow(f, t)'
    BY <1>1, <1>2, <1>3 DEF HoldsBelow
  <2>2. pc'[t] \notin Ended /\ pc'[t] # "lock"
    BY <1>3 DEF Ended, Inside
  <2> QED
    BY <1>1, <1>2, <1>3, <2>1, <2>2 DEF Climbing
<1>4. CASE LineDone(t)
  <2>1. CASE need[t] > 0 /\ pc' = [pc EXCEPT ![t] = "pick"] /\ UNCHANGED <<todo, want>>
    BY <1>3, <2>1 DEF TypeOK, Inside
  <2>2. PICK rest : rest = Tail(todo[t])
    OBVIOUS
  <2>3. todo[t] \in Seq(Item) /\ todo[t] # <<>>
    BY <1>1 DEF TypeOK
  <2>4. CASE /\ todo' = [todo EXCEPT ![t] = rest]
             /\ want' = [want EXCEPT ![t] = IF rest = <<>> THEN {}
                                            ELSE PairsToLock(req[t], Head(rest))]
             /\ pc' = [pc EXCEPT ![t] = IF rest = <<>> THEN "commit" ELSE "lock"]
    <3>1. CASE rest = <<>>
      <4>1. pc'[t] = "commit"
        BY <2>4, <3>1 DEF TypeOK
      <4> QED
        BY <1>1, <4>1 DEF Climbing, Ended, Inside
    <3>2. CASE rest # <<>>
      <4>1. /\ pc'[t] = "lock" /\ todo'[t] = rest /\ want'[t] = PairsToLock(req[t], Head(rest))
        BY <2>4, <3>2 DEF TypeOK
      <4>2. /\ rest \in Seq(Item) /\ Head(rest) = rest[1]
            /\ \A n \in DOMAIN rest : n \in Nat /\ n + 1 \in DOMAIN todo[t] /\ n + 1 > 1
                                      /\ rest[n] = todo[t][n + 1]
        BY <2>2, <2>3, <3>2
      <4>3. 1 \in DOMAIN rest
        BY <3>2, <4>2
      <4>4. ListClimbs(f, req[t], rest)
        <5>1. ASSUME NEW m \in DOMAIN rest, NEW n \in DOMAIN rest, m < n,
                     NEW x \in PairsToLock(req[t], rest[m]), NEW y \in PairsToLock(req[t], rest[n])
              PROVE  NotAbove(f, LockKey[x], LockKey[y])
          <6>1. PICK i \in DOMAIN todo[t] : i = m + 1
            BY <4>2
          <6>2. PICK j \in DOMAIN todo[t] : j = n + 1
            BY <4>2
          <6>3. rest[m] = todo[t][i] /\ rest[n] = todo[t][j] /\ i < j
            BY <4>2, <5>1, <6>1, <6>2
          <6> QED
            BY <1>2, <5>1, <6>3 DEF ListClimbs
        <5>2. ASSUME NEW m \in DOMAIN rest, NEW x \in PairsToLock(req[t], rest[m]),
                     NEW y \in PairsToLock(req[t], rest[m]), x[2] < y[2]
              PROVE  NotAbove(f, LockKey[x], LockKey[y])
          BY <1>2, <4>2, <5>2 DEF ListClimbs
        <5> QED
          BY <5>1, <5>2 DEF ListClimbs
      <4>5. \A k \in Key : owner[k] = t => \A n \in DOMAIN rest :
              \A y \in PairsToLock(req[t], rest[n]) : NotAbove(f, k, LockKey[y])
        BY <1>2, <4>2 DEF HoldsBelow
      <4>6. HoldsBelow(f, t)'
        BY <1>1, <4>1, <4>2, <4>3, <4>5 DEF HoldsBelow
      <4> QED
        BY <1>1, <4>1, <4>2, <4>4, <4>6 DEF Climbing, Ended, Current
    <3> QED
      BY <3>1, <3>2
  <2> QED
    BY <1>4, <2>1, <2>2, <2>4 DEF LineDone
<1> QED
  BY <1>1, <1>3, <1>4 DEF Resolve, Pick, Receive, Debit, Credit, TypeOK, Inside

LEMMA EndClimbs ==
  ASSUME NEW f, TypeOK, NEW t \in Tx, Refuse(t) \/ Commit(t) \/ Abort(t)
  PROVE  (\A k \in Key : owner'[k] \in {owner[k], NoTx}) /\ Climbing(f, t)'
<1>1. PICK o \in {"refused", "failed", "done"} : End(t, o)
  BY DEF Refuse, Commit, Abort
<1>2. pc'[t] \in Ended \ Inside /\ pc'[t] # "lock"
  BY <1>1 DEF End, TypeOK, Ended, Inside
<1>3. \A k \in Key : owner'[k] \in {owner[k], NoTx} /\ owner'[k] # t
  BY <1>1 DEF End
<1> QED
  BY <1>2, <1>3 DEF Climbing

LEMMA ClimbInductive ==
  ASSUME NEW f, Climb(f)
  PROVE  Spec => []AllClimb(f)
<1>1. Init => AllClimb(f)
  BY DEF Init, AllClimb, Climbing, Ended, Inside
<1>2. ASSUME BaseInv, AllClimb(f), NEW t \in Tx, Begin(t) \/ Proceed(t) \/ Abort(t)
      PROVE  AllClimb(f)'
  <2>1. TypeOK
    BY <1>2 DEF BaseInv
  <2>2. (\A k \in Key : owner'[k] \in {owner[k], t, NoTx}) /\ Climbing(f, t)'
    BY <1>2, <2>1, BeginClimbs, LockClimbs, WorkClimbs, EndClimbs DEF Proceed
  <2> QED
    BY <1>2, <2>1, <2>2, ClimbOfOthers
<1>3. AllClimb(f) /\ UNCHANGED vars => AllClimb(f)'
  BY DEF vars, AllClimb, Climbing, HoldsBelow, Current
<1>4. BaseInv /\ AllClimb(f) /\ [Next]_vars => AllClimb(f)'
  BY <1>2, <1>3 DEF Next
<1> QED
  BY <1>1, <1>4, BaseInductive, PTL DEF Spec

(* A finite set has an element that nothing in it is higher than.          *)
LEMMA HighestExists ==
  ASSUME NEW S, IsFiniteSet(S), S # {}, NEW g \in [S -> Nat]
  PROVE  \E t \in S : \A u \in S : g[u] <= g[t]
<1> DEFINE T == {s \in SUBSET S : s # {} /\ ~\E r \in s : \A x \in s : g[x] <= g[r]}
<1>1. T = {}
  <2> SUFFICES ASSUME T # {} PROVE FALSE
    OBVIOUS
  <2>0. T \subseteq SUBSET S
    OBVIOUS
  <2>1. PICK s \in T : \A u \in T : u \subseteq s => u = s
    <3> HIDE DEF T
    <3> QED
      BY <2>0, SmallestSubset
  <2>2. PICK a \in s : TRUE
    OBVIOUS
  <2> DEFINE R == s \ {a}
  <2>3. \A x \in s : g[x] \in Nat
    OBVIOUS
  <2>4. R # {}
    BY <2>2, <2>3
  <2>5. R \notin T
    BY <2>1, <2>2
  <2>6. PICK r \in R : \A x \in R : g[x] <= g[r]
    BY <2>4, <2>5
  <2>7. CASE g[a] <= g[r]
    BY <2>6, <2>7
  <2>8. CASE ~(g[a] <= g[r])
    <3>1. \A x \in s : g[x] <= g[a]
      BY <2>2, <2>3, <2>6, <2>8
    <3> QED
      BY <2>2, <3>1
  <2> QED
    BY <2>7, <2>8
<1>2. S \notin T
  BY <1>1
<1> QED
  BY <1>2

(* The waits for advisory locks close no circle, however many transactions *)
(* run, whatever products they move and whichever of their keys collide,   *)
(* as long as the keys have heights f that every request climbs: whoever   *)
(* is waited for holds a key below the one it waits for itself.            *)
THEOREM ClimbersNeverDeadlock ==
  ASSUME IsFiniteSet(Tx), NEW f \in [Key -> Nat], Climb(f)
  PROVE  Spec => []NoWaitCycle
<1>1. ASSUME TypeOK, AllClimb(f), NEW S \in SUBSET Tx, S # {},
             \A t \in S : \E u \in S : WaitsFor(t, u)
      PROVE  FALSE
  <2> DEFINE Awaits(t, p) ==
               p \in want[t] /\ \E u \in S : t # u /\ pc[t] = "lock" /\ owner[LockKey[p]] = u
  <2> DEFINE W == [t \in S |-> CHOOSE p \in Pair : Awaits(t, p)]
  <2>1. \A t \in S : W[t] \in Pair /\ Awaits(t, W[t])
    <3>1. ASSUME NEW t \in S
          PROVE  \E p \in Pair : Awaits(t, p)
      <4>1. PICK u \in S : WaitsFor(t, u)
        BY <1>1
      <4>2. PICK p \in want[t] : owner[LockKey[p]] = u /\ t # u /\ pc[t] = "lock"
        BY <4>1 DEF WaitsFor
      <4>3. p \in Pair
        BY <1>1 DEF TypeOK
      <4> QED
        BY <4>2, <4>3
    <3> QED
      BY <3>1
  <2> DEFINE g == [t \in S |-> f[LockKey[W[t]]]]
  <2>2. \A t \in S : LockKey[W[t]] \in Key
    BY <2>1
  <2>3. IsFiniteSet(S)
    BY FS_Subset
  <2>4. g \in [S -> Nat]
    <3> HIDE DEF W
    <3> QED
      BY <2>2
  <2>5. PICK t \in S : \A u \in S : g[u] <= g[t]
    <3> HIDE DEF g
    <3> QED
      BY <1>1, <2>3, <2>4, HighestExists
  <2>6. PICK u \in S : owner[LockKey[W[t]]] = u
    BY <2>1
  <2>7. pc[u] = "lock" /\ W[u] \in want[u] /\ owner[LockKey[W[u]]] # u
    BY <2>1
  <2> HIDE DEF W
  <2>8. NotAbove(f, LockKey[W[t]], LockKey[W[u]])
    BY <1>1, <2>2, <2>6, <2>7 DEF AllClimb, Climbing, HoldsBelow, Inside
  <2>9. LockKey[W[t]] # LockKey[W[u]]
    BY <2>6, <2>7
  <2>10. f[LockKey[W[t]]] < f[LockKey[W[u]]]
    BY <2>8, <2>9 DEF NotAbove
  <2>11. f[LockKey[W[u]]] <= f[LockKey[W[t]]]
    BY <2>5
  <2>12. f[LockKey[W[t]]] \in Nat /\ f[LockKey[W[u]]] \in Nat
    BY <2>2
  <2> QED
    BY <2>10, <2>11, <2>12
<1>2. TypeOK /\ AllClimb(f) => NoWaitCycle
  BY <1>1 DEF NoWaitCycle
<1> QED
  BY <1>2, TypeCorrect, ClimbInductive, PTL

(* In particular the ordered locks of one transfer are enough when a       *)
(* request has one item and no hashtext value is shared by pairs of        *)
(* different stores.                                                       *)
THEOREM OneItemNeverDeadlocks ==
  ASSUME IsFiniteSet(Tx),
         \A r \in Requests : Len(r.items) = 1,
         \A p, q \in Pair : LockKey[p] = LockKey[q] => p[2] = q[2]
  PROVE  Spec => []NoWaitCycle
<1> DEFINE At2(k, n) == \E p \in Pair : LockKey[p] = k /\ p[2] = n
<1> DEFINE f == [k \in Key |-> IF \E n \in Store : At2(k, n)
                               THEN CHOOSE n \in Store : At2(k, n) ELSE 0]
<1>1. ASSUME NEW p \in Pair
      PROVE  f[LockKey[p]] = p[2]
  <2>1. LockKey[p] \in Key /\ p[2] \in Store
    BY DEF Pair
  <2>2. At2(LockKey[p], p[2])
    OBVIOUS
  <2>3. \A n \in Store : At2(LockKey[p], n) => n = p[2]
    OBVIOUS
  <2> HIDE DEF At2
  <2> QED
    BY <2>1, <2>2, <2>3
<1>2. f \in [Key -> Nat]
  <2>1. Store \subseteq Nat
    OBVIOUS
  <2> HIDE DEF At2
  <2> QED
    BY <2>1
<1> HIDE DEF f
<1>3. Climb(f)
  <2> SUFFICES ASSUME NEW r \in Requests PROVE ListClimbs(f, r, r.items)
    BY DEF Climb
  <2>1. r.items \in Seq(Item) /\ DOMAIN r.items = 1..1
    BY RequestFields
  <2>2. r.items[1] \in Item
    BY <2>1
  <2>3. PairsToLock(r, r.items[1]) \subseteq Pair
    BY <2>2, PairsToLockType
  <2> QED
    BY <1>1, <2>1, <2>3 DEF ListClimbs, NotAbove
<1> QED
  BY <1>2, <1>3, ClimbersNeverDeadlock
================================================================================

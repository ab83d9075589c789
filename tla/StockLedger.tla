------------------------------ MODULE StockLedger ------------------------------
(***************************************************************************)
(* The stock core: services/app/src/modules/stock and modules/sales.       *)
(*                                                                         *)
(* Every operation that changes stock (manual entry, NF-e confirmation,    *)
(* exit, sale, transfer) is one interactive Postgres transaction opened by *)
(* withTenant() under READ COMMITTED.  A transaction takes an advisory     *)
(* lock on each (product, store) pair it works on, reads the balance off   *)
(* the latest row of stock_movements, appends a row with the new balance   *)
(* and, for lots, updates a row of batches.  There is no balance table.    *)
(*                                                                         *)
(* One step of the model is one read or one write of the code, so that     *)
(* transactions interleave wherever they do in Postgres.  A transaction's  *)
(* writes stay in its own buffers (mine, dirty) until it commits.          *)
(***************************************************************************)
EXTENDS Integers, Sequences, FiniteSetsExt

CONSTANTS
  Tx,          \* transactions; each runs at most one request
  NoTx,        \* the owner of a free lock
  Product,     \* products of one tenant
  Perishable,  \* the products with isPerishable
  Store,       \* stores, by the position of their ids in string order
  BatchId,     \* ids that rows of batches can have
  NoBatch,     \* batch_id NULL
  NoLot,       \* a row of batches that does not exist
  Label,       \* [number, expiry]: what the operator types for a lot
  NoLabel,     \* no batchNumber or no expiryDate given
  Key,         \* values of hashtext()
  LockKey,     \* hashtext(tenant || product || store) of each pair
  Requests,    \* what callers may ask for
  NamesOwnLot, \* whether operators name only lots of the item's own pair
  Resolution   \* movements of a pair that fit in one tick of created_at

Pair == Product \X Store

Kind == {"entry", "nfe", "exit", "sale", "transfer"}

(* A row of stock_movements and a row of batches.                          *)
Row == [at : Nat, qty : Int, bal : Int]

Lot == [pair : Pair, number : {l.number : l \in Label},
        expiry : {l.expiry : l \in Label}, qty : Int]

(* One line of a request; manual: the operator names a batchId.            *)
Item == [product : Product, qty : Nat \ {0}, manual : BOOLEAN,
         label : Label \cup {NoLabel}]

(* from and to are the same store except in a transfer.                    *)
Request == [kind : Kind, from : Store, to : Store, items : Seq(Item)]

ASSUME ConstantsAssumption ==
  /\ NoTx \notin Tx
  /\ NoBatch \notin BatchId
  /\ IsFiniteSet(BatchId)
  /\ NoLot \notin Lot
  /\ Perishable \subseteq Product
  /\ Store \subseteq Nat
  /\ LockKey \in [Pair -> Key]
  /\ Requests \subseteq Request
  /\ Requests # {}
  /\ Resolution \in Nat \ {0}
  /\ NamesOwnLot \in BOOLEAN
  /\ \A l \in Label : DOMAIN l = {"number", "expiry"} /\ l.expiry \in Nat
  /\ NoLabel \notin [number : {l.number : l \in Label},
                      expiry : {l.expiry : l \in Label}]

VARIABLES
  rows,    \* committed stock_movements of each pair
  lots,    \* committed batches
  clock,   \* movements inserted so far into each pair
  owner,   \* holder of each advisory lock
  pc,      \* where each transaction is
  req,     \* its request
  todo,    \* its items not finished yet, the current one first
  want,    \* pairs of the current item it has not locked yet
  need,    \* units of the current item still to debit
  plan,    \* units each source had when the item was resolved
  src,     \* source of the current line
  amt,     \* quantity of the current line
  cur,     \* the balance it has just read
  mine,    \* its uncommitted movements
  dirty    \* its uncommitted versions of batches

line == <<need, plan, src, amt, cur>>
shared == <<rows, lots, clock, owner>>
vars == <<rows, lots, clock, owner, pc, req, todo, want, need, plan, src, amt,
          cur, mine, dirty>>

--------------------------------------------------------------------------------
(* Rows and what a statement of transaction t sees of them.                *)

(* at is the position of the insert, which the database does not store;    *)
(* created_at is what it stores of it.                                     *)
Movement(at, q, bal) == [at |-> at, qty |-> q, bal |-> bal]

CreatedAt(r) == r.at \div Resolution

(* The rows DISTINCT ON (store_id) ... ORDER BY created_at DESC may return. *)
Latest(S) == {r \in S : \A x \in S : CreatedAt(x) <= CreatedAt(r)}

(* getCurrentStock: the balance of a latest row, 0 when there is none.     *)
CurrentStock(S) == IF S = {} THEN {0} ELSE {r.bal : r \in Latest(S)}

View(t, p) == rows[p] \cup mine[t][p]

LotSeen(t, b) == IF dirty[t][b] # NoLot THEN dirty[t][b] ELSE lots[b]

(* No other transaction holds the row lock of batch b.                     *)
RowFree(t, b) == \A u \in Tx \ {t} : dirty[u][b] = NoLot

LotsAt(t, p) == {b \in BatchId : LotSeen(t, b) # NoLot /\ LotSeen(t, b).pair = p}

--------------------------------------------------------------------------------
(* The current item of transaction t.                                      *)

Current(t) == Head(todo[t])
Source(t) == <<Current(t).product, req[t].from>>
Target(t) == <<Current(t).product, req[t].to>>

Debits(t) == req[t].kind \in {"exit", "sale", "transfer"}
Credits(t) == req[t].kind \in {"entry", "nfe", "transfer"}

(* Pairs lockStockRow is called on for one item: both ends of a transfer.  *)
PairsToLockOrigin(r, i) == {<<i.product, r.from>>}         \* mutated form
PairsToLock(r, i) == {<<i.product, r.from>>, <<i.product, r.to>>}

(* The smaller store id first.                                             *)
LocksOriginFirst(t, p) ==                                  \* mutated form
  p \in want[t] /\ (Source(t) \in want[t] => p = Source(t))
LocksNext(t, p) == p \in want[t] /\ \A x \in want[t] : p[2] <= x[2]

(* pg_advisory_xact_lock blocks on another session's lock, never on its own. *)
LockIgnored(t, k) == TRUE                                  \* mutated form
LockNotReentrant(t, k) == owner[k] = NoTx                  \* mutated form
LockFree(t, k) == owner[k] \in {NoTx, t}

Holds(t, p) == owner[LockKey[p]] = t

--------------------------------------------------------------------------------
Init ==
  /\ rows = [p \in Pair |-> {}]
  /\ lots = [b \in BatchId |-> NoLot]
  /\ clock = [p \in Pair |-> 0]
  /\ owner = [k \in Key |-> NoTx]
  /\ pc = [t \in Tx |-> "idle"]
  /\ req = [t \in Tx |-> CHOOSE r \in Requests : TRUE]
  /\ todo = [t \in Tx |-> <<>>]
  /\ want = [t \in Tx |-> {}]
  /\ need = [t \in Tx |-> 0]
  /\ plan = [t \in Tx |-> [s \in BatchId \cup {NoBatch} |-> 0]]
  /\ src = [t \in Tx |-> NoBatch]
  /\ amt = [t \in Tx |-> 0]
  /\ cur = [t \in Tx |-> 0]
  /\ mine = [t \in Tx |-> [p \in Pair |-> {}]]
  /\ dirty = [t \in Tx |-> [b \in BatchId |-> NoLot]]

--------------------------------------------------------------------------------
(* Steps of a transaction t.                                               *)

(* The handler accepts the request and withTenant opens the transaction.   *)
Valid(r) ==
  /\ r.items # <<>>
  /\ r.kind = "transfer" <=> r.from # r.to

Begin(t) ==
  /\ pc[t] = "idle"
  /\ \E r \in Requests :
       /\ Valid(r)
       /\ req' = [req EXCEPT ![t] = r]
       /\ todo' = [todo EXCEPT ![t] = r.items]
       /\ want' = [want EXCEPT ![t] = PairsToLock(r, Head(r.items))]
  /\ pc' = [pc EXCEPT ![t] = "lock"]
  /\ UNCHANGED <<shared, line, mine, dirty>>

(* lockStockRow: waits while another transaction owns the key.             *)
Lock(t) ==
  /\ pc[t] = "lock"
  /\ \E p \in want[t] :
       /\ LocksNext(t, p)
       /\ LockFree(t, LockKey[p])
       /\ owner' = [owner EXCEPT ![LockKey[p]] = t]
       /\ want' = [want EXCEPT ![t] = @ \ {p}]
  /\ pc' = [pc EXCEPT ![t] = IF want'[t] # {} THEN "lock"
                             ELSE IF Debits(t) THEN "resolve" ELSE "receive"]
  /\ UNCHANGED <<rows, lots, clock, req, todo, line, mine, dirty>>

(* What resolveExitLines reads: the units each source offers.  The named   *)
(* lot alone, or nothing if there is no such lot; the balance for a        *)
(* product without lots; every lot of the pair with units for the others.  *)
Only(s, n) == [x \in BatchId \cup {NoBatch} |-> IF x = s THEN n ELSE 0]

Nameable(t) == IF NamesOwnLot THEN LotsAt(t, Source(t))
               ELSE {b \in BatchId : LotSeen(t, b) # NoLot}

UsesFefo(t) == ~Current(t).manual /\ Current(t).product \in Perishable

Offers(t) ==
  IF Current(t).manual
  THEN {Only(NoBatch, 0)} \cup {Only(b, LotSeen(t, b).qty) : b \in Nameable(t)}
  ELSE IF UsesFefo(t)
  THEN {[x \in BatchId \cup {NoBatch} |->
           IF x \in LotsAt(t, Source(t)) /\ LotSeen(t, x).qty > 0
           THEN LotSeen(t, x).qty ELSE 0]}
  ELSE {Only(NoBatch, c) : c \in CurrentStock(View(t, Source(t)))}

Units(o) == SumFunctionOnSet(o, BatchId)

CoversOneShort(t, o) ==                                    \* mutated form
  IF UsesFefo(t) THEN Units(o) >= Current(t).qty - 1
  ELSE \E s \in BatchId \cup {NoBatch} : o[s] >= Current(t).qty - 1
CoversStrictly(t, o) ==                                    \* mutated form
  IF UsesFefo(t) THEN Units(o) > Current(t).qty
  ELSE \E s \in BatchId \cup {NoBatch} : o[s] > Current(t).qty
Covers(t, o) ==
  IF UsesFefo(t) THEN Units(o) >= Current(t).qty
  ELSE \E s \in BatchId \cup {NoBatch} : o[s] >= Current(t).qty

(* The transaction ends: its locks are released, its buffers dropped.      *)
End(t, outcome) ==
  /\ pc' = [pc EXCEPT ![t] = outcome]
  /\ owner' = [k \in Key |-> IF owner[k] = t THEN NoTx ELSE owner[k]]
  /\ todo' = [todo EXCEPT ![t] = <<>>]
  /\ want' = [want EXCEPT ![t] = {}]
  /\ need' = [need EXCEPT ![t] = 0]
  /\ plan' = [plan EXCEPT ![t] = Only(NoBatch, 0)]
  /\ src' = [src EXCEPT ![t] = NoBatch]
  /\ amt' = [amt EXCEPT ![t] = 0]
  /\ cur' = [cur EXCEPT ![t] = 0]
  /\ mine' = [mine EXCEPT ![t] = [p \in Pair |-> {}]]
  /\ dirty' = [dirty EXCEPT ![t] = [b \in BatchId |-> NoLot]]
  /\ UNCHANGED <<clock, req>>

(* ConflictError: the offer does not cover the item; everything is undone. *)
Refuse(t) ==
  /\ pc[t] = "resolve"
  /\ \E o \in Offers(t) : ~Covers(t, o)
  /\ End(t, "refused")
  /\ UNCHANGED <<rows, lots>>

Resolve(t) ==
  /\ pc[t] = "resolve"
  /\ \E o \in Offers(t) :
       /\ Covers(t, o)
       /\ plan' = [plan EXCEPT ![t] = o]
  /\ need' = [need EXCEPT ![t] = Current(t).qty]
  /\ pc' = [pc EXCEPT ![t] = "pick"]
  /\ UNCHANGED <<shared, req, todo, want, src, amt, cur, mine, dirty>>

(* One turn of suggestFefoBatches' loop, then nextBalanceAfter's read.     *)
HasUnits(t, s) == plan[t][s] > 0                           \* mutated form
ExpiresFirst(t, s) ==
  /\ plan[t][s] > 0
  /\ \A x \in BatchId : s # NoBatch /\ plan[t][x] > 0 =>
       LotSeen(t, s).expiry <= LotSeen(t, x).expiry

TakeWhole(t, s) == plan[t][s]                              \* mutated form
Take(t, s) == IF UsesFefo(t) /\ plan[t][s] < need[t] THEN plan[t][s] ELSE need[t]

Pick(t) ==
  /\ pc[t] = "pick"
  /\ \E s \in BatchId \cup {NoBatch} :
       /\ ExpiresFirst(t, s)
       /\ src' = [src EXCEPT ![t] = s]
       /\ amt' = [amt EXCEPT ![t] = Take(t, s)]
       /\ need' = [need EXCEPT ![t] = @ - Take(t, s)]
       /\ plan' = [plan EXCEPT ![t][s] = 0]
  /\ \E c \in CurrentStock(View(t, Source(t))) : cur' = [cur EXCEPT ![t] = c]
  /\ pc' = [pc EXCEPT ![t] = "debit"]
  /\ UNCHANGED <<shared, req, todo, want, mine, dirty>>

InsertItem(t, p, q) ==                                     \* mutated form
  LET n == IF q > 0 THEN Current(t).qty ELSE -Current(t).qty IN
  /\ mine' = [mine EXCEPT ![t][p] = @ \cup {Movement(clock[p], n, cur[t] + n)}]
  /\ clock' = [clock EXCEPT ![p] = @ + 1]
Insert(t, p, q) ==
  /\ mine' = [mine EXCEPT ![t][p] = @ \cup {Movement(clock[p], q, cur[t] + q)}]
  /\ clock' = [clock EXCEPT ![p] = @ + 1]

(* The next line of the item, the next item, or the end of the callback.   *)
LineDone(t) ==
  LET rest == Tail(todo[t]) IN
  \/ /\ need[t] > 0
     /\ pc' = [pc EXCEPT ![t] = "pick"]
     /\ UNCHANGED <<todo, want>>
  \/ /\ need[t] = 0
     /\ todo' = [todo EXCEPT ![t] = rest]
     /\ want' = [want EXCEPT ![t] = IF rest = <<>> THEN {}
                                    ELSE PairsToLock(req[t], Head(rest))]
     /\ pc' = [pc EXCEPT ![t] = IF rest = <<>> THEN "commit" ELSE "lock"]

(* The movement out of the pair and the decrement of its lot, which waits  *)
(* for the row lock and works on the row as it is then.                    *)
LotNotDecremented(t) == LotSeen(t, src[t])                 \* mutated form
LotAfterDebit(t) == [LotSeen(t, src[t]) EXCEPT !.qty = @ - amt[t]]

Debit(t) ==
  /\ pc[t] = "debit"
  /\ Insert(t, Source(t), -amt[t])
  /\ IF src[t] = NoBatch THEN UNCHANGED dirty
     ELSE /\ RowFree(t, src[t])
          /\ dirty' = [dirty EXCEPT ![t][src[t]] = LotAfterDebit(t)]
  /\ IF Credits(t)
     THEN pc' = [pc EXCEPT ![t] = "receive"] /\ UNCHANGED <<todo, want>>
     ELSE LineDone(t)
  /\ UNCHANGED <<rows, lots, owner, req, line>>

(* nextBalanceAfter's read at the receiving pair.                          *)
Receive(t) ==
  /\ pc[t] = "receive"
  /\ \E c \in CurrentStock(View(t, Target(t))) : cur' = [cur EXCEPT ![t] = c]
  /\ amt' = [amt EXCEPT ![t] = IF Debits(t) THEN @ ELSE Current(t).qty]
  /\ pc' = [pc EXCEPT ![t] = "credit"]
  /\ UNCHANGED <<shared, req, todo, want, need, plan, src, mine, dirty>>

(* The lot that comes in: as typed for an entry, as it was for a transfer. *)
LabelIn(t) ==
  IF ~Debits(t) THEN Current(t).label
  ELSE IF src[t] = NoBatch THEN NoLabel
  ELSE [number |-> LotSeen(t, src[t]).number, expiry |-> LotSeen(t, src[t]).expiry]

(* A transfer adds to a lot with the same batch number at the destination. *)
SameNumber(t) ==
  {b \in LotsAt(t, Target(t)) : Debits(t) /\ LotSeen(t, b).number = LabelIn(t).number}

NewLot(t, b) ==
  /\ lots[b] = NoLot
  /\ \A u \in Tx : dirty[u][b] = NoLot

CreditLot(t) ==
  \/ /\ LabelIn(t) = NoLabel
     /\ UNCHANGED dirty
  \/ /\ LabelIn(t) # NoLabel
     /\ \E b \in SameNumber(t) :
          /\ RowFree(t, b)
          /\ dirty' = [dirty EXCEPT ![t][b] =
                         [LotSeen(t, b) EXCEPT !.qty = @ + amt[t]]]
  \/ /\ LabelIn(t) # NoLabel
     /\ SameNumber(t) = {}
     /\ \E b \in BatchId :
          /\ NewLot(t, b)
          /\ dirty' = [dirty EXCEPT ![t][b] =
                         [pair |-> Target(t), number |-> LabelIn(t).number,
                          expiry |-> LabelIn(t).expiry, qty |-> amt[t]]]

Credit(t) ==
  /\ pc[t] = "credit"
  /\ Insert(t, Target(t), amt[t])
  /\ CreditLot(t)
  /\ LineDone(t)
  /\ UNCHANGED <<rows, lots, owner, req, line>>

Commit(t) ==
  /\ pc[t] = "commit"
  /\ rows' = [p \in Pair |-> View(t, p)]
  /\ lots' = [b \in BatchId |-> LotSeen(t, b)]
  /\ End(t, "done")

(* lock_timeout, statement_timeout, Prisma's own limit, a deadlock victim, *)
(* a product that does not exist, a crash: Postgres rolls everything back. *)
Abort(t) ==
  /\ pc[t] \notin {"idle", "refused", "failed", "done"}
  /\ End(t, "failed")
  /\ UNCHANGED <<rows, lots>>

--------------------------------------------------------------------------------
(* What the transaction does by itself, once begun.                        *)
Proceed(t) == \/ Lock(t) \/ Resolve(t) \/ Refuse(t) \/ Pick(t)
              \/ Debit(t) \/ Receive(t) \/ Credit(t) \/ Commit(t)

Next == \E t \in Tx : Begin(t) \/ Proceed(t) \/ Abort(t)

Spec == Init /\ [][Next]_vars

(* No fault ends a transaction, and the database serves each one.          *)
Undisturbed == \E t \in Tx : Begin(t) \/ Proceed(t)

FairSpec == Init /\ [][Undisturbed]_vars /\ \A t \in Tx : WF_vars(Proceed(t))

--------------------------------------------------------------------------------
(* Properties.                                                             *)

Inside == {"lock", "resolve", "pick", "debit", "receive", "credit"}

(* Every variable holds a value of its column, and a transaction whose     *)
(* callback is running has an item in hand.                                *)
TypeOK ==
  /\ rows \in [Pair -> SUBSET Row]
  /\ mine \in [Tx -> [Pair -> SUBSET Row]]
  /\ lots \in [BatchId -> Lot \cup {NoLot}]
  /\ dirty \in [Tx -> [BatchId -> Lot \cup {NoLot}]]
  /\ clock \in [Pair -> Nat]
  /\ owner \in [Key -> Tx \cup {NoTx}]
  /\ pc \in [Tx -> Inside \cup {"idle", "commit", "refused", "failed", "done"}]
  /\ req \in [Tx -> Requests]
  /\ todo \in [Tx -> Seq(Item)]
  /\ want \in [Tx -> SUBSET Pair]
  /\ need \in [Tx -> Nat]
  /\ plan \in [Tx -> [BatchId \cup {NoBatch} -> Int]]
  /\ src \in [Tx -> BatchId \cup {NoBatch}]
  /\ amt \in [Tx -> Nat]
  /\ cur \in [Tx -> Int]
  /\ \A t \in Tx : pc[t] \in Inside => todo[t] # <<>>

(* Committed or not, each movement carries the balance of the movement     *)
(* inserted just before it plus its own quantity: balance_after follows    *)
(* from the history row by row, whatever transactions interleave.          *)
Before(S, r) == {x \in S : x.at < r.at}

Last(S) == CHOOSE r \in S : \A x \in S : x.at <= r.at

BalanceOf(S) == IF S = {} THEN 0 ELSE Last(S).bal

Chained(S) == \A r \in S : r.bal = BalanceOf(Before(S, r)) + r.qty

LedgerChains == \A t \in Tx, p \in Pair : Chained(View(t, p))

(* The balance getCurrentStock reports for a pair is the sum of the        *)
(* quantities of its movements: no committed movement is lost from it or   *)
(* counted twice (erd.md: balance_after can always be recomputed).         *)
Qty == [r \in Row |-> r.qty]

Sum(S) == SumFunctionOnSet(Qty, S)

BalanceIsSum == \A p \in Pair : CurrentStock(rows[p]) = {Sum(rows[p])}

(* Nobody sells what is not there: neither a balance nor a lot goes below  *)
(* zero, though each exit checks only the one or the other.                *)
NoOversell ==
  /\ \A p \in Pair : Sum(rows[p]) >= 0
  /\ \A b \in BatchId : lots[b] # NoLot => lots[b].qty >= 0

InLotsOf(p, lot) == IF lot # NoLot /\ lot.pair = p THEN lot.qty ELSE 0

(* The two books of a perishable product agree: its lots at a store add up *)
(* to its balance there.                                                   *)
LotsMatchBalance ==
  \A p \in Perishable \X Store :
    Units([b \in BatchId |-> InLotsOf(p, lots[b])]) = Sum(rows[p])

(* A committed exit that let the system choose left no unit in a lot that  *)
(* expires sooner than one it took from, even with other exits and         *)
(* receipts of the same product committing while it ran.                   *)
FefoOrder ==
  [][\A t \in Tx :
       pc[t] = "commit" /\ pc'[t] = "done"
         /\ (\A i \in DOMAIN req[t].items : ~req[t].items[i].manual) =>
       \A a, b \in {b \in BatchId : lots[b] # NoLot} :
         lots[a].pair = lots[b].pair /\ lots[a].expiry < lots[b].expiry
           /\ lots'[b].qty < lots[b].qty => lots'[a].qty = 0]_vars

(* An exit that names no lot is refused only when the balance, with what   *)
(* the transaction itself has already moved, really is below the quantity. *)
RefusedOnlyWhenShort ==
  [][\A t \in Tx :
       pc[t] = "resolve" /\ pc'[t] = "refused" /\ ~Current(t).manual =>
         Sum(View(t, Source(t))) < Current(t).qty]_vars

(* The waits for advisory locks never close a circle.                      *)
WaitsFor(t, u) ==
  /\ t # u
  /\ pc[t] = "lock"
  /\ \E p \in want[t] : LocksNext(t, p) /\ owner[LockKey[p]] = u

NoWaitCycle ==
  \A S \in (SUBSET Tx) \ {{}} : \E t \in S : \A u \in S : ~WaitsFor(t, u)

(* A transaction that has begun comes to its end without the help of a     *)
(* timeout.                                                                *)
EveryTxEnds == \A t \in Tx : pc[t] = "lock" ~> pc[t] \in {"done", "refused"}

(* What an item, and a request, adds to the balance of a pair.             *)
Change(r, i, p) ==
  (IF r.kind \in {"entry", "nfe", "transfer"} /\ p = <<i.product, r.to>>
   THEN i.qty ELSE 0)
  - (IF r.kind \in {"exit", "sale", "transfer"} /\ p = <<i.product, r.from>>
     THEN i.qty ELSE 0)

Deal(r) ==
  [p \in Pair |-> SumFunction([n \in DOMAIN r.items |-> Change(r, r.items[n], p)])]

(* The ledger of a pair is what the requests that ended well asked for, no *)
(* more and no less: each of them is in it once and whole, however many    *)
(* lots an exit was split over and whatever ran beside it, and of those    *)
(* that were refused, failed or still run nothing is.                      *)
DealsAddUp ==
  \A p \in Pair :
    Sum(rows[p]) = SumFunctionOnSet([t \in Tx |-> Deal(req[t])[p]],
                                    {t \in Tx : pc[t] = "done"})

Book == INSTANCE StockBook WITH
  onHand <- [p \in Pair |-> CHOOSE c \in CurrentStock(rows[p]) : TRUE],
  Deals <- {Deal(r) : r \in {r \in Requests : Valid(r)}}

(* The balances that readers see change one whole request at a time: every *)
(* interleaving is one the atomic book allows.                             *)
RefinesBook == Book!Spec
================================================================================

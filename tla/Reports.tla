-------------------------------- MODULE Reports --------------------------------
(***************************************************************************)
(* The dashboard of a company and its list of products under the minimum.  *)
(* The list is made of several statements at READ COMMITTED, each of which *)
(* sees what was committed before it; the other cards read once.           *)
(***************************************************************************)
EXTENDS Integers, FiniteSets, Functions, FiniteSetsExt

CONSTANTS
  Good, Branch,   \* products, stores
  Price,          \* of each product
  Stocked,        \* the products that have been entered, and where
  Minima,         \* values of a minimum
  StalledDays,    \* days of the card of stalled products
  MaxDay,         \* (bound)
  MaxEvents       \* movements and settings (bound)

ASSUME RepAssumption ==
  /\ \A S \in {Good, Branch, Minima} : IsFiniteSet(S)
  /\ Branch \cap {"none", "all", "products", "stock", "overrides"} = {}
  /\ Price \in [Good -> Nat] /\ Minima \subseteq Nat /\ Minima # {} /\ Stocked \subseteq Good \X Branch
  /\ {StalledDays, MaxDay, MaxEvents} \subseteq Nat

Whole == "all"      \* the view over all stores
NoOverride == -1    \* min_stock_override is null
Never == -1

VARIABLES
  day,        \* today
  sold,       \* of each product in each store, by the day of the sale
  last,       \* day of the last movement of a product in a store, or Never
  stock,      \* current stock of a product in a store
  minimum,    \* minStockGlobal
  override,   \* minStockOverride of a product in a store
  report,     \* the list being made: what has been read so far
  events,
  always,     \* history: <<product, where>> under the minimum all the while
  once,       \* history: products under it at some time since it was begun
  steady      \* history: products whose minima have not changed since

shop == <<day, sold, last, stock, minimum, override>>
watched == <<always, once, steady>>
repVars == <<shop, report, events, watched>>

(* view is the store asked for; read names the statements done so far.     *)
NoReport == [view |-> "none", read |-> {}, minimum |-> <<>>, override |-> <<>>,
             total |-> <<>>, low |-> {}]

RepInit ==
  /\ day = 0
  /\ sold = [g \in Good |-> [b \in Branch |-> [d \in 0 .. MaxDay |-> 0]]]
  /\ last = [g \in Good |-> [b \in Branch |-> IF <<g, b>> \in Stocked THEN 0 ELSE Never]]
  /\ stock = [g \in Good |-> [b \in Branch |-> IF <<g, b>> \in Stocked THEN 1 ELSE 0]]
  /\ minimum = [g \in Good |-> Min(Minima)]
  /\ override = [g \in Good |-> [b \in Branch |-> NoOverride]]
  /\ report = NoReport /\ events = 0
  /\ always = {} /\ once = {} /\ steady = Good

Total(f) == SumFunction(f)
StockIn(g, view) == IF view = Whole THEN Total(stock[g]) ELSE stock[g][view]

--------------------------------------------------------------------------------
(* listLowStockAlerts                                                      *)

MinimumIn(g, b) == IF override[g][b] = NoOverride THEN minimum[g] ELSE override[g][b]
UnderWhole(g) == Total(stock[g]) < minimum[g]
UnderOverride(g, b) == override[g][b] # NoOverride /\ stock[g][b] < override[g][b]

(* The ways a product belongs on the list of a view.                       *)
Under(view) ==
  IF view = Whole
    THEN {<<g, Whole>> : g \in {x \in Good : UnderWhole(x)}}
         \cup {p \in Good \X Branch : UnderOverride(p[1], p[2])}
    ELSE {<<g, view>> : g \in {x \in Good : stock[x][view] < MinimumIn(x, view)}}

Products(ways) == {p[1] : p \in ways}

(* The products, with their minimum.                                       *)
OpenReport(view) ==
  /\ report' = [NoReport EXCEPT !.view = view, !.read = {"products"}, !.minimum = minimum]
  /\ always' = Under(view) /\ once' = Products(Under(view)) /\ steady' = Good
  /\ UNCHANGED <<shop, events>>

Open == report.view # "none"
Reading(what) == Open /\ what \notin report.read
ReadAlso(what) == report.read \cup {what}

(* The balances of the view.                                               *)
ReadStock ==
  /\ Reading("stock")
  /\ report' = [report EXCEPT !.read = ReadAlso("stock"),
                              !.total = [g \in Good |-> StockIn(g, report.view)]]
  /\ UNCHANGED <<shop, events, watched>>

(* The minima of stores: of the view's at once with the balances, of all   *)
(* stores after them.                                                      *)
ReadOverrides ==
  /\ Reading("overrides") /\ (report.view = Whole => "stock" \in report.read)
  /\ report' = [report EXCEPT !.read = ReadAlso("overrides"), !.override = override]
  /\ UNCHANGED <<shop, events, watched>>

(* storeLow: the balances of a store that has a minimum.                   *)
UnderIn(b) == {g \in Good : report.override[g][b] > stock[g][b]}

ReadStore(b) ==
  /\ report.view = Whole /\ "overrides" \in report.read /\ Reading(b)
  /\ report' = [report EXCEPT !.read = ReadAlso(b), !.low = @ \cup UnderIn(b)]
  /\ UNCHANGED <<shop, events, watched>>

ListMade ==
  /\ {"stock", "overrides"} \subseteq report.read
  /\ report.view = Whole => Branch \subseteq report.read

MinStock(g) ==
  IF report.view # Whole /\ report.override[g][report.view] # NoOverride
    THEN report.override[g][report.view] ELSE report.minimum[g]
Listed == {g \in Good : report.total[g] < MinStock(g)} \cup report.low

--------------------------------------------------------------------------------
(* What changes meanwhile.                                                 *)

Watch ==
  IF Open
    THEN /\ always' = always \cap Under(report.view)'
         /\ once' = once \cup Products(Under(report.view)')
    ELSE UNCHANGED <<always, once>>

Event == events < MaxEvents /\ events' = events + 1 /\ UNCHANGED report

(* Entries, a return, the entry of a transfer.                             *)
Enter(g, b) ==
  /\ Event
  /\ stock' = [stock EXCEPT ![g][b] = @ + 1]
  /\ last' = [last EXCEPT ![g][b] = day]
  /\ UNCHANGED <<day, sold, minimum, override, steady>>
  /\ Watch

(* A sale may be dated back (resolveSaleDate): its movement is of today.   *)
Sell(g, b, n, d) ==
  /\ Event
  /\ d <= day
  /\ stock[g][b] >= n
  /\ stock' = [stock EXCEPT ![g][b] = @ - n]
  /\ sold' = [sold EXCEPT ![g][b][d] = @ + n]
  /\ last' = [last EXCEPT ![g][b] = day]
  /\ UNCHANGED <<day, minimum, override, steady>>
  /\ Watch

(* updateProduct, setProductStoreMinStock                                  *)
SetMinimum(g, m) ==
  /\ Event
  /\ minimum' = [minimum EXCEPT ![g] = m]
  /\ UNCHANGED <<day, sold, last, stock, override>>
  /\ Watch /\ steady' = steady \ {g}

SetOverride(g, b, m) ==
  /\ Event
  /\ override' = [override EXCEPT ![g][b] = m]
  /\ UNCHANGED <<day, sold, last, stock, minimum>>
  /\ Watch /\ steady' = steady \ {g}

NextDay ==
  /\ day < MaxDay /\ day' = day + 1
  /\ UNCHANGED <<sold, last, stock, minimum, override, report, events, watched>>

RepNext ==
  \/ \E view \in Branch \cup {Whole} : OpenReport(view)
  \/ ReadStock \/ ReadOverrides \/ NextDay
  \/ \E b \in Branch : ReadStore(b)
  \/ \E g \in Good, b \in Branch :
       \/ Enter(g, b)
       \/ \E n \in 1 .. 2, d \in 0 .. MaxDay : Sell(g, b, n, d)
       \/ \E m \in Minima \cup {NoOverride} : SetOverride(g, b, m)
  \/ \E g \in Good, m \in Minima : SetMinimum(g, m)

RepSpec == RepInit /\ [][RepNext]_repVars

--------------------------------------------------------------------------------
(* The other cards: what was sold on the days D, in one store or in all.   *)

StoresOf(view) == IF view = Whole THEN Branch ELSE {view}
SoldOn(g, b, D) == SumFunctionOnSet(sold[g][b], D)
SoldIn(g, view, D) == SumFunctionOnSet([b \in Branch |-> SoldOn(g, b, D)], StoresOf(view))

Measure(metric, view, D) ==
  [g \in {x \in Good : SoldIn(x, view, D) > 0} |->
     SoldIn(g, view, D) * (IF metric = "revenue" THEN Price[g] ELSE 1)]

(* getAbcCurve: the products sorted by falling value; which of two of the  *)
(* same value is first depends on the order the rows were read in.         *)
Curves(value) ==
  {c \in [1 .. Cardinality(DOMAIN value) -> DOMAIN value] :
     IsInjective(c) /\ \A i, j \in DOMAIN c : i < j => value[c[i]] >= value[c[j]]}

Cumulative(value, c, i) == SumFunctionOnSet([k \in DOMAIN c |-> value[c[k]]], 1 .. i)
Including(value, c, i) == Cumulative(value, c, i)               \* mutated form
Before(value, c, i) == Cumulative(value, c, i - 1)

Share(part, percent, total) == 100 * part < percent * total
Class(value, c, i) ==
  CASE Total(value) = 0 \/ Share(Before(value, c, i), 80, Total(value)) -> "A"
    [] Total(value) > 0 /\ ~Share(Before(value, c, i), 95, Total(value)) -> "C"
    [] OTHER -> "B"

(* getStalledProducts: no movement at all in the last StalledDays days.    *)
LastIn(g, view) == Max({last[g][b] : b \in StoresOf(view)})
IsStalled(g, view) == LastIn(g, view) = Never \/ LastIn(g, view) < day - StalledDays

--------------------------------------------------------------------------------
RepTypeOK ==
  /\ day \in 0 .. MaxDay /\ events \in 0 .. MaxEvents
  /\ sold \in [Good -> [Branch -> [0 .. MaxDay -> Nat]]]
  /\ stock \in [Good -> [Branch -> Nat]]
  /\ last \in [Good -> [Branch -> {Never} \cup (0 .. day)]]
  /\ minimum \in [Good -> Minima]
  /\ override \in [Good -> [Branch -> Minima \cup {NoOverride}]]
  /\ report.low \subseteq Good /\ steady \subseteq Good /\ once \subseteq Good
  /\ always \subseteq Good \X (Branch \cup {Whole})

(* The list of products under their minimum, though it is read in several  *)
(* statements while others sell and enter stock: a product that belongs on *)
(* it all the while is on it, and one that is on it belonged there at some *)
(* time - unless its minimum was changed meanwhile (alerts.ts:20).         *)
ListIsRight ==
  ListMade => /\ Products(always) \cap steady \subseteq Listed
          /\ Listed \cap steady \subseteq once

(* The curve: the products of class A make at least 80 % of the whole, and *)
(* not without the least of them; those of A and B 95 % (dashboard.ts:93). *)
Reaches(value, S, percent) ==
  /\ ~Share(SumFunctionOnSet(value, S), percent, Total(value))
  /\ \E g \in S : Share(SumFunctionOnSet(value, S \ {g}), percent, Total(value))
ClassesReach ==
  \A metric \in {"revenue", "quantity"}, view \in Branch \cup {Whole}, from \in 0 .. day :
    LET value == Measure(metric, view, from .. day)
    IN Total(value) > 0 =>
         \A c \in Curves(value) :
           LET InClass(K) == {c[i] : i \in {j \in DOMAIN c : Class(value, c, j) \in K}}
           IN Reaches(value, InClass({"A"}), 80) /\ Reaches(value, InClass({"A", "B"}), 95)

(* A product that is shown as stalled was not sold in that time, whatever  *)
(* day its sales were dated, and is stalled in every store.                *)
StalledIsUnsold ==
  \A g \in Good, view \in Branch \cup {Whole} :
    IsStalled(g, view) =>
      /\ SoldIn(g, view, {d \in 0 .. MaxDay : d >= day - StalledDays}) = 0
      /\ view = Whole => \A b \in Branch : IsStalled(g, b)

(* What the cards of the dashboard say of the same stock and the same      *)
(* sales: the three above together.                                        *)
ReportsAgree == ListIsRight /\ ClassesReach /\ StalledIsUnsold
================================================================================

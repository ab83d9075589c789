------------------------------- MODULE WebProofs -------------------------------
(***************************************************************************)
(* Proofs about what the web interface holds and shows: the item of a sale *)
(* or an exit (LotPicker), the forms of the pages (Screens), the lists     *)
(* that are paged by cursor (Paging) and the cards of the dashboard        *)
(* (Reports), for any products, stores, pages, drafts, rows and days.      *)
(* The parts share no state.                                               *)
(***************************************************************************)
EXTENDS LotPicker, Screens, Paging, Reports, Sums, SequenceTheorems, TLAPS

--------------------------------------------------------------------------------
(* The item of a sale or an exit.                                          *)

Choice == [product : Perishable \cup {NotSet}, store : Shop \cup {NotSet},
         quantity : 1 .. MaxQuantity, lot : Batch \cup {NoBatch}]
States == {"none", "loading", "shown"}

(* What is suggested is of the product and the store that are selected:    *)
(* every change of the item takes the old suggestion away.                 *)
SuggestionOfItem ==
  /\ suggestion.at = "loading" => item.product # NotSet /\ item.store # NotSet
  /\ \A k \in 1 .. Len(suggestion.lots) :
       suggestion.lots[k].of = item.product /\ suggestion.lots[k].at = item.store

LotInv ==
  /\ place \in {"sale", "exit"} /\ item \in Choice
  /\ overridden \in BOOLEAN /\ moved \in BOOLEAN
  /\ suggestion \in [at : States, lots : Seq(Batch)]
  /\ left \in [Batch -> Nat]
  /\ SuggestionOfItem
  /\ LotOfItem

(* Any change of the item starts from no suggestion.                       *)
LEMMA QueryIsEmpty ==
  ASSUME NEW i \in Choice, item' = i, suggestion' = Query(i)
  PROVE  /\ suggestion' \in [at : States, lots : Seq(Batch)]
         /\ SuggestionOfItem'
<1>1. Query(i) \in [at : States, lots : Seq(Batch)] /\ Query(i).lots = <<>>
  BY DEF Query, States
<1>2. Query(i).at = "loading" => i.product # NotSet /\ i.store # NotSet
  BY DEF Query
<1> QED
  BY <1>1, <1>2 DEF SuggestionOfItem

LEMMA NoBatchIsNone ==
  NoBatch \notin Batch
BY LotAssumption DEF NoBatch, Batch

(* The suggestion names lots of the item alone.                            *)
LEMMA LotsOfItem ==
  ASSUME NEW i \in Choice, i.product # NotSet, i.store # NotSet,
         left \in [Batch -> Nat], NEW n \in Nat
  PROVE  /\ Covering(Lots(i), n) \in Seq(Batch)
         /\ \A k \in 1 .. Len(Covering(Lots(i), n)) :
              /\ Covering(Lots(i), n)[k].of = i.product
              /\ Covering(Lots(i), n)[k].at = i.store
<1> DEFINE Its == {b \in Batch : b.of = i.product /\ b.at = i.store}
<1>1. \A due \in {1, 2} : LotOf(i, due) \in Its
  BY DEF LotOf, Batch, Choice
<1>2. ASSUME NEW lots \in Seq(Its), NEW b \in Its
      PROVE  IfLeft(lots, b) \in Seq(Its)
  BY <1>2 DEF IfLeft
<1> HIDE DEF Its
<1>3. <<>> \in Seq(Its)
  OBVIOUS
<1>4. Lots(i) \in Seq(Its)
  BY <1>1, <1>2, <1>3 DEF Lots
<1>5. ASSUME NEW lots \in Seq(Its)
      PROVE  Covering(lots, n) \in Seq(Its)
  BY <1>5 DEF Covering
<1>6. Covering(Lots(i), n) \in Seq(Its)
  BY <1>4, <1>5
<1> DEFINE c == Covering(Lots(i), n)
<1>7. \A k \in 1 .. Len(c) : c[k] \in Its
  BY <1>6, ElementOfSeq
<1>8. c \in Seq(Batch)
  BY <1>6, SeqMonotonic DEF Its
<1> QED
  BY <1>7, <1>8 DEF Its

LEMMA LotInitial ==
  LotInit => LotInv
<1> SUFFICES ASSUME LotInit PROVE LotInv
  OBVIOUS
<1>1. item \in Choice
  BY LotAssumption DEF LotInit, Choice
<1>2. suggestion \in [at : States, lots : Seq(Batch)] /\ SuggestionOfItem
  BY DEF LotInit, Query, States, SuggestionOfItem
<1> QED
  BY <1>1, <1>2 DEF LotInit, LotInv, LotOfItem

LEMMA InRange ==
  ASSUME NEW S, NEW s \in Seq(S), NEW x \in Range(s)
  PROVE  \E k \in 1 .. Len(s) : x = s[k]
<1>1. DOMAIN s = 1 .. Len(s)
  OBVIOUS
<1> QED
  BY <1>1 DEF Range

LEMMA LotStep ==
  LotInv /\ [LotNext]_lotVars => LotInv'
<1> SUFFICES ASSUME LotInv, [LotNext]_lotVars PROVE LotInv'
  OBVIOUS
<1> USE DEF LotInv
<1>1. ASSUME NEW p \in Perishable, SelectProduct(p) PROVE LotInv'
  <2> DEFINE i == WithProduct(item, p)
  <2>1. i \in Choice
    BY DEF WithProduct, Choice
  <2>2. i.lot = NoBatch
    BY DEF WithProduct, Choice
  <2> HIDE DEF i
  <2>3. item' = i /\ suggestion' = Query(i) /\ overridden' = FALSE /\ moved' = FALSE
          /\ UNCHANGED <<place, left>>
    BY <1>1 DEF SelectProduct, Becomes, i
  <2> QED
    BY <2>1, <2>2, <2>3, QueryIsEmpty DEF LotOfItem
<1>2. CASE ClearProduct
  <2> DEFINE i == [item EXCEPT !.product = NotSet,
                               !.lot = IF place = "sale" THEN NoBatch ELSE @]
  <2>1. i \in Choice /\ i.product = NotSet
    BY DEF Choice
  <2> HIDE DEF i
  <2>2. item' = i /\ suggestion' = Query(i) /\ UNCHANGED <<place, overridden, left, moved>>
    BY <1>2 DEF ClearProduct, Becomes, i
  <2> QED
    BY <2>1, <2>2, QueryIsEmpty DEF LotOfItem
<1>3. ASSUME NEW s \in Shop, SelectStore(s) PROVE LotInv'
  <2> DEFINE i == [item EXCEPT !.store = s]
  <2>1. i \in Choice /\ i.product = item.product /\ i.lot = item.lot
    BY DEF Choice
  <2> HIDE DEF i
  <2>2. item' = i /\ suggestion' = Query(i) /\ moved' = (moved \/ item.lot # NoBatch)
          /\ UNCHANGED <<place, overridden, left>>
    BY <1>3 DEF SelectStore, Becomes, i
  <2>3. LotOfItem'
    BY <2>1, <2>2 DEF LotOfItem
  <2>4. moved' \in BOOLEAN
    BY <2>2
  <2> QED
    BY <2>1, <2>2, <2>3, <2>4, QueryIsEmpty
<1>4. ASSUME NEW n \in 1 .. MaxQuantity, SetQuantity(n) PROVE LotInv'
  <2> DEFINE i == [item EXCEPT !.quantity = n]
  <2>1. i \in Choice /\ i.product = item.product /\ i.store = item.store /\ i.lot = item.lot
    BY DEF Choice
  <2> HIDE DEF i
  <2>2. item' = i /\ suggestion' = Query(i) /\ UNCHANGED <<place, overridden, left, moved>>
    BY <1>4 DEF SetQuantity, Becomes, i
  <2> QED
    BY <2>1, <2>2, QueryIsEmpty DEF LotOfItem
<1>5. ASSUME NEW b \in Batch, TakeUnit(b) PROVE LotInv'
  <2>1. left' \in [Batch -> Nat]
    BY <1>5 DEF TakeUnit
  <2> QED
    BY <1>5, <2>1 DEF TakeUnit, SuggestionOfItem, LotOfItem
<1>6. CASE Suggest
  <2> DEFINE c == Covering(Lots(item), item.quantity)
  <2>1. item.product # NotSet /\ item.store # NotSet /\ item.quantity \in Nat
    BY <1>6, LotAssumption DEF Suggest, SuggestionOfItem, Choice
  <2>2. c \in Seq(Batch) /\ \A k \in 1 .. Len(c) : c[k].of = item.product /\ c[k].at = item.store
    BY <2>1, LotsOfItem
  <2> HIDE DEF c
  <2>3. suggestion' = [at |-> "shown", lots |-> c] /\ UNCHANGED <<place, item, overridden, left, moved>>
    BY <1>6 DEF Suggest, c
  <2> QED
    BY <2>2, <2>3 DEF SuggestionOfItem, LotOfItem, States
<1>7. CASE Accept
  <2>1. /\ suggestion.lots[1] \in Batch
        /\ suggestion.lots[1].of = item.product /\ suggestion.lots[1].at = item.store
    <3>1. suggestion.lots \in Seq(Batch) /\ suggestion.lots # <<>>
      BY <1>7 DEF Accept, Suggested
    <3>2. 1 \in 1 .. Len(suggestion.lots)
      BY <3>1
    <3>3. suggestion.lots[1] \in Batch
      BY <3>1, <3>2, ElementOfSeq
    <3> QED
      BY <3>2, <3>3 DEF SuggestionOfItem
  <2>2. item' \in Choice /\ item'.product = item.product /\ item'.store = item.store
          /\ item'.lot = suggestion.lots[1]
    BY <1>7, <2>1 DEF Accept, Choice
  <2> QED
    BY <1>7, <2>1, <2>2 DEF Accept, SuggestionOfItem, LotOfItem
<1>8. CASE Override
  BY <1>8 DEF Override, SuggestionOfItem, LotOfItem
<1>9. CASE ChooseLot
  <2>1. PICK b \in Range(suggestion.lots) : item' = [item EXCEPT !.lot = b]
    BY <1>9 DEF ChooseLot
  <2>2. b \in Batch /\ b.of = item.product /\ b.at = item.store
    <3>1. suggestion.lots \in Seq(Batch)
      OBVIOUS
    <3>2. PICK k \in 1 .. Len(suggestion.lots) : b = suggestion.lots[k]
      BY <3>1, InRange
    <3> QED
      BY <3>1, <3>2 DEF SuggestionOfItem
  <2>3. item' \in Choice /\ item'.product = item.product /\ item'.store = item.store
          /\ item'.lot = b
    BY <2>1, <2>2 DEF Choice
  <2> QED
    BY <1>9, <2>2, <2>3 DEF ChooseLot, SuggestionOfItem, LotOfItem
<1>10. CASE UNCHANGED lotVars
  BY <1>10 DEF lotVars, SuggestionOfItem, LotOfItem
<1> QED
  BY <1>1, <1>2, <1>3, <1>4, <1>5, <1>6, <1>7, <1>8, <1>9, <1>10 DEF LotNext

(* The strengthening: besides their types, what the query suggests are     *)
(* lots of the product and store that it was asked for (stock/fefo.ts).    *)
THEOREM LotInvariant == LotSpec => []LotInv
BY LotInitial, LotStep, PTL DEF LotSpec

LEMMA LotInvType ==
  LotInv => LotTypeOK
<1> SUFFICES ASSUME LotInv PROVE LotTypeOK
  OBVIOUS
<1>1. Range(suggestion.lots) \subseteq Batch
  BY DEF LotInv, Range
<1> QED
  BY <1>1 DEF LotInv, LotTypeOK, Choice, States

(* The item, the suggestion and the lots always are what their names say.  *)
THEOREM LotTypeCorrect == LotSpec => []LotTypeOK
BY LotInvariant, LotInvType, PTL

(* Whatever is selected, cleared, suggested, overridden and sold by others *)
(* meanwhile, the lot that is sent with an item is one of its product, and *)
(* of its store unless the store was changed afterwards: the forms of      *)
(* sales and exits (vendas/nova/page.tsx, saida/page.tsx) drop the lot     *)
(* wherever the product may change.                                        *)
THEOREM LotFollowsItem == LotSpec => []LotOfItem
<1>1. LotInv => LotOfItem
  BY DEF LotInv
<1> QED
  BY <1>1, LotInvariant, PTL

--------------------------------------------------------------------------------
(* The pages.  What the proofs need of the forms there are.                *)
Forms ==
  {NewSale, UploadNfe, AcceptInvite, SignUp, BulkCreate, QuickCreate, RetryPix, SwitchPlan,
   NewStore, Invite, Resend, ChangeRole, SavePin, UnlockArea, LockArea, NewCategory, NewSupplier,
   NewCustomer, EditProduct, RemoveProduct, PrintLabels, NewTenant}
WellFormed(f) ==
  /\ f.steps \in 1 .. 2 /\ f.shut \in BOOLEAN /\ f.leaves \in BOOLEAN /\ f.reopens \in BOOLEAN
  /\ f.waits \in BOOLEAN /\ f.starts \subseteq 1 .. f.steps
  /\ f.refreshes = <<>> \/ (\E a : f.refreshes = <<a>>) \/ (\E a, b : f.refreshes = <<a, b>>)
  /\ f.leaves => f.refreshes = <<>>
  /\ ~f.waits => Len(f.refreshes) < 2

LEMMA FormsWellFormed ==
  ASSUME NEW f \in Forms
  PROVE  WellFormed(f)
<1> USE DEF WellFormed, Form, Leaving, Refreshing
<1>1. WellFormed(NewSale) /\ WellFormed(UploadNfe) /\ WellFormed(AcceptInvite)
  BY DEF NewSale, UploadNfe, AcceptInvite
<1>2. WellFormed(SignUp) /\ WellFormed(Resend) /\ WellFormed(PrintLabels) /\ WellFormed(RemoveProduct)
  BY DEF SignUp, Resend, PrintLabels, RemoveProduct
<1>3. WellFormed(BulkCreate) /\ WellFormed(QuickCreate) /\ WellFormed(RetryPix) /\ WellFormed(SwitchPlan)
  BY DEF BulkCreate, QuickCreate, RetryPix, SwitchPlan
<1>4. WellFormed(NewStore) /\ WellFormed(Invite) /\ WellFormed(ChangeRole) /\ WellFormed(NewCategory)
  BY DEF NewStore, Invite, ChangeRole, NewCategory
<1>5. WellFormed(NewSupplier) /\ WellFormed(NewCustomer) /\ WellFormed(EditProduct)
  BY DEF NewSupplier, NewCustomer, EditProduct
<1>6. WellFormed(SavePin) /\ WellFormed(UnlockArea) /\ WellFormed(LockArea)
  BY DEF SavePin, UnlockArea, LockArea, FinanceLists
<1>7. WellFormed(NewTenant)
  BY DEF NewTenant, OfTenant
<1> HIDE DEF WellFormed, Form, Leaving, Refreshing
<1> QED
  BY <1>1, <1>2, <1>3, <1>4, <1>5, <1>6, <1>7 DEF Forms

LEMMA PageForms ==
  ASSUME NEW p \in Pages, NEW f \in DOMAIN p.forms
  PROVE  p.forms[f] \in Forms
<1> USE DEF Page, Forms
<1>1. CASE p = LoginPage
  BY <1>1 DEF LoginPage, LogIn, NewSale
<1>2. CASE p = PlatformLoginPage
  BY <1>2 DEF PlatformLoginPage, LogInPlatform, NewSale
<1>3. CASE p = InvitePage
  BY <1>3 DEF InvitePage
<1>4. CASE p = SignUpPage
  BY <1>4 DEF SignUpPage, FirstCheckout, NewSale
<1>5. CASE p = SalePage
  BY <1>5 DEF SalePage
<1>6. CASE p = EntryPage
  BY <1>6 DEF EntryPage, ManualEntry, NewSale
<1>7. CASE p = ExitPage
  BY <1>7 DEF ExitPage, StockExit, NewSale
<1>8. CASE p = TransferPage
  BY <1>8 DEF TransferPage, Transfer, NewSale
<1>9. CASE p = UploadPage
  BY <1>9 DEF UploadPage
<1>10. CASE p = ReviewPage
  BY <1>10 DEF ReviewPage, ConfirmNfe, NewSale
<1>11. CASE p = NewProductPage
  BY <1>11 DEF NewProductPage, NewProduct, NewSale
<1>12. CASE p = ProductPage
  BY <1>12 DEF ProductPage
<1>13. CASE p = ProductsPage
  BY <1>13 DEF ProductsPage
<1>14. CASE p = CsvPage
  BY <1>14 DEF CsvPage, ImportCsv, PrintLabels
<1>15. CASE p = CategoriesPage
  BY <1>15 DEF CategoriesPage
<1>16. CASE p = SuppliersPage
  BY <1>16 DEF SuppliersPage
<1>17. CASE p = CustomersPage
  BY <1>17 DEF CustomersPage
<1>18. CASE p = StoresPage
  BY <1>18 DEF StoresPage
<1>19. CASE p = UsersPage
  BY <1>19 DEF UsersPage
<1>20. CASE p = SecurityPage
  BY <1>20 DEF SecurityPage, RemovePin, SavePin
<1>21. CASE p = FinancePage
  BY <1>21 DEF FinancePage
<1>22. CASE p = TenantsPage
  BY <1>22 DEF TenantsPage, TrialAction, AccessAction, TenantAction, NewTenant
<1>23. CASE p = SubscriptionPage
  BY <1>23 DEF SubscriptionPage
<1> QED
  BY <1>1, <1>2, <1>3, <1>4, <1>5, <1>6, <1>7, <1>8, <1>9, <1>10, <1>11, <1>12,
     <1>13, <1>14, <1>15, <1>16, <1>17, <1>18, <1>19, <1>20, <1>21, <1>22, <1>23 DEF Pages

Ats == {"sent", "done", "failed", "lost", "refreshing", "over", "kept"}
FormNames == UNION {DOMAIN p.forms : p \in Pages}
Call == [form : FormNames, draft : Nat, step : 1 .. 2, at : Ats, write : Nat]

(* A call c on page p when the forms hold d and the server has carried out *)
(* v writes: nothing is written before the last call is carried out, and a *)
(* form that has been cleared holds something newer.                       *)
GoodCall(p, d, v, c) ==
  /\ c.form \in DOMAIN p.forms
  /\ c.draft >= 1 /\ c.draft <= d[c.form] /\ c.write <= v
  /\ c.at \in {"sent", "failed"} => c.write = 0
  /\ c.at = "done" /\ c.step # p.forms[c.form].steps => c.write = 0
  /\ c.at \in {"sent", "done"} => c.step <= p.forms[c.form].steps
  /\ c.at = "refreshing" => c.step <= Len(p.forms[c.form].refreshes)
  /\ c.at \in {"refreshing", "over"} /\ ~p.forms[c.form].leaves => c.draft < d[c.form]
  /\ c.at = "over" /\ p.forms[c.form].leaves => p.forms[c.form].reopens

CallsInv ==
  /\ page \in Pages /\ view \in {"here", "leaving", "gone"}
  /\ draft \in [DOMAIN page.forms -> Nat \ {0}]
  /\ calls \in Seq(Call) /\ Len(calls) <= MaxSubmits + MaxOnTwo
  /\ \A i \in DOMAIN calls : GoodCall(page, draft, version, calls[i])

Fetches == [at : {"idle", "asked", "read"}, of : Nat]
ListsInv ==
  /\ version \in Nat /\ ripe \in 0 .. version
  /\ seen \in [page.lists -> Int] /\ fetch \in [page.lists -> Fetches]
  /\ \A l \in page.lists : seen[l] >= Unseen /\ seen[l] <= version /\ fetch[l].of <= version
  /\ invalid \subseteq page.lists /\ joined \subseteq page.lists
  /\ troubles \in 0 .. MaxTroubles

(* Whoever submits a form again that has been shut meanwhile finds         *)
(* something else in it, or the first call came to nothing.                *)
SoleDraft ==
  \A i, j \in DOMAIN calls :
    i < j /\ Once(calls[i].form) /\ calls[i].form = calls[j].form
      /\ calls[i].draft = calls[j].draft
    => calls[i].at \in {"failed", "lost"}

(* The lists that the handler of a call has invalidated so far, and what   *)
(* is on the page or on its way there.                                     *)
Told(c, l) ==
  /\ c.at \in {"refreshing", "over"}
  /\ \E k \in DOMAIN page.forms[c.form].refreshes :
       l \in page.forms[c.form].refreshes[k] /\ (c.at = "refreshing" => k <= c.step)
Covers(w, l) ==
  \/ l \in joined
  \/ /\ fetch[l].at = "read" => fetch[l].of >= w
     /\ seen[l] >= w \/ l \in invalid
WritesCovered ==
  \A i \in DOMAIN calls : \A l \in page.lists :
    Told(calls[i], l) => Covers(calls[i].write, l)

ScrInv == CallsInv /\ ListsInv /\ SoleDraft /\ WritesCovered

LEMMA FormFacts ==
  ASSUME page \in Pages, NEW f \in DOMAIN page.forms
  PROVE  WellFormed(page.forms[f])
BY PageForms, FormsWellFormed

LEMMA ScrInitial ==
  ScrInit => ScrInv
<1> SUFFICES ASSUME ScrInit PROVE ScrInv
  OBVIOUS
<1>1. CallsInv
  <2>1. calls = <<>> /\ calls \in Seq(Call) /\ Len(calls) = 0 /\ DOMAIN calls = {}
    BY DEF ScrInit
  <2>2. page \in Pages /\ view \in {"here", "leaving", "gone"} /\ draft \in [DOMAIN page.forms -> Nat \ {0}]
    BY DEF ScrInit
  <2> QED
    BY <2>1, <2>2, ScrAssumption DEF CallsInv
<1>2. ListsInv
  <2>1. Asked \in Fetches /\ Asked.of = 0
    BY DEF Asked, Fetches
  <2> QED
    BY <2>1, ScrAssumption DEF ListsInv, ScrInit, Unseen
<1>3. SoleDraft /\ WritesCovered
  <2>1. DOMAIN calls = {}
    BY DEF ScrInit
  <2> QED
    BY <2>1 DEF SoleDraft, WritesCovered
<1> QED
  BY <1>1, <1>2, <1>3 DEF ScrInv

(* One call goes on, and the rest is as it was.                            *)
LEMMA CallGoesOn ==
  ASSUME CallsInv, version \in Nat, NEW i \in DOMAIN calls, NEW c \in Call,
         calls' = [calls EXCEPT ![i] = c],
         UNCHANGED page, view' \in {"here", "leaving", "gone"},
         draft' \in [DOMAIN page.forms -> Nat \ {0}], \A f \in DOMAIN page.forms : draft'[f] >= draft[f],
         version' \in Nat, version' >= version,
         GoodCall(page, draft', version', c)
  PROVE  CallsInv' /\ DOMAIN calls' = DOMAIN calls
<1>0. /\ calls \in Seq(Call) /\ i \in 1 .. Len(calls) /\ DOMAIN calls = 1 .. Len(calls)
      /\ draft \in [DOMAIN page.forms -> Nat \ {0}]
      /\ \A j \in DOMAIN calls : GoodCall(page, draft, version, calls[j])
  BY DEF CallsInv
<1>1. /\ calls' \in Seq(Call) /\ Len(calls') = Len(calls) /\ DOMAIN calls' = DOMAIN calls
      /\ calls'[i] = c /\ \A j \in DOMAIN calls \ {i} : calls'[j] = calls[j]
  <2>2. /\ calls' \in Seq(Call) /\ Len(calls') = Len(calls)
        /\ \A j \in 1 .. Len(calls) : calls'[j] = IF j = i THEN c ELSE calls[j]
    BY <1>0, ExceptSeq
  <2> QED
    BY <1>0, <2>2
<1>2. ASSUME NEW j \in DOMAIN calls PROVE GoodCall(page, draft', version', calls'[j])
  <2>1. CASE j = i
    BY <1>1, <2>1
  <2>2. CASE j # i
    <3>1. GoodCall(page, draft, version, calls[j]) /\ calls[j] \in Call /\ calls'[j] = calls[j]
      <4>1. calls'[j] = calls[j] /\ j \in 1 .. Len(calls)
        BY <1>0, <1>1, <2>2
      <4>2. calls[j] \in Call
        BY <1>0, <4>1, ElementOfSeq
      <4> QED
        BY <1>0, <4>1, <4>2
    <3>2. PICK k : k = calls[j]
      OBVIOUS
    <3>3. k.form \in DOMAIN page.forms /\ k.draft \in Nat /\ k.write \in Nat
      BY <3>1, <3>2 DEF GoodCall, Call
    <3>4. k.draft <= draft[k.form] /\ k.write <= version
      BY <3>1, <3>2 DEF GoodCall
    <3>5. PICK a \in Nat, b \in Nat : a = draft[k.form] /\ b = draft'[k.form] /\ b >= a
      BY <1>0, <3>3
    <3>6. k.draft <= b /\ k.write <= version' /\ (k.draft < a => k.draft < b)
      BY <3>3, <3>4, <3>5
    <3>7. GoodCall(page, draft', version', k)
      BY <3>1, <3>2, <3>5, <3>6 DEF GoodCall
    <3> QED
      BY <3>1, <3>2, <3>7
  <2> QED
    BY <2>1, <2>2
<1> QED
  BY <1>0, <1>1, <1>2 DEF CallsInv

(* The calls rest.                                                         *)
LEMMA CallsRest ==
  ASSUME CallsInv, SoleDraft, UNCHANGED <<page, draft, calls>>, view' \in {"here", "leaving", "gone"},
         version \in Nat, version' \in Nat, version' >= version
  PROVE  CallsInv' /\ SoleDraft'
<1>1. ASSUME NEW j \in DOMAIN calls PROVE GoodCall(page, draft, version', calls[j])
  <2>1. GoodCall(page, draft, version, calls[j]) /\ calls[j] \in Call
    <3>1. calls \in Seq(Call) /\ j \in 1 .. Len(calls)
      BY DEF CallsInv
    <3>2. calls[j] \in Call
      BY <3>1, ElementOfSeq
    <3> QED
      BY <3>2 DEF CallsInv
  <2>2. PICK k : k = calls[j]
    OBVIOUS
  <2>3. k.write \in Nat /\ k.write <= version
    BY <2>1, <2>2 DEF GoodCall, Call
  <2>4. k.write <= version'
    BY <2>3
  <2>5. GoodCall(page, draft, version', k)
    BY <2>1, <2>2, <2>4 DEF GoodCall
  <2> QED
    BY <2>2, <2>5
<1>2. CallsInv'
  BY <1>1 DEF CallsInv
<1>3. SoleDraft'
  BY DEF SoleDraft, Once
<1> QED
  BY <1>2, <1>3

(* What a call has written stays covered whatever happens to the lists.    *)
LEMMA StaysCovered ==
  ASSUME ListsInv, NEW l \in page.lists, NEW w \in Nat, w <= version, Covers(w, l),
         \/ UNCHANGED lists
         \/ \E m \in List : ReadList(m) \/ ShowList(m) \/ ListFails(m) \/ Poll(m)
         \/ \E ls : Invalidate(ls)
  PROVE  Covers(w, l)'
<1>0. /\ version \in Nat /\ seen \in [page.lists -> Int] /\ fetch \in [page.lists -> Fetches]
      /\ joined \subseteq page.lists
  BY DEF ListsInv
<1>1. CASE UNCHANGED lists
  BY <1>1 DEF Covers, lists
<1>2. ASSUME NEW m \in List, ReadList(m) PROVE Covers(w, l)'
  <2>1. UNCHANGED <<seen, invalid, joined>>
        /\ fetch' = [fetch EXCEPT ![m] = [at |-> "read", of |-> version]]
    BY <1>2 DEF ReadList
  <2>2. CASE l = m
    <3>1. fetch'[l].of = version
      BY <1>0, <2>1, <2>2
    <3> QED
      BY <2>1, <3>1 DEF Covers
  <2>3. CASE l # m
    <3>1. fetch'[l] = fetch[l]
      BY <2>1, <2>3
    <3> QED
      BY <2>1, <3>1 DEF Covers
  <2> QED
    BY <2>2, <2>3
<1>3. ASSUME NEW m \in List, ShowList(m) PROVE Covers(w, l)'
  <2>1. /\ joined' = joined /\ invalid' = invalid \ {m} /\ fetch[m].at = "read"
        /\ seen' = [seen EXCEPT ![m] = fetch[m].of]
        /\ fetch' = [fetch EXCEPT ![m] = NoFetch]
    BY <1>3 DEF ShowList
  <2>2. CASE l = m
    <3>1. fetch'[l].at = "idle" /\ seen'[l] = fetch[l].of
      BY <1>0, <2>1, <2>2 DEF NoFetch
    <3> QED
      BY <2>1, <2>2, <3>1 DEF Covers
  <2>3. CASE l # m
    <3>1. fetch'[l] = fetch[l] /\ seen'[l] = seen[l]
      BY <2>1, <2>3
    <3> QED
      BY <2>1, <2>3, <3>1 DEF Covers
  <2> QED
    BY <2>2, <2>3
<1>4. ASSUME NEW m \in List, ListFails(m) \/ Poll(m) PROVE Covers(w, l)'
  <2>1. UNCHANGED <<seen, invalid, joined>>
        /\ \E x \in {Asked, NoFetch} : fetch' = [fetch EXCEPT ![m] = x]
    BY <1>4 DEF ListFails, Poll
  <2>2. fetch'[l] = fetch[l] \/ fetch'[l] \in {Asked, NoFetch}
    BY <1>0, <2>1
  <2> QED
    BY <2>1, <2>2 DEF Covers, Asked, NoFetch
<1>5. ASSUME NEW ls, Invalidate(ls) PROVE Covers(w, l)'
  <2>1. seen' = seen /\ invalid \subseteq invalid' /\ joined \subseteq joined'
    BY <1>5 DEF Invalidate
  <2>2. fetch'[l] = fetch[l] \/ fetch'[l] = Asked
    BY <1>5 DEF Invalidate, ReadAgain
  <2> QED
    BY <2>1, <2>2 DEF Covers, Asked
<1> QED
  BY <1>1, <1>2, <1>3, <1>4, <1>5

(* Reading again covers everything that has been written by then.          *)
LEMMA ReadAgainCovers ==
  ASSUME NEW ls, Invalidate(ls), NEW l \in ls \cap page.lists, NEW w
  PROVE  Covers(w, l)'
<1>1. CASE First(l)
  BY <1>1 DEF Invalidate, Covers
<1>2. CASE ~First(l)
  <2>1. fetch'[l] = Asked /\ l \in invalid'
    BY <1>2 DEF Invalidate, ReadAgain
  <2> QED
    BY <2>1 DEF Covers, Asked
<1> QED
  BY <1>1, <1>2

(* The types of the lists.                                                 *)
LEMMA InvalidateType ==
  ASSUME ListsInv, NEW ls, Invalidate(ls), UNCHANGED <<page, version, ripe, troubles>>
  PROVE  ListsInv'
<1>1. Asked \in Fetches /\ Asked.of = 0
  BY DEF Asked, Fetches
<1>2. seen' = seen /\ invalid' \subseteq page.lists /\ joined' \subseteq page.lists
  BY DEF Invalidate, ListsInv
<1>3. fetch' \in [page.lists -> Fetches]
      /\ \A l \in page.lists : fetch'[l] = fetch[l] \/ fetch'[l] = Asked
  BY <1>1 DEF Invalidate, ReadAgain, ListsInv
<1> QED
  BY <1>1, <1>2, <1>3 DEF ListsInv

LEMMA ListsType ==
  ASSUME ListsInv, NEW m \in List, ReadList(m) \/ ShowList(m) \/ ListFails(m) \/ Poll(m)
  PROVE  ListsInv'
<1>0. /\ version \in Nat /\ seen \in [page.lists -> Int] /\ fetch \in [page.lists -> Fetches]
      /\ troubles \in Nat
  BY DEF ListsInv
<1>1. NoFetch \in Fetches /\ Asked \in Fetches /\ [at |-> "read", of |-> version] \in Fetches
      /\ NoFetch.of = 0 /\ Asked.of = 0
  BY <1>0 DEF NoFetch, Asked, Fetches
<1>2. ASSUME NEW x \in Fetches, x.of <= version, UNCHANGED <<page, version, ripe, seen, invalid, joined>>,
             troubles' \in 0 .. MaxTroubles, fetch' = [fetch EXCEPT ![m] = x]
      PROVE  ListsInv'
  <2>1. fetch' \in [page.lists -> Fetches] /\ \A l \in page.lists : fetch'[l].of <= version
    BY <1>0, <1>2 DEF ListsInv
  <2> QED
    BY <1>2, <2>1 DEF ListsInv
<1>3. CASE ReadList(m)
  <2>1. UNCHANGED <<page, version, ripe, seen, invalid, joined, troubles>>
        /\ fetch' = [fetch EXCEPT ![m] = [at |-> "read", of |-> version]]
    BY <1>3 DEF ReadList
  <2>2. [at |-> "read", of |-> version].of <= version
    BY <1>0
  <2> QED
    BY <1>1, <1>2, <2>1, <2>2 DEF ListsInv
<1>4. CASE ListFails(m)
  <2>1. troubles' \in 0 .. MaxTroubles
    BY <1>0, <1>4, ScrAssumption DEF ListFails
  <2>2. UNCHANGED <<page, version, ripe, seen, invalid, joined>>
        /\ fetch' = [fetch EXCEPT ![m] = NoFetch]
    BY <1>4 DEF ListFails
  <2>3. NoFetch.of <= version
    BY <1>0, <1>1
  <2> QED
    BY <1>1, <1>2, <2>1, <2>2, <2>3
<1>5. CASE Poll(m)
  <2>1. troubles' \in 0 .. MaxTroubles
    BY <1>5 DEF Poll, ListsInv
  <2>2. UNCHANGED <<page, version, ripe, seen, invalid, joined>>
        /\ fetch' = [fetch EXCEPT ![m] = Asked]
    BY <1>5 DEF Poll
  <2>3. Asked.of <= version
    BY <1>0, <1>1
  <2> QED
    BY <1>1, <1>2, <2>1, <2>2, <2>3
<1>6. CASE ShowList(m)
  <2>1. /\ UNCHANGED <<page, version, ripe, joined, troubles>> /\ invalid' \subseteq invalid
        /\ seen' = [seen EXCEPT ![m] = fetch[m].of]
        /\ fetch' = [fetch EXCEPT ![m] = NoFetch] /\ m \in page.lists
    BY <1>6 DEF ShowList
  <2>2. fetch[m].of \in Nat /\ fetch[m].of <= version
    BY <1>0, <2>1 DEF ListsInv, Fetches
  <2>3. seen' \in [page.lists -> Int] /\ fetch' \in [page.lists -> Fetches]
    BY <1>0, <1>1, <2>1, <2>2
  <2>4. ASSUME NEW l \in page.lists
        PROVE  seen'[l] >= Unseen /\ seen'[l] <= version /\ fetch'[l].of <= version
    BY <1>0, <1>1, <2>1, <2>2 DEF ListsInv, Unseen
  <2> QED
    BY <2>1, <2>3, <2>4 DEF ListsInv
<1> QED
  BY <1>3, <1>4, <1>5, <1>6

LEMMA CallFacts ==
  ASSUME CallsInv, NEW i \in DOMAIN calls
  PROVE  /\ calls[i] \in Call /\ GoodCall(page, draft, version, calls[i])
         /\ WellFormed(FormOf(i)) /\ FormOf(i) = page.forms[calls[i].form]
         /\ calls \in Seq(Call) /\ i \in 1 .. Len(calls) /\ DOMAIN calls = 1 .. Len(calls)
<1>1. calls \in Seq(Call) /\ i \in 1 .. Len(calls) /\ DOMAIN calls = 1 .. Len(calls)
  BY DEF CallsInv
<1>2. calls[i] \in Call
  BY <1>1, ElementOfSeq
<1>3. GoodCall(page, draft, version, calls[i]) /\ page \in Pages
  BY DEF CallsInv
<1>4. calls[i].form \in DOMAIN page.forms
  BY <1>3 DEF GoodCall
<1>5. WellFormed(page.forms[calls[i].form])
  BY <1>3, <1>4, FormFacts
<1> QED
  BY <1>1, <1>2, <1>3, <1>5 DEF FormOf

(* Lists are read and shown, and the page is left.                         *)
LEMMA PageStep ==
  ASSUME ScrInv,
         \/ \E m \in List : ReadList(m) \/ ShowList(m) \/ ListFails(m) \/ Poll(m)
         \/ Ripen \/ Navigate
  PROVE  ScrInv'
<1> USE DEF ScrInv
<1>1. /\ UNCHANGED <<page, draft, calls>> /\ version \in Nat /\ version' \in Nat
      /\ version' >= version /\ view' \in {"here", "leaving", "gone"}
  <2>1. version \in Nat /\ view \in {"here", "leaving", "gone"}
    BY DEF CallsInv, ListsInv
  <2>2. CASE \E m \in List : ReadList(m) \/ ShowList(m) \/ ListFails(m) \/ Poll(m)
    <3>1. UNCHANGED <<page, draft, calls, version, view>>
      BY <2>2 DEF ReadList, ShowList, ListFails, Poll
    <3> QED
      BY <2>1, <3>1
  <2>3. CASE Ripen
    BY <2>1, <2>3 DEF Ripen
  <2>4. CASE Navigate
    BY <2>1, <2>4 DEF Navigate
  <2> QED
    BY <2>2, <2>3, <2>4
<1>2. CallsInv' /\ SoleDraft'
  BY <1>1, CallsRest
<1>3. ListsInv'
  <2>1. CASE Ripen
    <3>1. version' = version + 1 /\ ripe' = version' /\ UNCHANGED <<page, lists, troubles>>
      BY <2>1 DEF Ripen
    <3>2. version' \in Nat /\ ripe' \in 0 .. version' /\ UNCHANGED <<seen, fetch, invalid, joined>>
      BY <1>1, <3>1 DEF lists
    <3>3. \A l \in page.lists : seen[l] <= version' /\ fetch[l].of <= version'
      BY <1>1, <3>1 DEF ListsInv, Fetches
    <3> QED
      BY <3>1, <3>2, <3>3 DEF ListsInv
  <2>2. CASE Navigate
    BY <2>2 DEF Navigate, ListsInv, lists
  <2> QED
    BY <2>1, <2>2, ListsType
<1>4. ASSUME NEW i \in DOMAIN calls, NEW l \in page.lists, Told(calls[i], l)
      PROVE  Covers(calls[i].write, l)'
  <2>1. calls[i].write \in Nat /\ calls[i].write <= version
    BY CallFacts DEF GoodCall, Call
  <2>2. PICK w \in Nat : w = calls[i].write /\ w <= version
    BY <2>1
  <2>3. Covers(w, l)
    BY <1>4, <2>2 DEF WritesCovered
  <2>4. \/ UNCHANGED lists
        \/ \E m \in List : ReadList(m) \/ ShowList(m) \/ ListFails(m) \/ Poll(m)
    BY DEF Ripen, Navigate
  <2>5. Covers(w, l)'
    BY <2>2, <2>3, <2>4, StaysCovered
  <2> QED
    BY <1>1, <2>2, <2>5
<1>5. WritesCovered'
  BY <1>1, <1>4 DEF WritesCovered, Told
<1> QED
  BY <1>2, <1>3, <1>5

(* One call goes on; c is what becomes of it.                              *)
LEMMA OneCall ==
  ASSUME ScrInv, NEW i \in DOMAIN calls, NEW c \in Call, calls' = [calls EXCEPT ![i] = c],
         UNCHANGED page, view' \in {"here", "leaving", "gone"},
         draft' \in [DOMAIN page.forms -> Nat \ {0}], \A f \in DOMAIN page.forms : draft'[f] >= draft[f],
         version' \in Nat, version' >= version, GoodCall(page, draft', version', c),
         c.form = calls[i].form, c.draft = calls[i].draft, calls[i].at \notin {"failed", "lost"},
         ListsInv', UNCHANGED lists \/ \E ls : Invalidate(ls),
         \A l \in page.lists :
           Told(c, l) => (Told(calls[i], l) /\ c.write = calls[i].write) \/ Covers(c.write, l)'
  PROVE  ScrInv'
<1>1. CallsInv /\ ListsInv /\ SoleDraft /\ WritesCovered /\ version \in Nat
  BY DEF ScrInv, ListsInv
<1>2. CallsInv' /\ DOMAIN calls' = DOMAIN calls
  BY <1>1, CallGoesOn
<1>3. calls'[i] = c /\ \A j \in DOMAIN calls \ {i} : calls'[j] = calls[j]
  BY <1>1 DEF CallsInv
<1>4. SoleDraft'
  <2> SUFFICES ASSUME NEW j \in DOMAIN calls, NEW k \in DOMAIN calls, j < k,
                      Once(calls[j].form)', calls'[j].form = calls'[k].form,
                      calls'[j].draft = calls'[k].draft
               PROVE  calls'[j].at \in {"failed", "lost"}
    BY <1>2 DEF SoleDraft
  <2>1. Once(calls[j].form) /\ calls[j].form = calls[k].form /\ calls[j].draft = calls[k].draft
    BY <1>3 DEF Once
  <2>2. calls[j].at \in {"failed", "lost"}
    BY <1>1, <2>1 DEF SoleDraft
  <2> QED
    BY <1>3, <2>2
<1>5. ASSUME NEW j \in DOMAIN calls, NEW l \in page.lists, Told(calls'[j], l)
      PROVE  Covers(calls[j].write, l)'
  <2>1. calls[j].write \in Nat /\ calls[j].write <= version
    BY <1>1, CallFacts DEF GoodCall, Call
  <2>2. PICK w \in Nat : w = calls[j].write /\ w <= version
    BY <2>1
  <2>3. Covers(w, l) => Covers(w, l)'
    BY <1>1, <2>2, StaysCovered
  <2>4. Told(calls[j], l) => Covers(w, l)
    BY <1>1, <2>2 DEF WritesCovered
  <2>5. CASE j = i
    <3>1. (Told(calls[j], l) /\ c.write = w) \/ Covers(c.write, l)'
      BY <1>3, <1>5, <2>2, <2>5
    <3> QED
      BY <1>3, <2>3, <2>4, <2>5, <3>1
  <2>6. CASE j # i
    <3>1. calls'[j] = calls[j]
      BY <1>3, <2>6
    <3> QED
      BY <1>5, <2>2, <2>3, <2>4, <3>1
  <2> QED
    BY <2>5, <2>6
<1>6. WritesCovered'
  BY <1>2, <1>5 DEF WritesCovered, Told
<1> QED
  BY <1>2, <1>4, <1>6 DEF ScrInv

(* A form is submitted: none that is shut is under way.                    *)
LEMMA SubmitStep ==
  ASSUME ScrInv, NEW f \in DOMAIN page.forms, Submit(f)
  PROVE  ScrInv'
<1>s. PICK s \in page.forms[f].starts :
        calls' = Append(calls, [form |-> f, draft |-> draft[f], step |-> s, at |-> "sent",
                                write |-> 0])
  BY DEF Submit
<1> DEFINE c == [form |-> f, draft |-> draft[f], step |-> s, at |-> "sent", write |-> 0]
<1>1. /\ CallsInv /\ ListsInv /\ SoleDraft /\ WritesCovered /\ calls' = Append(calls, c)
      /\ UNCHANGED <<page, view, draft, version, ripe, seen, fetch, invalid, joined, troubles>>
      /\ Len(calls) < IF Cardinality(page.lists) > 1 THEN MaxOnTwo ELSE MaxSubmits
      /\ CanSubmit(f)
  BY <1>s DEF Submit, lists, ScrInv
<1>2. /\ calls \in Seq(Call) /\ DOMAIN calls = 1 .. Len(calls) /\ Len(calls) \in Nat
      /\ draft \in [DOMAIN page.forms -> Nat \ {0}] /\ page \in Pages /\ version \in Nat
  <2>1. calls \in Seq(Call) /\ draft \in [DOMAIN page.forms -> Nat \ {0}] /\ page \in Pages
    BY <1>1 DEF CallsInv
  <2>2. version \in Nat
    BY <1>1 DEF ListsInv
  <2> QED
    BY <2>1, <2>2
<1>3. f \in FormNames /\ WellFormed(page.forms[f]) /\ draft[f] \in Nat \ {0}
  BY <1>2, FormFacts DEF FormNames
<1>r. s \in 1 .. page.forms[f].steps /\ page.forms[f].steps \in 1 .. 2
  BY <1>3, <1>s DEF WellFormed
<1>4. c \in Call
  BY <1>3, <1>r DEF Call, Ats
<1>5. GoodCall(page, draft, version, c)
  BY <1>2, <1>3, <1>r DEF GoodCall, WellFormed
<1>6. c.form = f /\ c.draft = draft[f] /\ c.at = "sent"
  OBVIOUS
<1> HIDE DEF c
<1>7. /\ calls' \in Seq(Call) /\ Len(calls') = Len(calls) + 1 /\ DOMAIN calls' = 1 .. Len(calls) + 1
      /\ \A j \in DOMAIN calls : calls'[j] = calls[j]
      /\ calls'[Len(calls) + 1] = c
  BY <1>1, <1>2, <1>4
<1>8. CallsInv'
  <2>1. Len(calls') <= MaxSubmits + MaxOnTwo
    <3>1. MaxSubmits \in Nat /\ MaxOnTwo \in Nat
      BY ScrAssumption
    <3>2. Len(calls) < MaxOnTwo \/ Len(calls) < MaxSubmits
      BY <1>1
    <3>3. Len(calls') = Len(calls) + 1 /\ Len(calls) \in Nat
      BY <1>2, <1>7
    <3> QED
      BY <3>1, <3>2, <3>3
  <2>2. \A j \in DOMAIN calls' : j \in DOMAIN calls \/ j = Len(calls) + 1
    BY <1>2, <1>7
  <2>3. \A j \in DOMAIN calls' : GoodCall(page, draft, version, calls'[j])
    BY <1>1, <1>5, <1>7, <2>2 DEF CallsInv
  <2> QED
    BY <1>1, <1>2, <1>7, <2>1, <2>3 DEF CallsInv
<1>9. SoleDraft'
  <2> SUFFICES ASSUME NEW i \in DOMAIN calls', NEW j \in DOMAIN calls', i < j,
                      Once(calls[i].form)', calls'[i].form = calls'[j].form,
                      calls'[i].draft = calls'[j].draft
               PROVE  calls'[i].at \in {"failed", "lost"}
    BY DEF SoleDraft
  <2>1. i \in DOMAIN calls /\ calls'[i] = calls[i] /\ Once(calls[i].form)
    <3>1. i \in 1 .. Len(calls) + 1 /\ j \in 1 .. Len(calls) + 1 /\ Len(calls) \in Nat
      BY <1>2, <1>7
    <3>2. i \in 1 .. Len(calls)
      BY <3>1
    <3>3. i \in DOMAIN calls /\ calls'[i] = calls[i]
      BY <1>2, <1>7, <3>2
    <3>4. page' = page
      BY <1>1
    <3> QED
      BY <3>3, <3>4 DEF Once
  <2>2. CASE j \in DOMAIN calls
    BY <1>1, <1>7, <2>1, <2>2 DEF SoleDraft
  <2>3. CASE j \notin DOMAIN calls
    <3>j. j = Len(calls) + 1
      BY <1>2, <1>7, <2>3
    <3>1. calls[i].form = f /\ calls[i].draft = draft[f]
      BY <1>6, <1>7, <2>1, <3>j
    <3>2. /\ calls[i] \in Call /\ GoodCall(page, draft, version, calls[i])
          /\ calls[i].at \in Ats
      BY <1>1, <2>1, CallFacts DEF Call
    <3>3. calls[i].at \notin {"sent", "done", "refreshing", "kept"}
      BY <1>1, <2>1, <3>1 DEF CanSubmit, InHand, Once
    <3>4. calls[i].at # "over"
      <4> SUFFICES ASSUME calls[i].at = "over" PROVE FALSE
        OBVIOUS
      <4>1. ~page.forms[f].leaves => draft[f] < draft[f]
        BY <3>1, <3>2 DEF GoodCall
      <4>2. page.forms[f].leaves => page.forms[f].reopens
        BY <3>1, <3>2 DEF GoodCall
      <4> QED
        BY <1>3, <2>1, <3>1, <4>1, <4>2 DEF Once
    <3> QED
      BY <2>1, <3>2, <3>3, <3>4 DEF Ats
  <2> QED
    BY <2>2, <2>3
<1>10. ListsInv'
  BY <1>1 DEF ListsInv
<1>11. WritesCovered'
  <2> SUFFICES ASSUME NEW i \in DOMAIN calls', NEW l \in page.lists, Told(calls'[i], l)
               PROVE  Covers(calls[i].write, l)'
    BY <1>1 DEF WritesCovered, Told
  <2>1. i \in DOMAIN calls /\ calls'[i] = calls[i]
    <3>1. i \in DOMAIN calls \/ i = Len(calls) + 1
      BY <1>2, <1>7
    <3> QED
      BY <1>6, <1>7, <3>1 DEF Told
  <2>2. Covers(calls[i].write, l)
    BY <1>1, <2>1 DEF WritesCovered
  <2> QED
    BY <1>1, <2>1, <2>2 DEF Covers
<1> QED
  BY <1>8, <1>9, <1>10, <1>11 DEF ScrInv

(* A call is carried out, refused, lost, or followed by the next.          *)
LEMMA ServerStep ==
  ASSUME ScrInv, NEW i \in DOMAIN calls, Serve(i) \/ Refuse(i) \/ LoseAnswer(i) \/ NextCall(i)
  PROVE  ScrInv'
<1>1. CallsInv /\ ListsInv /\ version \in Nat /\ draft \in [DOMAIN page.forms -> Nat \ {0}]
      /\ view \in {"here", "leaving", "gone"} /\ troubles \in 0 .. MaxTroubles /\ ripe \in 0 .. version
  BY DEF ScrInv, CallsInv, ListsInv
<1>2. /\ calls[i] \in Call /\ GoodCall(page, draft, version, calls[i])
      /\ WellFormed(FormOf(i)) /\ FormOf(i) = page.forms[calls[i].form]
      /\ calls \in Seq(Call) /\ i \in 1 .. Len(calls)
  BY <1>1, CallFacts
<1>3. /\ UNCHANGED <<page, view, draft, ripe>> /\ UNCHANGED lists
      /\ troubles' \in 0 .. MaxTroubles /\ version' \in {version, version + 1}
      /\ calls[i].at \in {"sent", "done"}
  BY <1>1, ScrAssumption DEF Serve, Refuse, LoseAnswer, NextCall
<1>4. ListsInv'
  <2>1. version' \in Nat /\ version' >= version /\ ripe' \in 0 .. version'
    BY <1>1, <1>3
  <2>2. UNCHANGED <<page, seen, fetch, invalid, joined>>
    BY <1>3 DEF lists
  <2>3. \A l \in page.lists : seen[l] >= Unseen /\ seen[l] <= version' /\ fetch[l].of <= version'
    BY <1>1, <2>1 DEF ListsInv, Fetches
  <2>4. /\ seen \in [page.lists -> Int] /\ fetch \in [page.lists -> Fetches]
        /\ invalid \subseteq page.lists /\ joined \subseteq page.lists
    BY <1>1 DEF ListsInv
  <2>5. troubles' \in 0 .. MaxTroubles
    BY <1>3
  <2> HIDE <1>1, <1>2, <1>3
  <2> QED
    BY <2>1, <2>2, <2>3, <2>4, <2>5 DEF ListsInv
<1>5. PICK k \in Call : k = calls[i]
  BY <1>2
<1>6. /\ k.form \in FormNames /\ k.draft \in Nat /\ k.step \in 1 .. 2 /\ k.write \in Nat
      /\ k.write <= version
  BY <1>2, <1>5 DEF Call, GoodCall
<1>7. PICK c \in Call :
        /\ calls' = [calls EXCEPT ![i] = c] /\ c.form = k.form /\ c.draft = k.draft
        /\ c.at \in {"sent", "done", "failed", "lost"} /\ c.write <= version'
        /\ c.at \in {"sent", "failed"} => c.write = 0
        /\ c.at \in {"sent", "done"} => c.step <= page.forms[k.form].steps
        /\ c.at = "done" /\ c.step # page.forms[k.form].steps => c.write = 0
  <2>1. CASE Serve(i)
    <3> DEFINE w == IF LastStep(i) THEN version' ELSE 0
               c == [k EXCEPT !.at = "done", !.write = w]
    <3>1. calls' = [calls EXCEPT ![i] = c]
      BY <1>5, <2>1 DEF Serve
    <3>2. w \in Nat /\ w <= version'
      BY <1>1, <1>3
    <3>3. k.step <= page.forms[k.form].steps
      BY <1>2, <1>5, <2>1 DEF GoodCall, Serve
    <3>5. k.step # page.forms[k.form].steps => w = 0
      BY <1>2, <1>5 DEF LastStep
    <3> HIDE DEF w
    <3>4. /\ c \in Call /\ c.form = k.form /\ c.draft = k.draft /\ c.step = k.step
          /\ c.at = "done" /\ c.write = w
      BY <3>2 DEF Call, Ats
    <3> HIDE DEF c
    <3> QED
      BY <3>1, <3>2, <3>3, <3>4, <3>5
  <2>2. CASE Refuse(i)
    <3> DEFINE c == [k EXCEPT !.at = "failed"]
    <3>1. calls' = [calls EXCEPT ![i] = c]
      BY <1>5, <2>2 DEF Refuse
    <3>2. k.write = 0
      BY <1>2, <1>5, <2>2 DEF Refuse, GoodCall
    <3>4. c \in Call /\ c.form = k.form /\ c.draft = k.draft /\ c.at = "failed" /\ c.write = 0
      BY <3>2 DEF Call, Ats
    <3>5. 0 <= version'
      BY <1>1, <1>3
    <3> HIDE DEF c
    <3> QED
      BY <3>1, <3>4, <3>5
  <2>3. CASE LoseAnswer(i)
    <3> DEFINE c == [k EXCEPT !.at = "lost"]
    <3>1. calls' = [calls EXCEPT ![i] = c]
      BY <1>5, <2>3 DEF LoseAnswer
    <3>4. c \in Call /\ c.form = k.form /\ c.draft = k.draft /\ c.at = "lost" /\ c.write = k.write
      BY DEF Call, Ats
    <3>5. k.write <= version'
      BY <1>1, <1>3, <1>6
    <3> HIDE DEF c
    <3> QED
      BY <3>1, <3>4, <3>5
  <2>4. CASE NextCall(i)
    <3> DEFINE c == [k EXCEPT !.at = "sent", !.step = @ + 1]
    <3>1. calls' = [calls EXCEPT ![i] = c]
      BY <1>5, <2>4 DEF NextCall
    <3>2. k.step # page.forms[k.form].steps /\ k.step <= page.forms[k.form].steps
          /\ page.forms[k.form].steps \in 1 .. 2
      BY <1>2, <1>5, <2>4 DEF NextCall, LastStep, GoodCall, WellFormed
    <3>3. k.step + 1 \in 1 .. 2 /\ k.step + 1 <= page.forms[k.form].steps
      BY <1>6, <3>2
    <3>4. /\ c \in Call /\ c.form = k.form /\ c.draft = k.draft /\ c.step = k.step + 1
          /\ c.at = "sent" /\ c.write = k.write
      BY <3>3 DEF Call, Ats
    <3>5. 0 <= version'
      BY <1>1, <1>3
    <3> HIDE DEF c
    <3>6. k.write = 0
      BY <1>2, <1>5, <2>4, <3>2 DEF NextCall, GoodCall
    <3> QED
      BY <3>1, <3>3, <3>4, <3>5, <3>6
  <2> QED
    BY <1>3, <2>1, <2>2, <2>3, <2>4
<1>9. GoodCall(page, draft', version', c)
  <2>1. c.form \in DOMAIN page.forms /\ c.draft >= 1 /\ c.draft <= draft[c.form]
    BY <1>2, <1>5, <1>7 DEF GoodCall
  <2> QED
    BY <1>3, <1>7, <2>1 DEF GoodCall
<1>10. ~\E l \in page.lists : Told(c, l)
  BY <1>7 DEF Told
<1>11. c.form = calls[i].form /\ c.draft = calls[i].draft /\ calls' = [calls EXCEPT ![i] = c]
  BY <1>5, <1>7
<1>12. \A f \in DOMAIN page.forms : draft'[f] >= draft[f]
  BY <1>1, <1>3
<1>13. /\ draft' \in [DOMAIN page.forms -> Nat \ {0}] /\ view' \in {"here", "leaving", "gone"}
       /\ version' \in Nat /\ version' >= version /\ UNCHANGED page /\ UNCHANGED lists
       /\ calls[i].at \notin {"failed", "lost"}
  BY <1>1, <1>3
<1> QED
  BY <1>4, <1>9, <1>10, <1>11, <1>12, <1>13, OneCall

(* The handler pushes another page.                                        *)
LEMMA PushStep ==
  ASSUME ScrInv, NEW i \in DOMAIN calls, Push(i)
  PROVE  ScrInv'
<1>1. CallsInv /\ ListsInv /\ version \in Nat /\ draft \in [DOMAIN page.forms -> Nat \ {0}]
      /\ view \in {"here", "leaving", "gone"}
  BY DEF ScrInv, CallsInv, ListsInv
<1>2. /\ calls[i] \in Call /\ GoodCall(page, draft, version, calls[i])
      /\ WellFormed(FormOf(i)) /\ FormOf(i) = page.forms[calls[i].form]
  BY <1>1, CallFacts
<1>3. /\ UNCHANGED <<page, draft, version, ripe, seen, fetch, invalid, joined, troubles>>
      /\ view' \in {"here", "leaving", "gone"}
      /\ calls[i].at = "done" /\ FormOf(i).leaves
  BY <1>1 DEF Push, Answered, lists
<1>4. PICK k \in Call : k = calls[i]
  BY <1>2
<1>5. PICK a \in {"over", "kept"} :
        calls' = [calls EXCEPT ![i].at = a] /\ (a = "over" => FormOf(i).reopens)
  BY DEF Push
<1>6. PICK c \in Call : c = [k EXCEPT !.at = a]
  BY <1>5 DEF Call, Ats
<1>7. c.form = k.form /\ c.draft = k.draft /\ c.write = k.write /\ c.at = a
  BY <1>6 DEF Call
<1>8. calls' = [calls EXCEPT ![i] = c]
  BY <1>4, <1>5, <1>6
<1>9. GoodCall(page, draft, version, c)
  <2>1. a \notin {"sent", "failed", "done", "refreshing"}
    BY <1>5
  <2> QED
    BY <1>2, <1>3, <1>4, <1>5, <1>7, <2>1 DEF GoodCall
<1>10. ListsInv' /\ UNCHANGED lists
  BY <1>1, <1>3 DEF ListsInv, lists
<1>11. FormOf(i).refreshes = <<>>
  BY <1>2, <1>3 DEF WellFormed
<1>12. ~\E l \in page.lists : Told(c, l)
  BY <1>2, <1>4, <1>7, <1>11 DEF Told
<1>13. /\ draft' \in [DOMAIN page.forms -> Nat \ {0}] /\ \A f \in DOMAIN page.forms : draft'[f] >= draft[f]
       /\ version' \in Nat /\ version' >= version /\ GoodCall(page, draft', version', c)
       /\ c.form = calls[i].form /\ c.draft = calls[i].draft /\ calls[i].at \notin {"failed", "lost"}
  BY <1>1, <1>3, <1>4, <1>7, <1>9
<1> QED
  BY <1>3, <1>8, <1>10, <1>12, <1>13, OneCall

(* The form is cleared and the first of its lists are read again.          *)
LEMMA ClearStep ==
  ASSUME ScrInv, NEW i \in DOMAIN calls, Clear(i)
  PROVE  ScrInv'
<1>1. CallsInv /\ ListsInv /\ version \in Nat /\ draft \in [DOMAIN page.forms -> Nat \ {0}]
      /\ view \in {"here", "leaving", "gone"}
  BY DEF ScrInv, CallsInv, ListsInv
<1>2. /\ calls[i] \in Call /\ GoodCall(page, draft, version, calls[i])
      /\ WellFormed(FormOf(i)) /\ FormOf(i) = page.forms[calls[i].form]
  BY <1>1, CallFacts
<1>3. PICK k \in Call : k = calls[i]
  BY <1>2
<1>4. k.form \in DOMAIN page.forms /\ k.draft \in Nat /\ k.write \in Nat /\ k.write <= version
      /\ k.draft <= draft[k.form]
  BY <1>2, <1>3 DEF GoodCall, Call
<1>5. /\ UNCHANGED <<page, view, version, ripe, troubles>>
      /\ draft' = [draft EXCEPT ![k.form] = @ + 1]
      /\ calls[i].at = "done" /\ ~FormOf(i).leaves
  BY <1>3 DEF Clear, Answered
<1>6. /\ draft' \in [DOMAIN page.forms -> Nat \ {0}]
      /\ \A f \in DOMAIN page.forms : draft'[f] >= draft[f]
      /\ k.draft < draft'[k.form]
  <2>1. draft'[k.form] = draft[k.form] + 1 /\ draft[k.form] \in Nat
    BY <1>1, <1>4, <1>5
  <2>2. draft' \in [DOMAIN page.forms -> Nat \ {0}]
    BY <1>1, <1>4, <1>5
  <2>3. ASSUME NEW f \in DOMAIN page.forms PROVE draft'[f] >= draft[f]
    BY <1>1, <1>4, <1>5
  <2>4. k.draft < draft'[k.form]
    BY <1>4, <2>1
  <2> QED
    BY <2>2, <2>3, <2>4
<1>7. ASSUME NEW c \in Call, c.form = k.form, c.draft = k.draft, c.write = k.write,
             c.at \in {"over", "refreshing"},
             c.at = "refreshing" => c.step <= Len(FormOf(i).refreshes)
      PROVE  GoodCall(page, draft', version', c)
  <2>1. c.draft >= 1 /\ c.draft <= draft'[c.form]
    BY <1>2, <1>3, <1>4, <1>6, <1>7 DEF GoodCall
  <2> QED
    BY <1>2, <1>3, <1>4, <1>5, <1>6, <1>7, <2>1 DEF GoodCall
<1>8. CASE FormOf(i).refreshes = <<>>
  <2>1. calls' = [calls EXCEPT ![i].at = "over"] /\ UNCHANGED lists
    BY <1>8 DEF Clear
  <2>2. PICK c \in Call : c = [k EXCEPT !.at = "over"]
    BY DEF Call, Ats
  <2>3. c.form = k.form /\ c.draft = k.draft /\ c.write = k.write /\ c.at = "over"
    BY <2>2 DEF Call
  <2>4. calls' = [calls EXCEPT ![i] = c]
    BY <1>3, <2>1, <2>2
  <2>5. ~\E l \in page.lists : Told(c, l)
    BY <1>2, <1>3, <1>8, <2>3 DEF Told
  <2>6. ListsInv'
    BY <1>1, <1>5, <2>1 DEF ListsInv, lists
  <2>7. GoodCall(page, draft', version', c)
    BY <1>7, <2>3
  <2>8. /\ version' \in Nat /\ version' >= version /\ UNCHANGED page /\ view' \in {"here", "leaving", "gone"}
        /\ c.form = calls[i].form /\ c.draft = calls[i].draft /\ calls[i].at \notin {"failed", "lost"}
    BY <1>1, <1>3, <1>5, <2>3
  <2> QED
    BY <1>6, <2>1, <2>4, <2>5, <2>6, <2>7, <2>8, OneCall
<1>9. CASE FormOf(i).refreshes # <<>>
  <2>1. PICK a \in {"refreshing", "over"} :
          /\ calls' = [calls EXCEPT ![i].at = a, ![i].step = 1]
          /\ a = "over" => ~FormOf(i).waits
    BY <1>2, <1>9 DEF Clear, WellFormed
  <2>2. Invalidate(FormOf(i).refreshes[1])
    BY <1>9 DEF Clear
  <2>3. PICK c \in Call : c = [k EXCEPT !.at = a, !.step = 1]
    <3>1. a \in Ats /\ 1 \in 1 .. 2
      BY <2>1 DEF Ats
    <3>2. [k EXCEPT !.at = a, !.step = 1] \in Call
      BY <3>1 DEF Call
    <3> QED
      BY <3>2
  <2>4. c.form = k.form /\ c.draft = k.draft /\ c.write = k.write /\ c.at = a /\ c.step = 1
    BY <2>3 DEF Call
  <2>5. calls' = [calls EXCEPT ![i] = c]
    BY <1>3, <2>1, <2>3
  <2>6. PICK r : r = FormOf(i).refreshes
    OBVIOUS
  <2>7. (\E x : r = <<x>>) \/ (\E x, y : r = <<x, y>>)
    BY <1>2, <1>9, <2>6 DEF WellFormed
  <2>8. Len(r) \in 1 .. 2 /\ DOMAIN r = 1 .. Len(r)
    BY <2>7
  <2>9. a = "over" => Len(r) < 2
    BY <1>2, <2>1, <2>6 DEF WellFormed
  <2>10. ASSUME NEW l \in page.lists, Told(c, l) PROVE Covers(c.write, l)'
    <3>1. PICK n \in DOMAIN r : l \in r[n] /\ (c.at = "refreshing" => n <= c.step)
      BY <1>2, <1>3, <2>4, <2>6, <2>10 DEF Told
    <3>2. n = 1
      BY <2>1, <2>4, <2>8, <2>9, <3>1
    <3>3. l \in FormOf(i).refreshes[1] \cap page.lists
      BY <2>6, <3>1, <3>2
    <3>4. PICK ls : ls = FormOf(i).refreshes[1]
      OBVIOUS
    <3>5. Invalidate(ls) /\ l \in ls \cap page.lists
      BY <2>2, <3>3, <3>4
    <3> QED
      BY <3>5, ReadAgainCovers
  <2>11. ListsInv'
    BY <1>1, <1>5, <2>2, InvalidateType
  <2>12. GoodCall(page, draft', version', c)
    <3>1. c.at \in {"over", "refreshing"} /\ c.step <= Len(FormOf(i).refreshes)
      <4>1. Len(FormOf(i).refreshes) = Len(r) /\ Len(r) \in 1 .. 2 /\ c.step = 1 /\ c.at = a
        BY <2>4, <2>6, <2>8
      <4>2. PICK n \in 1 .. 2 : n = Len(r)
        BY <4>1
      <4>3. 1 <= n
        OBVIOUS
      <4> QED
        BY <2>1, <4>1, <4>2, <4>3
    <3> QED
      BY <1>7, <2>4, <3>1
  <2>13. /\ version' \in Nat /\ version' >= version /\ UNCHANGED page /\ view' \in {"here", "leaving", "gone"}
         /\ c.form = calls[i].form /\ c.draft = calls[i].draft /\ calls[i].at \notin {"failed", "lost"}
    BY <1>1, <1>3, <1>5, <2>4
  <2> QED
    BY <1>6, <2>2, <2>5, <2>10, <2>11, <2>12, <2>13, OneCall
<1> QED
  BY <1>8, <1>9

(* What was to be read again has been read: the next lists, or the end.    *)
LEMMA RefreshedStep ==
  ASSUME ScrInv, NEW i \in DOMAIN calls, Refreshed(i)
  PROVE  ScrInv'
<1>1. CallsInv /\ ListsInv /\ version \in Nat /\ draft \in [DOMAIN page.forms -> Nat \ {0}]
      /\ view \in {"here", "leaving", "gone"}
  BY DEF ScrInv, CallsInv, ListsInv
<1>2. /\ calls[i] \in Call /\ GoodCall(page, draft, version, calls[i])
      /\ WellFormed(FormOf(i)) /\ FormOf(i) = page.forms[calls[i].form]
  BY <1>1, CallFacts
<1>3. PICK k \in Call : k = calls[i]
  BY <1>2
<1>4. UNCHANGED <<page, view, draft, version, ripe, troubles>> /\ calls[i].at = "refreshing"
  BY DEF Refreshed
<1>5. PICK r : r = FormOf(i).refreshes
  OBVIOUS
<1>6. k.step \in 1 .. 2 /\ k.step <= Len(r)
  BY <1>2, <1>3, <1>4, <1>5 DEF GoodCall, Call
<1>7. (\E x : r = <<x>>) \/ (\E x, y : r = <<x, y>>)
  <2>1. r = <<>> => Len(r) = 0
    OBVIOUS
  <2>2. r # <<>>
    BY <1>6, <2>1
  <2>3. r = <<>> \/ (\E x : r = <<x>>) \/ (\E x, y : r = <<x, y>>)
    BY <1>2, <1>5 DEF WellFormed
  <2> QED
    BY <2>2, <2>3
<1>8. Len(r) \in 1 .. 2 /\ DOMAIN r = 1 .. Len(r)
  BY <1>7
<1>9. ~FormOf(i).leaves
  <2>1. r # <<>>
    <3>1. Len(r) # 0
      BY <1>8
    <3>2. r = <<>> => Len(r) = 0
      OBVIOUS
    <3> QED
      BY <3>1, <3>2
  <2> QED
    BY <1>2, <1>5, <2>1 DEF WellFormed
<1>10. ASSUME NEW c \in Call, c.form = k.form, c.draft = k.draft, c.write = k.write,
              c.at \in {"over", "refreshing"}, c.at = "refreshing" => c.step <= Len(r)
       PROVE  GoodCall(page, draft', version', c)
  BY <1>2, <1>3, <1>4, <1>5, <1>9, <1>10 DEF GoodCall
<1>11. /\ version' \in Nat /\ version' >= version /\ UNCHANGED page /\ view' \in {"here", "leaving", "gone"}
       /\ draft' \in [DOMAIN page.forms -> Nat \ {0}] /\ \A f \in DOMAIN page.forms : draft'[f] >= draft[f]
       /\ calls[i].at \notin {"failed", "lost"}
  BY <1>1, <1>4
<1>12. CASE k.step = Len(r)
  <2>1. calls' = [calls EXCEPT ![i].at = "over"] /\ UNCHANGED lists
    BY <1>3, <1>5, <1>12 DEF Refreshed
  <2>2. PICK c \in Call : c = [k EXCEPT !.at = "over"]
    BY DEF Call, Ats
  <2>3. c.form = k.form /\ c.draft = k.draft /\ c.write = k.write /\ c.at = "over"
    BY <2>2 DEF Call
  <2>4. calls' = [calls EXCEPT ![i] = c]
    BY <1>3, <2>1, <2>2
  <2>5. ASSUME NEW l \in page.lists, Told(c, l) PROVE Told(calls[i], l)
    <3>1. PICK n \in DOMAIN r : l \in r[n]
      BY <1>2, <1>3, <1>5, <2>3, <2>5 DEF Told
    <3>2. n <= k.step
      BY <1>8, <1>12, <3>1
    <3> QED
      BY <1>2, <1>3, <1>4, <1>5, <3>1, <3>2 DEF Told
  <2>6. ListsInv'
    BY <1>1, <1>4, <2>1 DEF ListsInv, lists
  <2>7. GoodCall(page, draft', version', c)
    BY <1>10, <2>3
  <2>8. c.form = calls[i].form /\ c.draft = calls[i].draft /\ c.write = calls[i].write
    BY <1>3, <2>3
  <2> QED
    BY <1>11, <2>1, <2>4, <2>5, <2>6, <2>7, <2>8, OneCall
<1>13. CASE k.step # Len(r)
  <2>1. calls' = [calls EXCEPT ![i].step = @ + 1] /\ Invalidate(FormOf(i).refreshes[k.step + 1])
    BY <1>3, <1>5, <1>13 DEF Refreshed
  <2>2. k.step = 1 /\ Len(r) = 2
    <3>1. CASE Len(r) = 1
      BY <1>6, <1>13, <3>1
    <3>2. CASE Len(r) = 2
      BY <1>6, <1>13, <3>2
    <3> QED
      BY <1>8, <3>1, <3>2
  <2>3. PICK c \in Call : c = [k EXCEPT !.step = @ + 1]
    <3>1. k.step + 1 = 2 /\ 2 \in 1 .. 2
      BY <2>2
    <3>2. [k EXCEPT !.step = @ + 1] \in Call
      BY <3>1 DEF Call
    <3> QED
      BY <3>2
  <2>4. c.form = k.form /\ c.draft = k.draft /\ c.write = k.write /\ c.at = "refreshing" /\ c.step = 2
    BY <1>3, <1>4, <2>2, <2>3 DEF Call
  <2>5. calls' = [calls EXCEPT ![i] = c]
    BY <1>3, <2>1, <2>3
  <2>6. PICK ls : ls = r[2] /\ Invalidate(ls)
    BY <1>5, <2>1, <2>2
  <2>7. ASSUME NEW l \in page.lists, Told(c, l)
        PROVE  Told(calls[i], l) \/ Covers(c.write, l)'
    <3>1. PICK n \in DOMAIN r : l \in r[n]
      BY <1>2, <1>3, <1>5, <2>4, <2>7 DEF Told
    <3>2. n = 1 \/ n = 2
      BY <1>8, <2>2, <3>1
    <3>3. CASE n = 1
      <4>1. n <= k.step
        BY <2>2, <3>3
      <4> QED
        BY <1>2, <1>3, <1>4, <1>5, <3>1, <4>1 DEF Told
    <3>4. CASE n = 2
      <4>1. l \in ls \cap page.lists
        BY <2>6, <3>1, <3>4
      <4> QED
        BY <2>6, <4>1, ReadAgainCovers
    <3> QED
      BY <3>2, <3>3, <3>4
  <2>8. ListsInv'
    BY <1>1, <1>4, <2>6, InvalidateType
  <2>9. GoodCall(page, draft', version', c)
    BY <1>10, <2>2, <2>4
  <2>10. c.form = calls[i].form /\ c.draft = calls[i].draft /\ c.write = calls[i].write
    BY <1>3, <2>4
  <2> QED
    BY <1>11, <2>5, <2>6, <2>7, <2>8, <2>9, <2>10, OneCall
<1> QED
  BY <1>12, <1>13

LEMMA ScrStep ==
  ScrInv /\ [ScrNext]_scrVars => ScrInv'
<1> SUFFICES ASSUME ScrInv, [ScrNext]_scrVars PROVE ScrInv'
  OBVIOUS
<1>1. CASE UNCHANGED scrVars
  <2>1. UNCHANGED <<page, view, draft, calls, version, ripe, seen, fetch, invalid, joined, troubles>>
    BY <1>1 DEF scrVars
  <2>2. CallsInv' /\ ListsInv'
    BY <2>1 DEF ScrInv, CallsInv, ListsInv
  <2>3. SoleDraft' /\ WritesCovered'
    BY <2>1 DEF ScrInv, SoleDraft, Once, WritesCovered, Told, Covers
  <2> QED
    BY <2>2, <2>3 DEF ScrInv
<1>2. CASE ScrNext
  BY <1>2, PageStep, SubmitStep, ServerStep, PushStep, ClearStep, RefreshedStep DEF ScrNext
<1> QED
  BY <1>1, <1>2

LEMMA ScrInvariant == ScrSpec => []ScrInv
BY ScrInitial, ScrStep, PTL DEF ScrSpec

(* A form that is shut from the click to the end writes what it holds only *)
(* once, however often it is submitted, unless an answer was lost          *)
(* (components/ui/button.tsx).                                             *)
THEOREM DraftsWrittenOnce == ScrSpec => []WrittenOnce
<1>1. ScrInv => WrittenOnce
  <2> SUFFICES ASSUME ScrInv, NEW i \in DOMAIN calls, NEW j \in DOMAIN calls,
                      i < j, Once(calls[i].form), calls[i].at # "lost",
                      calls[i].form = calls[j].form, calls[i].draft = calls[j].draft
               PROVE  calls[i].write = 0
    BY DEF WrittenOnce
  <2>1. calls[i].at = "failed"
    BY DEF ScrInv, SoleDraft
  <2> QED
    BY <2>1, CallFacts DEF ScrInv, GoodCall
<1> QED
  BY <1>1, ScrInvariant, PTL

(* Who submits a form that reads its lists again sees the own write when   *)
(* everything has come back, in whatever order the answers came, unless    *)
(* reading failed or the list was being read for the first time            *)
(* (app/providers.tsx and the handlers of the pages).                      *)
THEOREM OwnWriteShows == ScrSpec => []ShowsOwnWrite
<1>1. ScrInv => ShowsOwnWrite
  <2> SUFFICES ASSUME ScrInv, NEW i \in DOMAIN calls, NEW l \in page.lists,
                      calls[i].at = "over", fetch[l] = NoFetch,
                      NEW k \in DOMAIN FormOf(i).refreshes, l \in FormOf(i).refreshes[k]
               PROVE  seen[l] >= calls[i].write \/ l \in invalid \cup joined
    BY DEF ShowsOwnWrite
  <2>1. Told(calls[i], l)
    BY DEF Told, FormOf
  <2>2. Covers(calls[i].write, l)
    BY <2>1 DEF ScrInv, WritesCovered
  <2> QED
    BY <2>2 DEF Covers
<1> QED
  BY <1>1, ScrInvariant, PTL

(* The forms, the calls and the lists of the page stay of their types.     *)
THEOREM ScrTypeCorrect == ScrSpec => []ScrTypeOK
<1>1. ScrInv => ScrTypeOK
  <2> SUFFICES ASSUME ScrInv PROVE ScrTypeOK
    OBVIOUS
  <2>1. CallsInv /\ ListsInv
    BY DEF ScrInv
  <2>2. draft \in [DOMAIN page.forms -> Nat \ {0}] /\ version \in Nat
    BY <2>1 DEF CallsInv, ListsInv
  <2>3. ASSUME NEW i \in DOMAIN calls
        PROVE  /\ calls[i].form \in DOMAIN page.forms /\ calls[i].draft \in 1 .. draft[calls[i].form]
               /\ calls[i].at \in Ats
               /\ calls[i].write \in 0 .. version /\ calls[i].step \in 1 .. 2
    <3>1. calls[i] \in Call /\ GoodCall(page, draft, version, calls[i])
      BY <2>1, CallFacts
    <3>2. calls[i].draft \in Nat /\ calls[i].write \in Nat /\ calls[i].step \in 1 .. 2 /\ calls[i].at \in Ats
      BY <3>1 DEF Call
    <3>3. calls[i].form \in DOMAIN page.forms /\ calls[i].draft >= 1
          /\ calls[i].draft <= draft[calls[i].form] /\ calls[i].write <= version
      BY <3>1 DEF GoodCall
    <3>4. PICK a \in Nat : a = draft[calls[i].form]
      BY <2>2, <3>3
    <3>5. calls[i].draft \in 1 .. a
      BY <3>2, <3>3, <3>4
    <3>6. calls[i].write \in 0 .. version
      BY <2>2, <3>2, <3>3
    <3> QED
      BY <3>2, <3>3, <3>4, <3>5, <3>6
  <2>4. seen \in [page.lists -> Unseen .. version]
    <3>1. ASSUME NEW l \in page.lists PROVE seen[l] \in Unseen .. version
      BY <2>1 DEF ListsInv, Unseen
    <3> QED
      BY <2>1, <3>1 DEF ListsInv
  <2>5. fetch \in [page.lists -> [at : {"idle", "asked", "read"}, of : 0 .. version]]
    <3>1. ASSUME NEW l \in page.lists PROVE fetch[l] \in [at : {"idle", "asked", "read"}, of : 0 .. version]
      <4>1. fetch[l] \in Fetches /\ fetch[l].of <= version
        BY <2>1 DEF ListsInv
      <4>2. fetch[l].of \in 0 .. version
        BY <2>2, <4>1 DEF Fetches
      <4> QED
        BY <4>1, <4>2 DEF Fetches
    <3> QED
      BY <2>1, <3>1 DEF ListsInv
  <2>6. DOMAIN draft = DOMAIN page.forms /\ \A f \in DOMAIN draft : draft[f] \in Nat
    BY <2>2
  <2> QED
    BY <2>1, <2>2, <2>3, <2>4, <2>5, <2>6 DEF ScrTypeOK, CallsInv, ListsInv, Ats
<1> QED
  BY <1>1, ScrInvariant, PTL

--------------------------------------------------------------------------------
(* The lists that are paged.                                               *)

(* A finite set of numbers has a least one.                                *)
LEMMA LeastOf ==
  ASSUME NEW S, IsFiniteSet(S), \A x \in S : x \in Int, S # {}
  PROVE  \E m \in S : \A x \in S : m <= x
<1> DEFINE T == {s \in SUBSET S : s # {} /\ ~\E m \in s : \A x \in s : m <= x}
<1> SUFFICES ASSUME T # {} PROVE FALSE
  OBVIOUS
<1>0. T \subseteq SUBSET S
  OBVIOUS
<1>1. PICK s \in T : \A u \in T : u \subseteq s => u = s
  <2> HIDE DEF T
  <2> QED
    BY <1>0, SmallestSubset
<1>2. PICK a : a \in s
  OBVIOUS
<1> DEFINE r == s \ {a}
<1>3. r \notin T /\ r \subseteq S /\ \A x \in s : x \in Int
  <2>1. r \subseteq s /\ r # s
    BY <1>2
  <2> HIDE DEF r, T
  <2> QED
    BY <1>0, <1>1, <2>1
<1>4. CASE r = {}
  <2>1. \A x \in s : x = a
    BY <1>4
  <2> QED
    BY <1>2, <1>3, <2>1
<1>5. CASE r # {}
  <2>1. PICK m \in r : \A x \in r : m <= x
    BY <1>3, <1>5
  <2>2. CASE a <= m
    <3>1. \A x \in s : a <= x
      BY <1>2, <1>3, <2>1, <2>2
    <3> QED
      BY <1>2, <3>1
  <2>3. CASE ~(a <= m)
    <3>1. \A x \in s : m <= x
      BY <1>2, <1>3, <2>1, <2>3
    <3> QED
      BY <2>1, <3>1
  <2> QED
    BY <2>2, <2>3
<1> QED
  BY <1>4, <1>5

(* The rows of a list can be put in order, the newest first.               *)
Descends(s) == \A i, j \in 1 .. Len(s) : i < j => s[i] > s[j]
Orders(s, S) ==
  /\ s \in [1 .. Cardinality(S) -> S] /\ Range(s) = S
  /\ \A i, j \in DOMAIN s : i < j => s[i] > s[j]

LEMMA OrderAppend ==
  ASSUME NEW S, IsFiniteSet(S), \A x \in S : x \in Int, NEW s, Orders(s, S),
         NEW m \in Int, m \notin S, \A x \in S : m < x
  PROVE  \E t : Orders(t, S \cup {m})
<1> DEFINE n == Cardinality(S)
           U == S \cup {m}
           t == [i \in 1 .. n + 1 |-> IF i <= n THEN s[i] ELSE m]
<1>1. n \in Nat /\ Cardinality(U) = n + 1
  BY FS_AddElement, FS_CardinalityType
<1>2. DOMAIN s = 1 .. n /\ \A i \in 1 .. n : s[i] \in S
  BY DEF Orders
<1>3. \A x \in S : \E i \in 1 .. n : s[i] = x
  BY <1>2 DEF Orders, Range
<1>4. \A i, j \in 1 .. n : i < j => s[i] > s[j]
  BY <1>2 DEF Orders
<1> HIDE DEF n
<1>5. DOMAIN t = 1 .. n + 1 /\ t[n + 1] = m /\ \A i \in 1 .. n : t[i] = s[i] /\ i \in 1 .. n + 1
  BY <1>1
<1>6. \A i \in 1 .. n + 1 : i \in 1 .. n \/ i = n + 1
  BY <1>1
<1>7. t \in [1 .. n + 1 -> U]
  BY <1>1, <1>2
<1> HIDE DEF t
<1>8. Range(t) = U
  <2>1. \A i \in DOMAIN t : t[i] \in U
    BY <1>5, <1>7
  <2>2. \A x \in U : \E i \in DOMAIN t : t[i] = x
    <3> SUFFICES ASSUME NEW x \in U PROVE \E i \in DOMAIN t : t[i] = x
      OBVIOUS
    <3>1. CASE x = m
      BY <1>1, <1>5, <3>1
    <3>2. CASE x \in S
      BY <1>3, <1>5, <3>2
    <3> QED
      BY <3>1, <3>2
  <2> QED
    BY <2>1, <2>2 DEF Range
<1>9. \A i, j \in 1 .. n + 1 : i < j => t[i] > t[j]
  <2> SUFFICES ASSUME NEW i \in 1 .. n + 1, NEW j \in 1 .. n + 1, i < j PROVE t[i] > t[j]
    OBVIOUS
  <2>1. i \in 1 .. n
    BY <1>1, <1>6
  <2>2. CASE j \in 1 .. n
    BY <1>4, <1>5, <2>1, <2>2
  <2>3. CASE j = n + 1
    <3>1. t[i] \in S /\ t[j] = m
      BY <1>2, <1>5, <2>1, <2>3
    <3> QED
      BY <3>1
  <2> QED
    BY <1>6, <2>2, <2>3
<1> QED
  BY <1>1, <1>5, <1>7, <1>8, <1>9 DEF Orders

LEMMA OrderExists ==
  ASSUME NEW S, IsFiniteSet(S), \A x \in S : x \in Int
  PROVE  \E s : Orders(s, S)
<1> DEFINE T == {u \in SUBSET S : ~\E s : Orders(s, u)}
<1> SUFFICES ASSUME T # {} PROVE FALSE
  OBVIOUS
<1>0. T \subseteq SUBSET S
  OBVIOUS
<1>1. PICK u \in T : \A v \in T : v \subseteq u => v = u
  <2> HIDE DEF T
  <2> QED
    BY <1>0, SmallestSubset
<1>2. IsFiniteSet(u) /\ \A x \in u : x \in Int
  BY <1>0, <1>1, FS_Subset
<1>3. CASE u = {}
  <2>1. Cardinality(u) = 0
    BY <1>3, FS_EmptySet
  <2>2. Orders(<<>>, u)
    BY <1>3, <2>1 DEF Orders, Range
  <2> QED
    BY <2>2
<1>4. CASE u # {}
  <2>1. PICK m \in u : \A x \in u : m <= x
    BY <1>2, <1>4, LeastOf
  <2> DEFINE v == u \ {m}
  <2>2. v \subseteq u /\ v # u /\ v \cup {m} = u /\ m \notin v /\ v \in SUBSET S
    BY <2>1
  <2>3. \A x \in v : m < x
    BY <1>2, <2>1
  <2>4. IsFiniteSet(v) /\ \A x \in v : x \in Int /\ m \in Int
    BY <1>2, <2>2, FS_Subset
  <2> HIDE DEF v
  <2>5. v \notin T
    <3> HIDE DEF T
    <3> QED
      BY <1>1, <2>2
  <2>6. PICK s : Orders(s, v)
    BY <2>2, <2>5
  <2>7. \E t : Orders(t, v \cup {m})
    BY <2>2, <2>3, <2>4, <2>6, OrderAppend
  <2> QED
    BY <2>2, <2>7
<1> QED
  BY <1>3, <1>4

Row == 1 .. MaxRow

LEMMA RowsFinite ==
  /\ MaxRow \in Nat /\ PageSize \in Nat /\ PageSize > 0
  /\ \A S \in SUBSET Row : IsFiniteSet(S) /\ \A x \in S : x \in Int
<1>1. MaxRow \in Nat /\ PageSize \in Nat /\ PageSize > 0
  BY PagAssumption DEF PagAssumption
<1>2. IsFiniteSet(Row)
  BY <1>1, FS_Interval DEF Row
<1>3. Row \subseteq Int
  BY <1>1 DEF Row
<1> QED
  BY <1>1, <1>2, <1>3, FS_Subset

LEMMA NewestIs ==
  ASSUME NEW S \in SUBSET Row
  PROVE  /\ NewestFirst(S) \in Seq(S) /\ Descends(NewestFirst(S))
         /\ \A i \in 1 .. Len(NewestFirst(S)) : NewestFirst(S)[i] \in S
         /\ \A x \in S : \E i \in 1 .. Len(NewestFirst(S)) : NewestFirst(S)[i] = x
<1> DEFINE s == NewestFirst(S)
<1>1. \E t : Orders(t, S)
  BY RowsFinite, OrderExists
<1>2. \E t \in [1 .. Cardinality(S) -> S] :
        Range(t) = S /\ \A i, j \in DOMAIN t : i < j => t[i] > t[j]
  BY <1>1 DEF Orders
<1>3. Orders(s, S)
  BY <1>2 DEF NewestFirst, Orders
<1> HIDE DEF s
<1>4. Cardinality(S) \in Nat
  BY RowsFinite, FS_CardinalityType
<1>5. s \in Seq(S) /\ Len(s) = Cardinality(S) /\ DOMAIN s = 1 .. Len(s)
  BY <1>3, <1>4 DEF Orders
<1>6. /\ Descends(s) /\ \A i \in 1 .. Len(s) : s[i] \in S
      /\ \A x \in S : \E i \in 1 .. Len(s) : s[i] = x
  BY <1>3, <1>5 DEF Orders, Range, Descends
<1> QED
  BY <1>5, <1>6 DEF s

PagType ==
  /\ list \in Lists /\ rows \in SUBSET Row /\ narrow \in SUBSET rows
  /\ filter \in used /\ used \subseteq {"wide", "narrow", "low"}
  /\ cursor \in 0 .. MaxRow /\ cursorHistory \in Seq(0 .. MaxRow)
  /\ sheet \in [at : {"loading", "shown"}, rows : Seq(Row), next : 0 .. MaxRow]
  /\ walked \in Seq(Row) /\ begun \in SUBSET Row
  /\ added \in 0 .. MaxNew /\ moves \in 0 .. MaxMoves /\ clicks \in 0 .. MaxClicks
  /\ sure \in BOOLEAN

(* What a query may select, from whatever cursor.                          *)
LEMMA SelectedRows ==
  ASSUME PagType
  PROVE  /\ Selected \in SUBSET Row /\ Wanted \in SUBSET Selected
         /\ narrow \in SUBSET Row
         /\ filter = "low" => Wanted = narrow
BY DEF PagType, Selected, Wanted

LEMMA UptoIs ==
  ASSUME NEW S, NEW s \in Seq(S), NEW n \in Nat
  PROVE  /\ Upto(n, s) \in Seq(S) /\ Len(Upto(n, s)) <= n
         /\ Len(Upto(n, s)) = IF Len(s) > n THEN n ELSE Len(s)
         /\ \A i \in 1 .. Len(Upto(n, s)) : Upto(n, s)[i] = s[i] /\ i \in 1 .. Len(s)
<1>1. CASE Len(s) > n
  <2>1. \A i \in 1 .. n : s[i] \in S
    BY <1>1
  <2>2. /\ SubSeq(s, 1, n) \in Seq(S) /\ Len(SubSeq(s, 1, n)) = n
        /\ \A i \in 1 .. n : SubSeq(s, 1, n)[i] = s[i]
    BY <1>1, <2>1
  <2> QED
    BY <1>1, <2>2 DEF Upto
<1>2. CASE ~(Len(s) > n)
  BY <1>2 DEF Upto
<1> QED
  BY <1>1, <1>2

LEMMA AfterType ==
  ASSUME PagType, NEW c \in 0 .. MaxRow
  PROVE  After(c) \in Seq(Row)
<1>1. CASE c = NoCursor
  <2>1. NewestFirst(Selected) \in Seq(Selected) /\ Selected \in SUBSET Row
    BY SelectedRows, NewestIs
  <2>2. NewestFirst(Selected) \in Seq(Row)
    BY <2>1, SeqMonotonic
  <2> QED
    BY <1>1, <2>2 DEF After
<1>2. CASE c # NoCursor
  <2> DEFINE T == {r \in Selected : r <= c}
             t == NewestFirst(T)
  <2>1. T \in SUBSET Row
    BY SelectedRows
  <2> HIDE DEF T
  <2>2. t \in Seq(T)
    BY <2>1, NewestIs
  <2>3. t \in Seq(Row)
    BY <2>1, <2>2, SeqMonotonic
  <2> HIDE DEF t
  <2>4. WithoutFirst(t) \in Seq(Row)
    BY <2>3 DEF WithoutFirst
  <2> QED
    BY <1>2, <2>4 DEF After, t, T
<1> QED
  BY <1>1, <1>2

(* From a cursor that is selected on, a query finds every row that is      *)
(* older, and no other: the first of those it skips is the cursor's.       *)
LEMMA AfterIs ==
  ASSUME PagType, NEW c \in 0 .. MaxRow, c = NoCursor \/ c \in Selected
  PROVE  /\ After(c) \in Seq(Row) /\ Descends(After(c))
         /\ \A i \in 1 .. Len(After(c)) : After(c)[i] \in Selected /\ (c # NoCursor => After(c)[i] < c)
         /\ \A r \in Selected : c = NoCursor \/ r < c => \E i \in 1 .. Len(After(c)) : After(c)[i] = r
<1>0. After(c) \in Seq(Row) /\ Selected \in SUBSET Row
  BY AfterType, SelectedRows
<1>1. CASE c = NoCursor
  <2>1. After(c) = NewestFirst(Selected)
    BY <1>1 DEF After
  <2> QED
    BY <1>0, <1>1, <2>1, NewestIs
<1>2. CASE c # NoCursor
  <2> DEFINE T == {r \in Selected : r <= c}
             t == NewestFirst(T)
  <2>1. T \in SUBSET Row /\ c \in T /\ \A r \in T : r \in Nat /\ r <= c /\ r \in Selected
    <3>1. \A r \in Row : r \in Nat
      BY RowsFinite DEF Row
    <3>2. c \in Selected /\ c \in Nat /\ c <= c
      BY <1>0, <1>2, <3>1
    <3> QED
      BY <1>0, <3>1, <3>2
  <2>2. \A r \in Selected : r <= c => r \in T
    OBVIOUS
  <2> HIDE DEF T
  <2>3. /\ t \in Seq(T) /\ Descends(t) /\ \A i \in 1 .. Len(t) : t[i] \in T
        /\ \A x \in T : \E i \in 1 .. Len(t) : t[i] = x
    BY <2>1, NewestIs
  <2> HIDE DEF t
  <2>4. PICK k \in 1 .. Len(t) : t[k] = c
    BY <2>1, <2>3
  <2>5. Len(t) \in Nat /\ 1 \in 1 .. Len(t) /\ t # <<>>
    BY <2>3, <2>4
  <2>6. t[1] = c
    <3> SUFFICES ASSUME k # 1 PROVE FALSE
      BY <2>4
    <3>1. 1 < k
      BY <2>4, <2>5
    <3>2. t[1] > t[k] /\ t[1] \in T
      BY <2>3, <2>5, <3>1 DEF Descends
    <3>3. t[1] > c /\ t[1] <= c /\ t[1] \in Nat /\ c \in Nat
      BY <2>1, <2>4, <3>2
    <3> QED
      BY <3>3
  <2>7. /\ After(c) = Tail(t) /\ Len(After(c)) = Len(t) - 1
        /\ \A i \in 1 .. Len(After(c)) : After(c)[i] = t[i + 1] /\ i + 1 \in 1 .. Len(t)
    <3>1. After(c) = Tail(t)
      BY <1>2, <2>5 DEF After, WithoutFirst, t, T
    <3>2. Len(Tail(t)) = Len(t) - 1 /\ \A i \in 1 .. Len(Tail(t)) : Tail(t)[i] = t[i + 1]
      BY <2>3, <2>5, HeadTailProperties
    <3>3. \A i \in 1 .. Len(t) - 1 : i + 1 \in 1 .. Len(t)
      BY <2>5
    <3> QED
      BY <3>1, <3>2, <3>3
  <2>8. Descends(After(c))
    <3> SUFFICES ASSUME NEW i \in 1 .. Len(After(c)), NEW j \in 1 .. Len(After(c)), i < j
                 PROVE  After(c)[i] > After(c)[j]
      BY DEF Descends
    <3>1. i + 1 \in 1 .. Len(t) /\ j + 1 \in 1 .. Len(t) /\ i + 1 < j + 1
      BY <2>7
    <3> QED
      BY <2>3, <2>7, <3>1 DEF Descends
  <2>9. ASSUME NEW i \in 1 .. Len(After(c))
        PROVE  After(c)[i] \in Selected /\ After(c)[i] < c
    <3>1. After(c)[i] = t[i + 1] /\ i + 1 \in 1 .. Len(t) /\ 1 < i + 1
      BY <2>7
    <3>2. t[1] > t[i + 1] /\ t[i + 1] \in T
      BY <2>3, <2>5, <3>1 DEF Descends
    <3> QED
      BY <2>1, <2>6, <3>1, <3>2
  <2>10. ASSUME NEW r \in Selected, r < c
         PROVE  \E i \in 1 .. Len(After(c)) : After(c)[i] = r
    <3>1. r \in T /\ r \in Nat /\ c \in Nat
      BY <1>0, <2>1, <2>2, <2>10 DEF Row
    <3>2. PICK i \in 1 .. Len(t) : t[i] = r
      BY <2>3, <3>1
    <3>3. i # 1
      BY <2>6, <2>10, <3>1, <3>2
    <3>4. i - 1 \in 1 .. Len(After(c)) /\ (i - 1) + 1 = i
      BY <2>5, <2>7, <3>3
    <3>5. After(c)[i - 1] = t[(i - 1) + 1]
      BY <2>7, <3>4
    <3> QED
      BY <3>2, <3>4, <3>5
  <2> QED
    BY <1>0, <1>2, <2>8, <2>9, <2>10
<1> QED
  BY <1>1, <1>2

(* The page that a query answers with, before the products above their     *)
(* minimum are left out, and the cursor of the next one.                   *)
PageFrom(c) == Upto(PageSize, Found(c))
NextFrom(c) == IF Len(Found(c)) > PageSize THEN Last(PageFrom(c)) ELSE NoCursor

(* A page is the first part of what is found, and all of it if it is the   *)
(* last one.                                                               *)
LEMMA PageParts ==
  ASSUME PagType, NEW c \in 0 .. MaxRow
  PROVE  /\ PageFrom(c) \in Seq(Row) /\ NextFrom(c) \in 0 .. MaxRow
         /\ \A i \in 1 .. Len(PageFrom(c)) : PageFrom(c)[i] = After(c)[i] /\ i \in 1 .. Len(After(c))
         /\ \/ NextFrom(c) = NoCursor /\ Len(PageFrom(c)) = Len(After(c))
            \/ /\ NextFrom(c) # NoCursor /\ Len(PageFrom(c)) \in 1 .. Len(After(c))
               /\ NextFrom(c) = After(c)[Len(PageFrom(c))]
<1> DEFINE a == After(c)
           f == Found(c)
           p == PageFrom(c)
<1>1. a \in Seq(Row) /\ PageSize \in Nat /\ PageSize > 0 /\ PageSize + 1 \in Nat /\ MaxRow \in Nat
  BY AfterType, RowsFinite
<1>2. /\ f \in Seq(Row) /\ Len(f) = (IF Len(a) > PageSize + 1 THEN PageSize + 1 ELSE Len(a))
      /\ \A i \in 1 .. Len(f) : f[i] = a[i] /\ i \in 1 .. Len(a)
  <2> HIDE DEF a
  <2>1. /\ Upto(PageSize + 1, a) \in Seq(Row)
        /\ Len(Upto(PageSize + 1, a)) = (IF Len(a) > PageSize + 1 THEN PageSize + 1 ELSE Len(a))
        /\ \A i \in 1 .. Len(Upto(PageSize + 1, a)) : Upto(PageSize + 1, a)[i] = a[i] /\ i \in 1 .. Len(a)
    BY <1>1, UptoIs
  <2> QED
    BY <2>1 DEF Found, a
<1> HIDE DEF f
<1>3. /\ p \in Seq(Row) /\ Len(p) = (IF Len(f) > PageSize THEN PageSize ELSE Len(f))
      /\ \A i \in 1 .. Len(p) : p[i] = f[i] /\ i \in 1 .. Len(f)
  <2>1. /\ Upto(PageSize, f) \in Seq(Row)
        /\ Len(Upto(PageSize, f)) = (IF Len(f) > PageSize THEN PageSize ELSE Len(f))
        /\ \A i \in 1 .. Len(Upto(PageSize, f)) : Upto(PageSize, f)[i] = f[i] /\ i \in 1 .. Len(f)
    BY <1>1, <1>2, UptoIs
  <2> QED
    BY <2>1 DEF PageFrom, f
<1> HIDE DEF a, p
<1>4. \A i \in 1 .. Len(p) : p[i] = a[i] /\ i \in 1 .. Len(a)
  BY <1>2, <1>3
<1>5. Len(a) \in Nat /\ Len(f) \in Nat /\ Len(p) \in Nat
  BY <1>1, <1>2, <1>3
<1>6. CASE Len(f) > PageSize
  <2>1. Len(p) = PageSize /\ Len(p) \in 1 .. Len(p)
    BY <1>1, <1>3, <1>5, <1>6
  <2>2. p[Len(p)] = a[Len(p)] /\ Len(p) \in 1 .. Len(a) /\ p[Len(p)] \in Row
    BY <1>3, <1>4, <2>1, ElementOfSeq
  <2>3. NextFrom(c) = p[Len(p)]
    BY <1>6 DEF NextFrom, Last, p, f
  <2>4. NextFrom(c) \in 0 .. MaxRow /\ NextFrom(c) # NoCursor
    BY <1>1, <2>2, <2>3 DEF Row, NoCursor
  <2> QED
    BY <1>3, <1>4, <2>2, <2>3, <2>4 DEF a, p
<1>7. CASE ~(Len(f) > PageSize)
  <2>1. Len(p) = Len(a)
    BY <1>1, <1>2, <1>3, <1>5, <1>7
  <2>2. NextFrom(c) = NoCursor /\ NoCursor \in 0 .. MaxRow
    BY <1>1, <1>7 DEF NextFrom, NoCursor, f
  <2> QED
    BY <1>3, <1>4, <2>1, <2>2 DEF a, p
<1> QED
  BY <1>6, <1>7

(* Of a page in order, the products under their minimum are left, in order.*)
LEMMA OnlyLowIs ==
  ASSUME PagType, NEW p \in Seq(Row)
  PROVE  /\ OnlyLow(p) \in Seq(Row)
         /\ Descends(p) => Descends(OnlyLow(p))
         /\ \A i \in 1 .. Len(OnlyLow(p)) : \E j \in 1 .. Len(p) : OnlyLow(p)[i] = p[j]
         /\ \A j \in 1 .. Len(p) :
              filter # "low" \/ p[j] \in narrow => \E i \in 1 .. Len(OnlyLow(p)) : OnlyLow(p)[i] = p[j]
<1>1. CASE filter # "low"
  <2>1. OnlyLow(p) = p
    BY <1>1 DEF OnlyLow
  <2> QED
    BY <2>1
<1>2. CASE filter = "low"
  <2> DEFINE S == Range(p) \cap narrow
             s == NewestFirst(S)
  <2>0. DOMAIN p = 1 .. Len(p) /\ \A j \in 1 .. Len(p) : p[j] \in Row
    OBVIOUS
  <2>1. S \in SUBSET Row
    BY <2>0 DEF Range
  <2>2. \A r \in S : \E j \in 1 .. Len(p) : p[j] = r
    BY <2>0 DEF Range
  <2>3. \A j \in 1 .. Len(p) : p[j] \in narrow => p[j] \in S
    BY <2>0 DEF Range
  <2>4. OnlyLow(p) = s
    BY <1>2 DEF OnlyLow
  <2> HIDE DEF S
  <2>5. /\ s \in Seq(S) /\ Descends(s) /\ \A i \in 1 .. Len(s) : s[i] \in S
        /\ \A x \in S : \E i \in 1 .. Len(s) : s[i] = x
    BY <2>1, NewestIs
  <2>6. s \in Seq(Row)
    BY <2>1, <2>5, SeqMonotonic
  <2> HIDE DEF s
  <2> QED
    BY <1>2, <2>2, <2>3, <2>4, <2>5, <2>6
<1> QED
  BY <1>1, <1>2

(* What a page shows that is read at a cursor which is selected.           *)
LEMMA PageIs ==
  ASSUME PagType, NEW c \in 0 .. MaxRow, c = NoCursor \/ c \in Selected,
         NEW s, s = OnlyLow(PageFrom(c)), NEW next, next = NextFrom(c)
  PROVE  /\ s \in Seq(Row) /\ next \in 0 .. MaxRow /\ Descends(s)
         /\ \A i \in 1 .. Len(s) : /\ c # NoCursor => s[i] < c
                                   /\ next # NoCursor => s[i] >= next
         /\ c # NoCursor /\ next # NoCursor => next < c
         /\ \A r \in Wanted : c = NoCursor \/ r < c =>
              \/ next # NoCursor /\ r < next
              \/ \E i \in 1 .. Len(s) : s[i] = r
<1> DEFINE p == PageFrom(c)
           a == After(c)
<1>1. /\ p \in Seq(Row) /\ next \in 0 .. MaxRow
      /\ \A i \in 1 .. Len(p) : p[i] = a[i] /\ i \in 1 .. Len(a)
      /\ \/ next = NoCursor /\ Len(p) = Len(a)
         \/ next # NoCursor /\ Len(p) \in 1 .. Len(a) /\ next = a[Len(p)]
  BY PageParts
<1>2. /\ a \in Seq(Row) /\ Descends(a)
      /\ \A i \in 1 .. Len(a) : a[i] \in Selected /\ (c # NoCursor => a[i] < c)
      /\ \A r \in Selected : c = NoCursor \/ r < c => \E i \in 1 .. Len(a) : a[i] = r
  BY AfterIs
<1>3. s = OnlyLow(p) /\ \A r \in Wanted : r \in Selected /\ (filter = "low" => r \in narrow)
  <2>1. Wanted \in SUBSET Selected /\ (filter = "low" => Wanted = narrow)
    BY SelectedRows
  <2>2. s = OnlyLow(p)
    OBVIOUS
  <2> HIDE DEF p, a
  <2> QED
    BY <2>1, <2>2
<1> HIDE DEF p, a
<1>4. Descends(p)
  BY <1>1, <1>2 DEF Descends
<1>5. /\ s \in Seq(Row) /\ Descends(s)
      /\ \A i \in 1 .. Len(s) : \E j \in 1 .. Len(p) : s[i] = p[j]
      /\ \A j \in 1 .. Len(p) : filter # "low" \/ p[j] \in narrow => \E i \in 1 .. Len(s) : s[i] = p[j]
  <2>1. p \in Seq(Row) /\ s = OnlyLow(p)
    BY <1>1, <1>3
  <2>2. /\ OnlyLow(p) \in Seq(Row) /\ (Descends(p) => Descends(OnlyLow(p)))
        /\ \A i \in 1 .. Len(OnlyLow(p)) : \E j \in 1 .. Len(p) : OnlyLow(p)[i] = p[j]
        /\ \A j \in 1 .. Len(p) :
             filter # "low" \/ p[j] \in narrow => \E i \in 1 .. Len(OnlyLow(p)) : OnlyLow(p)[i] = p[j]
    BY <2>1, OnlyLowIs
  <2> QED
    BY <1>4, <2>1, <2>2
<1>6. \A i \in 1 .. Len(a) : a[i] \in Nat
  <2>1. \A r \in Row : r \in Nat
    BY RowsFinite DEF Row
  <2> QED
    BY <1>2, <2>1
<1>7. ASSUME next # NoCursor, NEW j \in 1 .. Len(p)
      PROVE  p[j] >= next
  <2>1. next = a[Len(p)] /\ Len(p) \in 1 .. Len(a) /\ p[j] = a[j] /\ j \in 1 .. Len(a) /\ j <= Len(p)
    BY <1>1, <1>7
  <2>2. CASE j = Len(p)
    BY <1>6, <2>1, <2>2
  <2>3. CASE j < Len(p)
    <3>1. a[j] > a[Len(p)]
      BY <1>2, <2>1, <2>3 DEF Descends
    <3> QED
      BY <1>6, <2>1, <3>1
  <2> QED
    BY <2>1, <2>2, <2>3
<1>8. ASSUME NEW i \in 1 .. Len(s)
      PROVE  (c # NoCursor => s[i] < c) /\ (next # NoCursor => s[i] >= next)
  BY <1>1, <1>2, <1>5, <1>7
<1>9. ASSUME NEW r \in Wanted, c = NoCursor \/ r < c
      PROVE  \/ next # NoCursor /\ r < next
             \/ \E i \in 1 .. Len(s) : s[i] = r
  <2>1. PICK k \in 1 .. Len(a) : a[k] = r
    BY <1>2, <1>3, <1>9
  <2>2. CASE k \in 1 .. Len(p)
    BY <1>1, <1>3, <1>5, <2>1, <2>2
  <2>3. CASE k \notin 1 .. Len(p)
    <3>1. next # NoCursor /\ Len(p) \in 1 .. Len(a) /\ next = a[Len(p)]
      BY <1>1, <2>3
    <3>2. Len(p) < k
      BY <2>1, <2>3, <3>1
    <3>3. a[Len(p)] > a[k]
      BY <1>2, <3>1, <3>2 DEF Descends
    <3> QED
      BY <1>6, <2>1, <3>1, <3>3
  <2> QED
    BY <2>2, <2>3
<1> QED
  BY <1>1, <1>2, <1>5, <1>8, <1>9

(* Where a walk stands that has only gone on.  Before the cursor lies what *)
(* has been walked; of the rows that have been there since it began, each  *)
(* has been walked or lies ahead.                                          *)
WalkBehind ==
  /\ Descends(walked) /\ begun \subseteq Wanted
  /\ cursor = NoCursor => walked = <<>>
  /\ cursor # NoCursor =>
       /\ \A i \in 1 .. Len(walked) : walked[i] >= cursor
       /\ \A r \in begun : r < cursor \/ \E i \in 1 .. Len(walked) : walked[i] = r
WalkAhead(s, next) ==
  /\ Descends(s)
  /\ \A i \in 1 .. Len(s) : /\ cursor # NoCursor => s[i] < cursor
                            /\ next # NoCursor => s[i] >= next
  /\ cursor # NoCursor /\ next # NoCursor => next < cursor
  /\ \A r \in begun : \/ next # NoCursor /\ r < next
                      \/ \E i \in 1 .. Len(walked) : walked[i] = r
                      \/ \E i \in 1 .. Len(s) : s[i] = r
Walks ==
  sure /\ (cursor # NoCursor \/ sheet.at = "shown") =>
    /\ WalkBehind
    /\ sheet.at = "shown" => WalkAhead(sheet.rows, sheet.next)

PagInv == PagType /\ Walks

LEMMA SheetShape ==
  ASSUME PagType
  PROVE  /\ sheet.rows \in Seq(Row) /\ sheet.next \in 0 .. MaxRow /\ sheet.at \in {"loading", "shown"}
         /\ LoadingSheet \in [at : {"loading", "shown"}, rows : Seq(Row), next : 0 .. MaxRow]
         /\ LoadingSheet.at = "loading" /\ 0 \in 0 .. MaxRow
<1>1. 0 \in 0 .. MaxRow
  BY RowsFinite
<1> QED
  BY <1>1 DEF PagType, LoadingSheet

LEMMA PagInitInv ==
  PagInit => PagInv
<1> SUFFICES ASSUME PagInit PROVE PagInv
  OBVIOUS
<1>1. 0 \in 0 .. MaxRow /\ 0 \in 0 .. MaxNew /\ 0 \in 0 .. MaxMoves /\ 0 \in 0 .. MaxClicks
        /\ FirstRows \in SUBSET Row
  BY PagAssumption DEF PagAssumption, Row
<1>2. sheet \in [at : {"loading", "shown"}, rows : Seq(Row), next : 0 .. MaxRow] /\ sheet.at = "loading"
  BY <1>1 DEF PagInit, LoadingSheet
<1>3. rows \in SUBSET Row /\ narrow \in SUBSET rows
  BY <1>1 DEF PagInit
<1>4. PagType
  BY <1>1, <1>2, <1>3 DEF PagInit, PagType, NoCursor
<1>5. Walks
  BY <1>2 DEF PagInit, Walks
<1> QED
  BY <1>4, <1>5 DEF PagInv

LEMMA ReadSheetKeeps ==
  ASSUME PagInv, ReadSheet
  PROVE  PagInv'
<1> DEFINE page0 == PageFrom(cursor)
           s == OnlyLow(page0)
           next == NextFrom(cursor)
<1>0. PagType /\ cursor \in 0 .. MaxRow /\ sheet = LoadingSheet
  BY DEF PagInv, PagType, ReadSheet
<1>1. sheet' = [at |-> "shown", rows |-> s, next |-> next]
  BY DEF ReadSheet, PageFrom, NextFrom
<1>2. s \in Seq(Row) /\ next \in 0 .. MaxRow
  <2>1. page0 \in Seq(Row) /\ next \in 0 .. MaxRow
    BY <1>0, PageParts
  <2> HIDE DEF page0, next
  <2> QED
    BY <1>0, <2>1, OnlyLowIs
<1>3. UNCHANGED <<list, filter, cursor, cursorHistory, clicks, rows, narrow, added, moves, used>>
  BY DEF ReadSheet, data
<1> DEFINE first == cursor = NoCursor
<1>4. /\ first => walked' = <<>> /\ begun' = Wanted /\ sure' = sure
      /\ ~first => /\ sure' = (sure /\ cursor \in Selected)
                   /\ walked' = walked /\ begun' = begun
  BY DEF ReadSheet
<1>5. sheet' \in [at : {"loading", "shown"}, rows : Seq(Row), next : 0 .. MaxRow]
        /\ sheet'.at = "shown" /\ sheet'.rows = s /\ sheet'.next = next
  <2> HIDE DEF s, next
  <2> QED
    BY <1>1, <1>2
<1>6. Wanted \in SUBSET Row /\ Wanted \in SUBSET Selected /\ Wanted' = Wanted
  BY <1>0, <1>3, SelectedRows DEF Wanted
<1>7. PagType'
  <2>1. walked' \in Seq(Row) /\ begun' \in SUBSET Row
    <3>1. CASE first
      <4>1. walked' = <<>> /\ begun' = Wanted
        BY <1>4, <3>1
      <4> QED
        BY <1>6, <4>1
    <3>2. CASE ~first
      <4>1. walked' = walked /\ begun' = begun
        BY <1>4, <3>2
      <4> QED
        BY <1>0, <4>1 DEF PagType
    <3> QED
      BY <3>1, <3>2
  <2>2. sure' \in BOOLEAN
    BY <1>0, <1>4, Zenon DEF PagType
  <2> QED
    BY <1>0, <1>3, <1>5, <2>1, <2>2 DEF PagType
<1>8. ASSUME sure'
      PROVE  WalkBehind' /\ WalkAhead(sheet.rows, sheet.next)'
  <2>1. cursor = NoCursor \/ cursor \in Selected
    BY <1>4, <1>8
  <2>2. /\ Descends(s)
        /\ \A i \in 1 .. Len(s) : /\ cursor # NoCursor => s[i] < cursor
                                  /\ next # NoCursor => s[i] >= next
        /\ cursor # NoCursor /\ next # NoCursor => next < cursor
        /\ \A r \in Wanted : cursor = NoCursor \/ r < cursor =>
             \/ next # NoCursor /\ r < next
             \/ \E i \in 1 .. Len(s) : s[i] = r
    BY <1>0, <2>1, PageIs
  <2> HIDE DEF s, next
  <2>3. CASE cursor = NoCursor
    <3>1. walked' = <<>> /\ begun' = Wanted /\ cursor' = NoCursor
      BY <1>3, <1>4, <2>3
    <3>2. Descends(walked)'
      BY <3>1 DEF Descends
    <3>3. WalkBehind'
      BY <1>6, <3>1, <3>2 DEF WalkBehind
    <3>4. WalkAhead(sheet.rows, sheet.next)'
      BY <1>5, <2>2, <2>3, <3>1 DEF WalkAhead, Descends
    <3> QED
      BY <3>3, <3>4
  <2>4. CASE cursor # NoCursor
    <3>1. walked' = walked /\ begun' = begun /\ cursor' = cursor /\ sure
      BY <1>3, <1>4, <1>8, <2>4
    <3>2. WalkBehind
      BY <2>4, <3>1 DEF PagInv, Walks
    <3>3. WalkBehind'
      BY <1>6, <3>1, <3>2 DEF WalkBehind, Descends
    <3>4. \A r \in begun : r \in Wanted /\ (r < cursor \/ \E i \in 1 .. Len(walked) : walked[i] = r)
      BY <2>4, <3>2 DEF WalkBehind
    <3>5. WalkAhead(sheet.rows, sheet.next)'
      BY <1>5, <2>2, <3>1, <3>4 DEF WalkAhead, Descends
    <3> QED
      BY <3>3, <3>5
  <2> QED
    BY <2>3, <2>4
<1> QED
  BY <1>7, <1>8 DEF PagInv, Walks

(* A step that takes the user to a page yet to be read.                    *)
LEMMA TurnType ==
  ASSUME PagType, sheet' = LoadingSheet, cursor' \in 0 .. MaxRow, cursorHistory' \in Seq(0 .. MaxRow),
         Click, UNCHANGED <<list, data, begun>>, walked' \in Seq(Row), sure' \in BOOLEAN,
         used' \subseteq {"wide", "narrow", "low"}, filter' \in used'
  PROVE  PagType' /\ sheet'.at = "loading"
<1>1. sheet' \in [at : {"loading", "shown"}, rows : Seq(Row), next : 0 .. MaxRow] /\ sheet'.at = "loading"
  BY SheetShape
<1>2. clicks' \in 0 .. MaxClicks
  <2>1. clicks \in 0 .. MaxClicks /\ clicks < MaxClicks /\ clicks' = clicks + 1
    BY DEF Click, PagType
  <2>2. MaxClicks \in Nat
    BY PagAssumption
  <2> QED
    BY <2>1, <2>2
<1>3. /\ list' \in Lists /\ rows' \in SUBSET Row /\ narrow' \in SUBSET rows'
      /\ begun' \in SUBSET Row /\ added' \in 0 .. MaxNew /\ moves' \in 0 .. MaxMoves
  BY DEF PagType, data
<1> QED
  BY <1>1, <1>2, <1>3 DEF PagType

LEMMA GoNextKeeps ==
  ASSUME PagInv, GoNext
  PROVE  PagInv'
<1> DEFINE s == sheet.rows
           next == sheet.next
<1>0. PagType /\ s \in Seq(Row) /\ next \in 0 .. MaxRow /\ walked \in Seq(Row) /\ sheet.at = "shown"
  BY SheetShape DEF PagInv, PagType, GoNext, Buttons
<1>1. /\ Click /\ next # NoCursor /\ cursor' = next /\ sheet' = LoadingSheet
      /\ cursorHistory' = Append(cursorHistory, cursor) /\ walked' = walked \o s
      /\ UNCHANGED <<list, filter, data, begun, used, sure>>
  BY DEF GoNext
<1> HIDE DEF s, next
<1>2. /\ walked' \in Seq(Row) /\ Len(walked') = Len(walked) + Len(s)
      /\ \A i \in 1 .. Len(walked) + Len(s) :
           walked'[i] = IF i <= Len(walked) THEN walked[i] ELSE s[i - Len(walked)]
  <2>1. /\ walked \o s \in Seq(Row) /\ Len(walked \o s) = Len(walked) + Len(s)
        /\ \A i \in 1 .. Len(walked) + Len(s) :
             (walked \o s)[i] = IF i <= Len(walked) THEN walked[i] ELSE s[i - Len(walked)]
    BY <1>0, ConcatProperties, Zenon
  <2> QED
    BY <1>1, <2>1
<1>3. PagType' /\ sheet'.at = "loading"
  <2>1. cursorHistory' \in Seq(0 .. MaxRow)
    BY <1>0, <1>1 DEF PagType
  <2>2. sure' \in BOOLEAN /\ used' \subseteq {"wide", "narrow", "low"} /\ filter' \in used'
    BY <1>0, <1>1 DEF PagType
  <2>3. UNCHANGED <<list, data, begun>>
    BY <1>1
  <2>4. cursor' \in 0 .. MaxRow
    BY <1>0, <1>1
  <2> QED
    BY <1>0, <1>1, <1>2, <2>1, <2>2, <2>3, <2>4, TurnType
<1>4. ASSUME sure
      PROVE  WalkBehind'
  <2>1. WalkBehind /\ WalkAhead(s, next)
    BY <1>0, <1>4 DEF PagInv, Walks, s, next
  <2>2. Len(walked) \in Nat /\ Len(s) \in Nat /\ \A r \in Row : r \in Nat
    BY <1>0, RowsFinite DEF Row
  <2>3. /\ \A i \in 1 .. Len(walked) : walked[i] \in Nat
        /\ \A i \in 1 .. Len(s) : s[i] \in Nat
    BY <1>0, <2>2
  <2>4. /\ \A i \in 1 .. Len(walked) : walked'[i] = walked[i] /\ i \in 1 .. Len(walked')
        /\ \A i \in 1 .. Len(s) : walked'[Len(walked) + i] = s[i] /\ Len(walked) + i \in 1 .. Len(walked')
    <3>1. \A i \in 1 .. Len(walked) : i \in 1 .. Len(walked) + Len(s) /\ i <= Len(walked)
      BY <2>2
    <3>2. \A i \in 1 .. Len(s) : /\ Len(walked) + i \in 1 .. Len(walked) + Len(s)
                                 /\ ~(Len(walked) + i <= Len(walked)) /\ (Len(walked) + i) - Len(walked) = i
      BY <2>2
    <3> QED
      BY <1>2, <3>1, <3>2
  <2>5. \A i \in 1 .. Len(walked') : \/ i \in 1 .. Len(walked)
                                     \/ \E j \in 1 .. Len(s) : i = Len(walked) + j
    <3> SUFFICES ASSUME NEW i \in 1 .. Len(walked) + Len(s), i \notin 1 .. Len(walked)
                 PROVE  \E j \in 1 .. Len(s) : i = Len(walked) + j
      BY <1>2
    <3>1. i - Len(walked) \in 1 .. Len(s) /\ i = Len(walked) + (i - Len(walked))
      BY <2>2
    <3> QED
      BY <3>1
  <2>6. \A i \in 1 .. Len(walked), j \in 1 .. Len(s) : walked[i] > s[j]
    <3> SUFFICES ASSUME NEW i \in 1 .. Len(walked), NEW j \in 1 .. Len(s) PROVE walked[i] > s[j]
      OBVIOUS
    <3>1. cursor # NoCursor
      BY <2>1 DEF WalkBehind
    <3>2. walked[i] >= cursor /\ s[j] < cursor /\ cursor \in Nat
      BY <1>0, <2>1, <3>1 DEF WalkBehind, WalkAhead, PagType
    <3> QED
      BY <2>3, <3>2
  <2>7. Descends(walked)'
    <3> SUFFICES ASSUME NEW i \in 1 .. Len(walked'), NEW j \in 1 .. Len(walked'), i < j
                 PROVE  walked'[i] > walked'[j]
      BY DEF Descends
    <3>1. CASE i \in 1 .. Len(walked) /\ j \in 1 .. Len(walked)
      BY <2>1, <2>4, <3>1 DEF WalkBehind, Descends
    <3>2. ASSUME i \in 1 .. Len(walked), NEW l \in 1 .. Len(s), j = Len(walked) + l
          PROVE  walked'[i] > walked'[j]
      BY <2>4, <2>6, <3>2
    <3>3. ASSUME NEW k \in 1 .. Len(s), i = Len(walked) + k, NEW l \in 1 .. Len(s), j = Len(walked) + l
          PROVE  walked'[i] > walked'[j]
      <4>1. k < l
        BY <2>2, <3>3
      <4> QED
        BY <2>1, <2>4, <3>3, <4>1 DEF WalkAhead, Descends
    <3>4. ASSUME NEW k \in 1 .. Len(s), i = Len(walked) + k, j \in 1 .. Len(walked)
          PROVE  FALSE
      BY <2>2, <3>4
    <3> QED
      BY <2>5, <3>1, <3>2, <3>3, <3>4
  <2>8. \A i \in 1 .. Len(walked') : walked'[i] >= next
    <3>1. \A j \in 1 .. Len(s) : s[j] >= next
      BY <1>1, <2>1 DEF WalkAhead
    <3>2. ASSUME NEW i \in 1 .. Len(walked)
          PROVE  walked[i] >= next
      <4>1. cursor # NoCursor
        BY <2>1 DEF WalkBehind
      <4>2. walked[i] >= cursor /\ next < cursor /\ cursor \in Nat /\ next \in Nat
        BY <1>0, <1>1, <2>1, <4>1 DEF WalkBehind, WalkAhead, PagType
      <4> QED
        BY <2>3, <4>2
    <3> QED
      BY <2>4, <2>5, <3>1, <3>2
  <2>9. \A r \in begun : r < next \/ \E i \in 1 .. Len(walked') : walked'[i] = r
    <3> SUFFICES ASSUME NEW r \in begun, ~(r < next) PROVE \E i \in 1 .. Len(walked') : walked'[i] = r
      OBVIOUS
    <3>1. (\E i \in 1 .. Len(walked) : walked[i] = r) \/ \E i \in 1 .. Len(s) : s[i] = r
      BY <2>1 DEF WalkAhead
    <3> QED
      BY <2>4, <3>1
  <2>10. Wanted' = Wanted /\ begun \subseteq Wanted
    BY <1>1, <2>1 DEF Wanted, data, WalkBehind
  <2> QED
    BY <1>1, <2>7, <2>8, <2>9, <2>10 DEF WalkBehind
<1> QED
  BY <1>1, <1>3, <1>4 DEF PagInv, Walks

(* A step back, another filter, or a page that is read again: the walk     *)
(* goes on from where it stood, begins anew, or is no longer sure.         *)
LEMMA TurnKeeps ==
  ASSUME PagInv, GoPrevious \/ Reread \/ \E f \in {"wide", "narrow", "low"} : SetFilter(f)
  PROVE  PagInv'
<1>0. PagType /\ 0 \in 0 .. MaxRow /\ <<>> \in Seq(0 .. MaxRow)
  BY SheetShape DEF PagInv
<1>1. CASE GoPrevious
  <2>1. /\ Click /\ sheet' = LoadingSheet /\ sure' = FALSE
        /\ cursor' = Last(cursorHistory) /\ cursorHistory' = Front(cursorHistory)
        /\ cursorHistory # <<>> /\ UNCHANGED <<list, filter, data, walked, begun, used>>
    BY <1>1 DEF GoPrevious, walk
  <2>2. cursorHistory \in Seq(0 .. MaxRow) /\ Len(cursorHistory) \in 1 .. Len(cursorHistory)
    BY <1>0, <2>1 DEF PagType
  <2>3. cursor' \in 0 .. MaxRow
    BY <2>1, <2>2, ElementOfSeq DEF Last
  <2>4. cursorHistory' \in Seq(0 .. MaxRow)
    <3>1. \A i \in 1 .. Len(cursorHistory) - 1 : cursorHistory[i] \in 0 .. MaxRow
      <4>1. \A i \in 1 .. Len(cursorHistory) - 1 : i \in 1 .. Len(cursorHistory)
        BY <2>2
      <4> QED
        BY <2>2, <4>1, ElementOfSeq
    <3>2. Len(cursorHistory) - 1 \in Int /\ 1 \in Int
      BY <2>2
    <3>3. SubSeq(cursorHistory, 1, Len(cursorHistory) - 1) \in Seq(0 .. MaxRow)
      BY <3>1, <3>2, SubSeqProperties
    <3> QED
      BY <2>1, <3>3 DEF Front
  <2>5. walked' \in Seq(Row) /\ used' \subseteq {"wide", "narrow", "low"} /\ filter' \in used'
    BY <1>0, <2>1 DEF PagType
  <2>6. UNCHANGED <<list, data, begun>> /\ sure' \in BOOLEAN
    BY <2>1
  <2>7. PagType'
    BY <1>0, <2>1, <2>3, <2>4, <2>5, <2>6, TurnType
  <2> QED
    BY <2>1, <2>7 DEF PagInv, Walks
<1>2. CASE Reread
  <2>1. /\ Click /\ sheet' = LoadingSheet /\ sheet.at = "shown"
        /\ UNCHANGED <<list, filter, cursor, cursorHistory, data, walked, begun, used, sure>>
    BY <1>2 DEF Reread, walk
  <2>2. /\ walked' \in Seq(Row) /\ used' \subseteq {"wide", "narrow", "low"} /\ filter' \in used'
        /\ cursor' \in 0 .. MaxRow /\ cursorHistory' \in Seq(0 .. MaxRow) /\ sure' \in BOOLEAN
    BY <1>0, <2>1 DEF PagType
  <2>3. UNCHANGED <<list, data, begun>>
    BY <2>1
  <2>4. PagType' /\ sheet'.at = "loading"
    BY <1>0, <2>1, <2>2, <2>3, TurnType
  <2>5. sure => WalkBehind
    BY <2>1 DEF PagInv, Walks
  <2>6. sure' => WalkBehind'
    BY <2>1, <2>5 DEF WalkBehind, Wanted, data, Descends
  <2> QED
    BY <2>4, <2>6 DEF PagInv, Walks
<1>3. ASSUME NEW f \in {"wide", "narrow", "low"}, SetFilter(f)
      PROVE  PagInv'
  <2>1. /\ Click /\ sheet' = LoadingSheet /\ filter' = f /\ used' = used \cup {f}
        /\ UNCHANGED <<list, data, walked, begun>>
        /\ sure' = (cursor' = NoCursor /\ f \notin used)
    BY <1>3 DEF SetFilter
  <2>2. cursor' \in 0 .. MaxRow /\ cursorHistory' \in Seq(0 .. MaxRow)
    <3>1. CASE Resets
      <4>1. cursor' = 0 /\ cursorHistory' = <<>>
        BY <1>3, <3>1 DEF SetFilter, NoCursor
      <4> QED
        BY <1>0, <4>1
    <3>2. CASE ~Resets
      BY <1>0, <1>3, <3>2 DEF SetFilter, PagType
    <3> QED
      BY <3>1, <3>2
  <2>3. walked' \in Seq(Row) /\ used' \subseteq {"wide", "narrow", "low"} /\ filter' \in used'
    BY <1>0, <2>1 DEF PagType
  <2>4. sure' \in BOOLEAN
    BY <2>1, Zenon
  <2>5. UNCHANGED <<list, data, begun>>
    BY <2>1
  <2>6. PagType' /\ sheet'.at = "loading"
    BY <1>0, <2>1, <2>2, <2>3, <2>4, <2>5, TurnType
  <2>7. sure' => cursor' = NoCursor
    BY <2>1
  <2> QED
    BY <2>6, <2>7 DEF PagInv, Walks
<1> QED
  BY <1>1, <1>2, <1>3

(* What others do takes nothing from the walk but rows that are gone, or   *)
(* that the filter does not select any more.                               *)
LEMMA OthersKeep ==
  ASSUME PagInv, NEW r \in Row, AddRow(r) \/ MoveRow(r) \/ RemoveRow(r)
  PROVE  PagInv'
<1>0. /\ rows \in SUBSET Row /\ narrow \in SUBSET rows /\ begun \in SUBSET Row
      /\ added \in 0 .. MaxNew /\ moves \in 0 .. MaxMoves /\ PagType
  BY DEF PagInv, PagType
<1>1. UNCHANGED <<list, filter, cursor, cursorHistory, sheet, clicks, walked, used, sure>>
  BY DEF AddRow, MoveRow, RemoveRow, walk
<1>2. /\ rows' \in SUBSET Row /\ narrow' \in SUBSET rows' /\ begun' \subseteq begun
      /\ added' \in 0 .. MaxNew /\ moves' \in 0 .. MaxMoves
      /\ begun \subseteq Wanted => begun' \subseteq Wanted'
  <2>0. MaxNew \in Nat /\ MaxMoves \in Nat
    BY PagAssumption DEF PagAssumption
  <2>1. CASE AddRow(r)
    <3>1. rows' = rows \cup {r} /\ (narrow' = narrow \/ narrow' = narrow \cup {r}) /\ begun' = begun /\ moves' = moves
      BY <2>1 DEF AddRow, walk
    <3>2. added' \in 0 .. MaxNew
      BY <1>0, <2>0, <2>1 DEF AddRow
    <3>3. rows' \in SUBSET Row /\ narrow' \in SUBSET rows' /\ narrow \subseteq narrow' /\ rows \subseteq rows'
      BY <1>0, <3>1
    <3> QED
      BY <1>0, <1>1, <3>1, <3>2, <3>3 DEF Wanted
  <2>2. CASE MoveRow(r)
    <3>1. /\ rows' = rows /\ added' = added /\ r \in rows
          /\ narrow' = (IF r \in narrow THEN narrow \ {r} ELSE narrow \cup {r})
          /\ begun' = (IF filter = "wide" THEN begun ELSE begun \ {r})
      BY <2>2 DEF MoveRow
    <3>2. moves' \in 0 .. MaxMoves
      BY <1>0, <2>0, <2>2 DEF MoveRow
    <3>3. narrow' \in SUBSET rows' /\ narrow \ {r} \subseteq narrow' /\ begun' \subseteq begun
      BY <1>0, <3>1
    <3>4. begun \subseteq Wanted => begun' \subseteq Wanted'
      BY <1>1, <3>1, <3>3 DEF Wanted
    <3> QED
      BY <1>0, <3>1, <3>2, <3>3, <3>4
  <2>3. CASE RemoveRow(r)
    <3>1. rows' = rows \ {r} /\ narrow' = narrow \ {r} /\ begun' = begun \ {r} /\ added' = added
      BY <2>3 DEF RemoveRow
    <3>2. moves' \in 0 .. MaxMoves
      BY <1>0, <2>0, <2>3 DEF RemoveRow
    <3> QED
      BY <1>0, <1>1, <3>1, <3>2 DEF Wanted
  <2> QED
    BY <2>1, <2>2, <2>3
<1>3. PagType'
  BY <1>0, <1>1, <1>2 DEF PagType
<1>4. WalkBehind => WalkBehind'
  BY <1>1, <1>2 DEF WalkBehind, Descends
<1>5. WalkAhead(sheet.rows, sheet.next) => WalkAhead(sheet.rows, sheet.next)'
  BY <1>1, <1>2 DEF WalkAhead, Descends
<1> QED
  BY <1>1, <1>3, <1>4, <1>5 DEF PagInv, Walks

LEMMA PagInvariant == PagSpec => []PagInv
<1>1. PagInv /\ [PagNext]_pagVars => PagInv'
  <2> SUFFICES ASSUME PagInv, [PagNext]_pagVars PROVE PagInv'
    OBVIOUS
  <2>1. CASE UNCHANGED pagVars
    <3>1. /\ UNCHANGED <<list, rows, narrow, filter, cursor, cursorHistory, sheet>>
          /\ UNCHANGED <<added, moves, clicks, walked, begun, used, sure>>
      BY <2>1 DEF pagVars, data, walk
    <3>2. PagType'
      BY <3>1 DEF PagInv, PagType
    <3>3. Walks'
      BY <3>1 DEF PagInv, Walks, WalkBehind, WalkAhead, Wanted, Descends
    <3> QED
      BY <3>2, <3>3 DEF PagInv
  <2>2. ASSUME NEW r \in 1 .. MaxRow, AddRow(r) \/ MoveRow(r) \/ RemoveRow(r) PROVE PagInv'
    BY <2>2, OthersKeep DEF Row
  <2> QED
    BY <2>1, <2>2, ReadSheetKeeps, GoNextKeeps, TurnKeeps DEF PagNext
<1> QED
  BY <1>1, PagInitInv, PTL DEF PagSpec

(* The state of a paged list is well formed.                               *)
THEOREM PagTypeCorrect == PagSpec => []PagTypeOK
<1>1. PagInv => PagTypeOK
  <2> SUFFICES ASSUME PagInv PROVE PagTypeOK
    OBVIOUS
  <2>1. sheet.rows \in Seq(Row) /\ walked \in Seq(Row) /\ begun \subseteq Row
    BY DEF PagInv, PagType
  <2>2. Range(sheet.rows) \subseteq Row /\ Range(walked) \subseteq Row
    BY <2>1, ElementOfSeq DEF Range
  <2>3. sure \in BOOLEAN
    BY Zenon DEF PagInv, PagType
  <2> QED
    BY <2>1, <2>2, <2>3 DEF PagInv, PagType, PagTypeOK, Row
<1> QED
  BY <1>1, PagInvariant, PTL

(* Who walks through a list from page to page (Pagination, listProducts,   *)
(* listSales, listStockMovements, listTenantsAdmin) sees every row once,   *)
(* whatever the size of a page and however many rows are added, moved      *)
(* between the filters or removed meanwhile, unless the row of a cursor    *)
(* leaves the filter: behind the cursor lies what was walked, newest       *)
(* first, and ahead of it what was not.                                    *)
THEOREM EachRowSeenOnce == PagSpec => []EachRowOnce
<1>1. PagInv => EachRowOnce
  <2> SUFFICES ASSUME PagInv, sure, sheet.at = "shown"
               PROVE  /\ IsInjective(walked \o sheet.rows)
                      /\ sheet.next = NoCursor => begun \subseteq Range(walked \o sheet.rows)
    BY DEF EachRowOnce
  <2> DEFINE s == sheet.rows
             t == walked \o s
  <2>1. /\ s \in Seq(Row) /\ walked \in Seq(Row) /\ WalkBehind /\ WalkAhead(s, sheet.next)
        /\ cursor \in 0 .. MaxRow
    BY SheetShape DEF PagInv, PagType, Walks
  <2> HIDE DEF s
  <2>2. /\ t \in Seq(Row) /\ Len(t) = Len(walked) + Len(s)
        /\ \A i \in 1 .. Len(walked) + Len(s) : t[i] = IF i <= Len(walked) THEN walked[i] ELSE s[i - Len(walked)]
    BY <2>1, ConcatProperties, Zenon
  <2> HIDE DEF t
  <2>3. /\ Len(walked) \in Nat /\ Len(s) \in Nat /\ DOMAIN t = 1 .. Len(t)
        /\ \A i \in 1 .. Len(walked) : walked[i] \in Nat
        /\ \A i \in 1 .. Len(s) : s[i] \in Nat
    <3>1. \A r \in Row : r \in Nat
      BY RowsFinite DEF Row
    <3> QED
      BY <2>1, <2>2, <3>1
  <2>4. /\ \A i \in 1 .. Len(walked) : t[i] = walked[i] /\ i \in DOMAIN t
        /\ \A j \in 1 .. Len(s) : t[Len(walked) + j] = s[j] /\ Len(walked) + j \in DOMAIN t
    <3>1. \A i \in 1 .. Len(walked) : i \in 1 .. Len(walked) + Len(s) /\ i <= Len(walked)
      BY <2>3
    <3>2. \A i \in 1 .. Len(s) : /\ Len(walked) + i \in 1 .. Len(walked) + Len(s)
                                 /\ ~(Len(walked) + i <= Len(walked)) /\ (Len(walked) + i) - Len(walked) = i
      BY <2>3
    <3> QED
      BY <2>2, <2>3, <3>1, <3>2
  <2>5. \A i \in DOMAIN t : i \in 1 .. Len(walked) \/ \E j \in 1 .. Len(s) : i = Len(walked) + j
    <3> SUFFICES ASSUME NEW i \in 1 .. Len(walked) + Len(s), i \notin 1 .. Len(walked)
                 PROVE  \E j \in 1 .. Len(s) : i = Len(walked) + j
      BY <2>2, <2>3
    <3>1. i - Len(walked) \in 1 .. Len(s) /\ i = Len(walked) + (i - Len(walked))
      BY <2>3
    <3> QED
      BY <3>1
  <2>6. \A i \in 1 .. Len(walked), j \in 1 .. Len(s) : walked[i] # s[j]
    <3> SUFFICES ASSUME NEW i \in 1 .. Len(walked), NEW j \in 1 .. Len(s) PROVE walked[i] # s[j]
      OBVIOUS
    <3>1. cursor # NoCursor
      BY <2>1 DEF WalkBehind
    <3>2. walked[i] >= cursor /\ s[j] < cursor /\ cursor \in Nat
      BY <2>1, <3>1 DEF WalkBehind, WalkAhead
    <3> QED
      BY <2>3, <3>2
  <2>7. /\ \A i, j \in 1 .. Len(walked) : walked[i] = walked[j] => i = j
        /\ \A i, j \in 1 .. Len(s) : s[i] = s[j] => i = j
    <3>1. \A n \in Nat : \A i, j \in 1 .. n : i < j \/ j < i \/ i = j
      OBVIOUS
    <3>2. Descends(walked) /\ Descends(s)
      BY <2>1 DEF WalkBehind, WalkAhead
    <3>3. ASSUME NEW i \in 1 .. Len(walked), NEW j \in 1 .. Len(walked), walked[i] = walked[j] PROVE i = j
      <4>1. ~(walked[i] > walked[j]) /\ ~(walked[j] > walked[i])
        BY <2>3, <3>3
      <4> QED
        BY <2>3, <3>1, <3>2, <4>1 DEF Descends
    <3>4. ASSUME NEW i \in 1 .. Len(s), NEW j \in 1 .. Len(s), s[i] = s[j] PROVE i = j
      <4>1. ~(s[i] > s[j]) /\ ~(s[j] > s[i])
        BY <2>3, <3>4
      <4> QED
        BY <2>3, <3>1, <3>2, <4>1 DEF Descends
    <3> QED
      BY <3>3, <3>4
  <2>8. IsInjective(t)
    <3> SUFFICES ASSUME NEW a \in DOMAIN t, NEW b \in DOMAIN t, t[a] = t[b] PROVE a = b
      BY DEF IsInjective
    <3>1. CASE a \in 1 .. Len(walked) /\ b \in 1 .. Len(walked)
      BY <2>4, <2>7, <3>1
    <3>2. ASSUME a \in 1 .. Len(walked), NEW j \in 1 .. Len(s), b = Len(walked) + j PROVE a = b
      BY <2>4, <2>6, <3>2
    <3>3. ASSUME b \in 1 .. Len(walked), NEW i \in 1 .. Len(s), a = Len(walked) + i PROVE a = b
      BY <2>4, <2>6, <3>3
    <3>4. ASSUME NEW i \in 1 .. Len(s), a = Len(walked) + i, NEW j \in 1 .. Len(s), b = Len(walked) + j
          PROVE  a = b
      <4>1. s[i] = s[j]
        BY <2>4, <3>4
      <4> QED
        BY <2>7, <3>4, <4>1
    <3> QED
      BY <2>5, <3>1, <3>2, <3>3, <3>4
  <2>9. ASSUME sheet.next = NoCursor, NEW r \in begun
        PROVE  \E i \in DOMAIN t : t[i] = r
    <3>1. (\E i \in 1 .. Len(walked) : walked[i] = r) \/ \E i \in 1 .. Len(s) : s[i] = r
      BY <2>1, <2>9 DEF WalkAhead
    <3> QED
      BY <2>4, <3>1
  <2> QED
    BY <2>8, <2>9 DEF Range, s, t
<1> QED
  BY <1>1, PagInvariant, PTL

--------------------------------------------------------------------------------
(* The reports.                                                            *)

Views == Branch \cup {Whole}
Minimums == [Good -> Minima]
Overrides == [Good -> [Branch -> Minima \cup {NoOverride}]]

ShopType ==
  /\ day \in 0 .. MaxDay /\ events \in 0 .. MaxEvents
  /\ sold \in [Good -> [Branch -> [0 .. MaxDay -> Nat]]]
  /\ stock \in [Good -> [Branch -> Nat]]
  /\ last \in [Good -> [Branch -> {Never} \cup (0 .. day)]]
  /\ minimum \in Minimums /\ override \in Overrides
  /\ steady \subseteq Good

ReportType ==
  /\ report \in [view : Views \cup {"none"}, read : SUBSET (Branch \cup {"products", "stock", "overrides"}),
                 minimum : Minimums \cup {<<>>}, override : Overrides \cup {<<>>},
                 total : [Good -> Nat] \cup {<<>>}, low : SUBSET Good]
  /\ Open => report.minimum \in Minimums
  /\ "stock" \in report.read => report.total \in [Good -> Nat]
  /\ "overrides" \in report.read => report.override \in Overrides
  /\ ~Open => report = NoReport /\ always = {} /\ once = {}

(* The minimum that the list of a view goes by, next to the overrides.     *)
LimitIn(g, which) == IF which = Whole THEN minimum[g] ELSE MinimumIn(g, which)

(* What has been read is right for the products whose minima stay: each of *)
(* the ways a product has belonged on the list all the while is found by   *)
(* the statement that looks for it, and what a statement finds was so.     *)
FoundRight ==
  /\ always \subseteq Under(report.view) /\ Products(Under(report.view)) \subseteq once
  /\ once \subseteq Good
  /\ \A g \in steady : report.minimum[g] = minimum[g]
  /\ "overrides" \in report.read => \A g \in steady : report.override[g] = override[g]
  /\ "stock" \in report.read =>
       \A g \in steady :
         /\ <<g, report.view>> \in always => report.total[g] < LimitIn(g, report.view)
         /\ report.total[g] < LimitIn(g, report.view) => g \in once
  /\ report.view = Whole =>
       \A b \in Branch \cap report.read, g \in steady : <<g, b>> \in always => g \in report.low
  /\ report.low \cap steady \subseteq once

SalesSeen ==
  \A g \in Good, b \in Branch, d \in 0 .. MaxDay : sold[g][b][d] > 0 => d <= last[g][b]

RepInv == ShopType /\ ReportType /\ (Open => FoundRight) /\ SalesSeen

LEMMA MinimaLeast == Min(Minima) \in Minima
<1>1. IsFiniteSet(Minima) /\ Minima # {} /\ \A x \in Minima : x \in Int
  <2>1. Minima # {} /\ Minima \subseteq Nat
    BY RepAssumption
  <2>2. \A S \in {Good, Branch, Minima} : IsFiniteSet(S)
    BY RepAssumption
  <2>3. IsFiniteSet(Minima)
    BY <2>2
  <2>4. \A x \in Minima : x \in Int
    BY <2>1
  <2> QED
    BY <2>1, <2>3, <2>4
<1>2. PICK m \in Minima : \A x \in Minima : m <= x
  BY <1>1, LeastOf
<1> QED
  BY <1>2 DEF Min

LEMMA StockInType ==
  ASSUME ShopType, NEW g \in Good, NEW which \in Views
  PROVE  StockIn(g, which) \in Nat
<1>1. CASE which = Whole
  <2>1. IsFiniteSet(Branch) /\ stock[g] \in [Branch -> Nat]
    BY RepAssumption DEF ShopType
  <2>2. \A b \in Branch : stock[g][b] \in Nat
    BY <2>1
  <2>3. Total(stock[g]) = SumFunctionOnSet(stock[g], Branch)
    BY <2>1 DEF Total, SumFunction
  <2>4. SumFunctionOnSet(stock[g], Branch) \in Nat
    BY <2>1, <2>2, SumOfPart
  <2> QED
    BY <1>1, <2>3, <2>4 DEF StockIn
<1>2. CASE which # Whole
  BY <1>2 DEF StockIn, Views, ShopType
<1> QED
  BY <1>1, <1>2

LEMMA RepInitial == RepInit => RepInv
<1> SUFFICES ASSUME RepInit PROVE RepInv
  OBVIOUS
<1> USE DEF RepInit, Never
<1>1. MaxDay \in Nat /\ MaxEvents \in Nat
  BY RepAssumption
<1>2. minimum \in Minimums
  BY MinimaLeast DEF Minimums
<1>3. last \in [Good -> [Branch -> {Never} \cup (0 .. day)]]
  OBVIOUS
<1>4. ShopType
  BY <1>1, <1>2, <1>3 DEF ShopType, Overrides
<1>5. ReportType /\ ~Open
  BY DEF ReportType, NoReport, Open
<1>6. SalesSeen
  BY DEF SalesSeen
<1> QED
  BY <1>4, <1>5, <1>6 DEF RepInv

(* Who belongs on the list of a view.                                      *)
LEMMA UnderWays ==
  ASSUME NEW which \in Views
  PROVE  /\ Under(which) \subseteq Good \X Views
         /\ Products(Under(which)) \subseteq Good
         /\ \A g \in Good : which = Whole => (<<g, Whole>> \in Under(which) <=> Total(stock[g]) < minimum[g])
         /\ \A g \in Good, b \in Branch : which = Whole => (<<g, b>> \in Under(which) <=> UnderOverride(g, b))
         /\ \A g \in Good : which # Whole => (<<g, which>> \in Under(which) <=> stock[g][which] < MinimumIn(g, which))
         /\ \A g, w : <<g, w>> \in Under(which) => g \in Products(Under(which))
<1>1. Whole \notin Branch
  BY RepAssumption DEF Whole
<1>2. Under(which) \subseteq Good \X Views
  BY DEF Under, Views
<1>3. ASSUME NEW g, NEW w, <<g, w>> \in Under(which) PROVE g \in Products(Under(which))
  BY <1>3 DEF Products
<1>4. Products(Under(which)) \subseteq Good
  BY <1>2 DEF Products
<1>5. ASSUME NEW g \in Good, which = Whole
      PROVE  <<g, Whole>> \in Under(which) <=> Total(stock[g]) < minimum[g]
  BY <1>1, <1>5 DEF Under, UnderWhole
<1>6. ASSUME NEW g \in Good, NEW b \in Branch, which = Whole
      PROVE  <<g, b>> \in Under(which) <=> UnderOverride(g, b)
  BY <1>1, <1>6 DEF Under
<1>7. ASSUME NEW g \in Good, which # Whole
      PROVE  <<g, which>> \in Under(which) <=> stock[g][which] < MinimumIn(g, which)
  BY <1>7 DEF Under
<1> QED
  BY <1>2, <1>3, <1>4, <1>5, <1>6, <1>7

(* The steps of the list.                                                  *)
LEMMA OpenReportKeeps ==
  ASSUME RepInv, NEW which \in Views, OpenReport(which)
  PROVE  RepInv'
<1>1. UNCHANGED <<day, sold, last, stock, minimum, override, events>> /\ steady' = Good
  BY DEF OpenReport, shop
<1>2. /\ report'.view = which /\ report'.read = {"products"} /\ report'.minimum = minimum
      /\ report'.low = {} /\ report'.override = <<>> /\ report'.total = <<>>
  BY DEF OpenReport, NoReport
<1>3. ShopType' /\ SalesSeen'
  BY <1>1 DEF RepInv, ShopType, SalesSeen
<1>4. "none" \notin Views /\ "products" \notin Branch
  BY RepAssumption DEF Views, Whole
<1>5. report' \in [view : Views \cup {"none"}, read : SUBSET (Branch \cup {"products", "stock", "overrides"}),
                 minimum : Minimums \cup {<<>>}, override : Overrides \cup {<<>>},
                 total : [Good -> Nat] \cup {<<>>}, low : SUBSET Good]
  BY DEF OpenReport, NoReport, RepInv, ShopType
<1>6. ReportType'
  BY <1>2, <1>4, <1>5 DEF ReportType, RepInv, ShopType, Open
<1>7. Under(which)' = Under(which)
  BY <1>1 DEF Under, UnderWhole, UnderOverride, MinimumIn
<1>8. always' = Under(which) /\ once' = Products(Under(which))
  BY DEF OpenReport
<1>9. FoundRight'
  <2>1. Under(report.view)' = Under(which)
    BY <1>2, <1>7
  <2>2. Products(Under(which)) \subseteq Good
    BY UnderWays
  <2> QED
    BY <1>1, <1>2, <1>4, <1>8, <2>1, <2>2 DEF FoundRight
<1> QED
  BY <1>3, <1>6, <1>9 DEF RepInv

(* A step of the shop.                                                     *)
LEMMA WatchKeeps ==
  ASSUME RepInv, ShopType', Watch, report' = report, steady' \subseteq steady,
         \A g \in steady' : minimum'[g] = minimum[g] /\ override'[g] = override[g]
  PROVE  ReportType' /\ (Open => FoundRight)'
<1>1. ReportType'
  BY DEF ReportType, RepInv, Open, Watch
<1>2. ASSUME Open PROVE FoundRight'
  <2>1. always' = always \cap Under(report.view)' /\ once' = once \cup Products(Under(report.view)')
    BY <1>2 DEF Watch
  <2>2. FoundRight
    BY <1>2 DEF RepInv
  <2>3. report.view \in Views
    BY <1>2 DEF RepInv, ReportType, Open
  <2>4. Products(Under(report.view))' \subseteq Good
    BY <2>3 DEF Products, Under
  <2>5. Products(Under(report.view))' = Products(Under(report.view)')
    BY DEF Products
  <2>6. \A g \in steady' : LimitIn(g, report.view)' = LimitIn(g, report.view)
    BY DEF LimitIn, MinimumIn
  <2> QED
    BY <2>1, <2>2, <2>4, <2>5, <2>6 DEF FoundRight
<1> QED
  BY <1>1, <1>2 DEF Open

LEMMA ReadStockKeeps ==
  ASSUME RepInv, ReadStock
  PROVE  RepInv'
<1>1. /\ UNCHANGED <<shop, events, watched>> /\ Open
      /\ report' = [report EXCEPT !.read = ReadAlso("stock"),
                                  !.total = [g \in Good |-> StockIn(g, report.view)]]
  BY DEF ReadStock, Reading
<1>2. UNCHANGED <<day, sold, last, stock, minimum, override, events, always, once, steady>>
  BY <1>1 DEF shop, watched
<1>3. ShopType' /\ SalesSeen'
  BY <1>2 DEF RepInv, ShopType, SalesSeen
<1>4. report.view \in Views /\ ReportType /\ FoundRight
  BY <1>1 DEF RepInv, ReportType, Open
<1>5. \A g \in Good : StockIn(g, report.view) \in Nat
  BY <1>4, StockInType DEF RepInv
<1>6. /\ report'.view = report.view /\ report'.read = report.read \cup {"stock"}
      /\ report'.minimum = report.minimum /\ report'.override = report.override
      /\ report'.low = report.low /\ report'.total = [g \in Good |-> StockIn(g, report.view)]
  BY <1>1, <1>4 DEF ReportType, ReadAlso
<1>7. [g \in Good |-> StockIn(g, report.view)] \in [Good -> Nat]
  BY <1>5
<1>8. ReportType'
  <2>1. report' \in [view : Views \cup {"none"}, read : SUBSET (Branch \cup {"products", "stock", "overrides"}),
                 minimum : Minimums \cup {<<>>}, override : Overrides \cup {<<>>},
                 total : [Good -> Nat] \cup {<<>>}, low : SUBSET Good]
    BY <1>1, <1>4, <1>7, Zenon DEF ReportType, ReadAlso
  <2> QED
    BY <1>1, <1>2, <1>4, <1>6, <1>7, <2>1 DEF ReportType, Open
<1>9. Under(report.view)' = Under(report.view)
  BY <1>2, <1>6 DEF Under, UnderWhole, UnderOverride, MinimumIn
<1>10. Products(Under(report.view))' = Products(Under(report.view))
  BY <1>9 DEF Products
<1>11. ASSUME NEW g \in steady
       PROVE  /\ LimitIn(g, report.view)' = LimitIn(g, report.view)
              /\ <<g, report.view>> \in always => StockIn(g, report.view) < LimitIn(g, report.view)
              /\ StockIn(g, report.view) < LimitIn(g, report.view) => g \in once
  <2>1. g \in Good
    BY DEF RepInv, ShopType
  <2>2. StockIn(g, report.view) < LimitIn(g, report.view) <=> <<g, report.view>> \in Under(report.view)
    BY <1>4, <2>1, UnderWays DEF StockIn, LimitIn
  <2>3. <<g, report.view>> \in Under(report.view) => g \in Products(Under(report.view))
    BY <1>4, UnderWays
  <2>4. LimitIn(g, report.view)' = LimitIn(g, report.view)
    BY <1>2, <1>6 DEF LimitIn, MinimumIn
  <2> QED
    BY <1>4, <2>2, <2>3, <2>4 DEF FoundRight
<1>12. "stock" \notin Branch
  BY RepAssumption
<1>13. FoundRight'
  <2>1. \A g \in steady' : report'.total[g] = StockIn(g, report.view)
    BY <1>2, <1>6 DEF RepInv, ShopType
  <2> QED
    BY <1>2, <1>4, <1>6, <1>9, <1>10, <1>11, <1>12, <2>1 DEF FoundRight
<1> QED
  BY <1>3, <1>8, <1>13 DEF RepInv

LEMMA ReadOverridesKeeps ==
  ASSUME RepInv, ReadOverrides
  PROVE  RepInv'
<1>1. /\ UNCHANGED <<shop, events, watched>> /\ Open
      /\ report' = [report EXCEPT !.read = ReadAlso("overrides"), !.override = override]
  BY DEF ReadOverrides, Reading
<1>2. UNCHANGED <<day, sold, last, stock, minimum, override, events, always, once, steady>>
  BY <1>1 DEF shop, watched
<1>3. ShopType' /\ SalesSeen'
  BY <1>2 DEF RepInv, ShopType, SalesSeen
<1>4. ReportType /\ FoundRight /\ override \in Overrides
  BY <1>1 DEF RepInv, ShopType
<1>5. /\ report'.view = report.view /\ report'.read = report.read \cup {"overrides"}
      /\ report'.minimum = report.minimum /\ report'.override = override
      /\ report'.low = report.low /\ report'.total = report.total
  BY <1>1, <1>4 DEF ReportType, ReadAlso
<1>6. ReportType'
  <2>1. report' \in [view : Views \cup {"none"}, read : SUBSET (Branch \cup {"products", "stock", "overrides"}),
                 minimum : Minimums \cup {<<>>}, override : Overrides \cup {<<>>},
                 total : [Good -> Nat] \cup {<<>>}, low : SUBSET Good]
    BY <1>1, <1>4, Zenon DEF ReportType, ReadAlso
  <2> QED
    BY <1>1, <1>2, <1>4, <1>5, <2>1 DEF ReportType, Open
<1>7. Under(report.view)' = Under(report.view)
  BY <1>2, <1>5 DEF Under, UnderWhole, UnderOverride, MinimumIn
<1>8. Products(Under(report.view))' = Products(Under(report.view))
  BY <1>7 DEF Products
<1>9. \A g \in steady : LimitIn(g, report.view)' = LimitIn(g, report.view)
  BY <1>2, <1>5 DEF LimitIn, MinimumIn
<1>10. "overrides" \notin Branch
  BY RepAssumption
<1>11. FoundRight'
  BY <1>2, <1>4, <1>5, <1>7, <1>8, <1>9, <1>10 DEF FoundRight
<1> QED
  BY <1>3, <1>6, <1>11 DEF RepInv

LEMMA ReadStoreKeeps ==
  ASSUME RepInv, NEW b \in Branch, ReadStore(b)
  PROVE  RepInv'
<1>1. /\ UNCHANGED <<shop, events, watched>> /\ Open
      /\ report.view = Whole /\ "overrides" \in report.read
      /\ report' = [report EXCEPT !.read = ReadAlso(b), !.low = @ \cup UnderIn(b)]
  BY DEF ReadStore, Reading
<1>2. UNCHANGED <<day, sold, last, stock, minimum, override, events, always, once, steady>>
  BY <1>1 DEF shop, watched
<1>3. ShopType' /\ SalesSeen'
  BY <1>2 DEF RepInv, ShopType, SalesSeen
<1>4. ReportType /\ FoundRight /\ override \in Overrides /\ Whole \in Views
  BY <1>1 DEF RepInv, ShopType, Views
<1>5. /\ report'.view = Whole /\ report'.read = report.read \cup {b}
      /\ report'.minimum = report.minimum /\ report'.override = report.override
      /\ report'.low = report.low \cup UnderIn(b) /\ report'.total = report.total
  BY <1>1, <1>4 DEF ReportType, ReadAlso
<1>6. b \notin {"stock", "overrides", "none"}
  BY RepAssumption
<1>7. ReportType'
  <2>1. UnderIn(b) \subseteq Good
    BY DEF UnderIn
  <2>2. report' \in [view : Views \cup {"none"}, read : SUBSET (Branch \cup {"products", "stock", "overrides"}),
                 minimum : Minimums \cup {<<>>}, override : Overrides \cup {<<>>},
                 total : [Good -> Nat] \cup {<<>>}, low : SUBSET Good]
    BY <1>1, <1>4, <2>1, Zenon DEF ReportType, ReadAlso
  <2> QED
    BY <1>1, <1>2, <1>4, <1>5, <1>6, <2>2 DEF ReportType, Open, Whole
<1>8. Under(report.view)' = Under(report.view)
  BY <1>1, <1>2, <1>5 DEF Under, UnderWhole, UnderOverride, MinimumIn
<1>9. Products(Under(report.view))' = Products(Under(report.view))
  BY <1>8 DEF Products
<1>10. \A g \in steady : LimitIn(g, report.view)' = LimitIn(g, report.view)
  BY <1>1, <1>2, <1>5 DEF LimitIn, MinimumIn
(* What the statement finds is what belongs on the list by this store.     *)
<1>11. ASSUME NEW g \in steady PROVE g \in UnderIn(b) <=> <<g, b>> \in Under(Whole)
  <2>1. g \in Good /\ report.override[g] = override[g]
    BY <1>1, <1>4 DEF RepInv, ShopType, FoundRight
  <2>2. stock[g][b] \in Nat
    BY <2>1 DEF RepInv, ShopType
  <2>3. <<g, b>> \in Under(Whole) <=> UnderOverride(g, b)
    BY <1>4, <2>1, UnderWays
  <2>4. override[g][b] \in Nat \cup {NoOverride}
    BY <1>4, <2>1, RepAssumption DEF Overrides
  <2>5. UnderOverride(g, b) <=> override[g][b] > stock[g][b]
    <3>1. CASE override[g][b] = NoOverride
      BY <2>2, <3>1 DEF UnderOverride, NoOverride
    <3>2. CASE override[g][b] # NoOverride
      BY <2>2, <2>4, <3>2 DEF UnderOverride, NoOverride
    <3> QED
      BY <3>1, <3>2
  <2>6. g \in UnderIn(b) <=> report.override[g][b] > stock[g][b]
    BY <2>1 DEF UnderIn
  <2> QED
    BY <2>1, <2>3, <2>5, <2>6
<1>12. \A g : <<g, b>> \in Under(Whole) => g \in Products(Under(Whole))
  BY <1>4, UnderWays
<1>13. FoundRight'
  <2>1. ASSUME NEW c \in Branch \cap (report.read \cup {b}), NEW g \in steady, <<g, c>> \in always
        PROVE  g \in report.low \cup UnderIn(b)
    <3>1. CASE c = b
      BY <1>1, <1>4, <1>11, <2>1, <3>1 DEF FoundRight
    <3>2. CASE c # b
      BY <1>1, <1>4, <2>1, <3>2 DEF FoundRight
    <3> QED
      BY <3>1, <3>2
  <2>2. (report.low \cup UnderIn(b)) \cap steady \subseteq once
    BY <1>1, <1>4, <1>11, <1>12 DEF FoundRight
  <2> HIDE DEF UnderIn
  <2> QED
    BY <1>1, <1>2, <1>4, <1>5, <1>6, <1>8, <1>9, <1>10, <2>1, <2>2 DEF FoundRight
<1> QED
  BY <1>3, <1>7, <1>13 DEF RepInv

LEMMA EnterKeeps ==
  ASSUME RepInv, NEW g \in Good, NEW b \in Branch, Enter(g, b)
  PROVE  RepInv'
<1>1. /\ UNCHANGED <<day, sold, minimum, override, steady>> /\ report' = report /\ Watch
      /\ stock' = [stock EXCEPT ![g][b] = @ + 1] /\ last' = [last EXCEPT ![g][b] = day]
      /\ events < MaxEvents /\ events' = events + 1
  BY DEF Enter, Event
<1>2. ShopType /\ MaxDay \in Nat /\ MaxEvents \in Nat
  BY RepAssumption DEF RepInv
<1>3. ShopType'
  <2>1. stock' \in [Good -> [Branch -> Nat]] /\ day \in 0 .. day
    BY <1>1, <1>2 DEF ShopType
  <2>2. last' \in [Good -> [Branch -> {Never} \cup (0 .. day)]]
    BY <1>1, <1>2, <2>1 DEF ShopType
  <2>3. events' \in 0 .. MaxEvents /\ minimum' \in Minimums /\ override' \in Overrides
        /\ steady' \subseteq Good /\ day' \in 0 .. MaxDay
    BY <1>1, <1>2 DEF ShopType
  <2>4. /\ last' \in [Good -> [Branch -> {Never} \cup (0 .. day')]]
        /\ sold' \in [Good -> [Branch -> [0 .. MaxDay -> Nat]]]
    BY <1>1, <1>2, <2>2 DEF ShopType
  <2> QED
    BY <2>1, <2>3, <2>4 DEF ShopType
<1>4. SalesSeen'
  <2> SUFFICES ASSUME NEW h \in Good, NEW c \in Branch, NEW d \in 0 .. MaxDay, sold[h][c][d] > 0
               PROVE  d <= last'[h][c]
    BY <1>1 DEF SalesSeen
  <2>1. d <= last[h][c]
    BY DEF RepInv, SalesSeen
  <2>2. CASE h = g /\ c = b
    <3>1. last'[h][c] = day
      BY <1>1, <1>2, <2>2 DEF ShopType
    <3>2. last[h][c] \in {Never} \cup (0 .. day)
      BY <1>2 DEF ShopType
    <3>3. day \in Int /\ d \in Int /\ d >= 0
      BY <1>2 DEF ShopType
    <3> QED
      BY <2>1, <3>1, <3>2, <3>3 DEF Never
  <2>3. CASE ~(h = g /\ c = b)
    BY <1>1, <1>2, <2>1, <2>3 DEF ShopType
  <2> QED
    BY <2>2, <2>3
<1>5. ReportType' /\ (Open => FoundRight)'
  BY <1>1, <1>3, WatchKeeps
<1> QED
  BY <1>3, <1>4, <1>5 DEF RepInv

LEMMA SellKeeps ==
  ASSUME RepInv, NEW g \in Good, NEW b \in Branch, NEW n \in 1 .. 2, NEW d \in 0 .. MaxDay,
         Sell(g, b, n, d)
  PROVE  RepInv'
<1>1. /\ UNCHANGED <<day, minimum, override, steady>> /\ report' = report /\ Watch
      /\ d <= day /\ stock[g][b] >= n
      /\ stock' = [stock EXCEPT ![g][b] = @ - n] /\ last' = [last EXCEPT ![g][b] = day]
      /\ sold' = [sold EXCEPT ![g][b][d] = @ + n]
      /\ events < MaxEvents /\ events' = events + 1
  BY DEF Sell, Event
<1>2. ShopType /\ MaxDay \in Nat /\ MaxEvents \in Nat
  BY RepAssumption DEF RepInv
<1>3. ShopType'
  <2>1. stock[g][b] - n \in Nat /\ day \in 0 .. day /\ sold[g][b][d] + n \in Nat
    BY <1>1, <1>2 DEF ShopType
  <2>2. stock' \in [Good -> [Branch -> Nat]]
    BY <1>1, <1>2, <2>1 DEF ShopType
  <2>3. last' \in [Good -> [Branch -> {Never} \cup (0 .. day)]]
    BY <1>1, <1>2, <2>1 DEF ShopType
  <2>4. sold' \in [Good -> [Branch -> [0 .. MaxDay -> Nat]]]
    <3>1. sold \in [Good -> [Branch -> [0 .. MaxDay -> Nat]]]
      BY <1>2 DEF ShopType
    <3>2. [sold[g][b] EXCEPT ![d] = sold[g][b][d] + n] \in [0 .. MaxDay -> Nat]
      BY <2>1, <3>1
    <3> DEFINE inner == [sold[g][b] EXCEPT ![d] = sold[g][b][d] + n]
    <3>3. sold' = [sold EXCEPT ![g] = [sold[g] EXCEPT ![b] = inner]]
      BY <1>1, <3>1
    <3>4. inner \in [0 .. MaxDay -> Nat]
      BY <3>2
    <3> HIDE DEF inner
    <3>5. [sold[g] EXCEPT ![b] = inner] \in [Branch -> [0 .. MaxDay -> Nat]]
      BY <3>1, <3>4
    <3> QED
      BY <3>1, <3>3, <3>5
  <2>5. events' \in 0 .. MaxEvents /\ minimum' \in Minimums /\ override' \in Overrides
        /\ steady' \subseteq Good /\ day' \in 0 .. MaxDay
    BY <1>1, <1>2 DEF ShopType
  <2>6. last' \in [Good -> [Branch -> {Never} \cup (0 .. day')]]
    BY <1>1, <2>3
  <2> QED
    BY <2>2, <2>4, <2>5, <2>6 DEF ShopType
<1>4. SalesSeen'
  <2> SUFFICES ASSUME NEW h \in Good, NEW c \in Branch, NEW e \in 0 .. MaxDay, sold'[h][c][e] > 0
               PROVE  e <= last'[h][c]
    BY <1>1 DEF SalesSeen
  <2>1. last[h][c] \in {Never} \cup (0 .. day) /\ day \in Nat
    BY <1>2 DEF ShopType
  <2>2. CASE h = g /\ c = b
    <3>1. last'[h][c] = day
      BY <1>1, <1>2, <2>2 DEF ShopType
    <3>2. CASE e = d
      BY <1>1, <3>1, <3>2
    <3>3. CASE e # d
      <4>1. sold'[h][c][e] = sold[h][c][e]
        BY <1>1, <1>2, <2>2, <3>3 DEF ShopType
      <4>2. e <= last[h][c]
        BY <4>1 DEF RepInv, SalesSeen
      <4> QED
        BY <2>1, <3>1, <4>2 DEF Never
    <3> QED
      BY <3>2, <3>3
  <2>3. CASE ~(h = g /\ c = b)
    <3>1. sold'[h][c][e] = sold[h][c][e] /\ last'[h][c] = last[h][c]
      BY <1>1, <1>2, <2>3 DEF ShopType
    <3> QED
      BY <3>1 DEF RepInv, SalesSeen
  <2> QED
    BY <2>2, <2>3
<1>5. ReportType' /\ (Open => FoundRight)'
  BY <1>1, <1>3, WatchKeeps
<1> QED
  BY <1>3, <1>4, <1>5 DEF RepInv

LEMMA SetMinimumKeeps ==
  ASSUME RepInv, NEW g \in Good, NEW m \in Minima, SetMinimum(g, m)
  PROVE  RepInv'
<1>1. /\ UNCHANGED <<day, sold, last, stock, override>> /\ report' = report /\ Watch
      /\ minimum' = [minimum EXCEPT ![g] = m] /\ steady' = steady \ {g}
      /\ events < MaxEvents /\ events' = events + 1
  BY DEF SetMinimum, Event
<1>2. ShopType /\ MaxEvents \in Nat
  BY RepAssumption DEF RepInv
<1>3. ShopType' /\ SalesSeen'
  BY <1>1, <1>2 DEF RepInv, ShopType, SalesSeen, Minimums
<1>4. \A h \in steady' : minimum'[h] = minimum[h] /\ override'[h] = override[h]
  BY <1>1, <1>2 DEF ShopType, Minimums
<1>5. ReportType' /\ (Open => FoundRight)'
  BY <1>1, <1>3, <1>4, WatchKeeps
<1> QED
  BY <1>3, <1>5 DEF RepInv

LEMMA SetOverrideKeeps ==
  ASSUME RepInv, NEW g \in Good, NEW b \in Branch, NEW m \in Minima \cup {NoOverride},
         SetOverride(g, b, m)
  PROVE  RepInv'
<1>1. /\ UNCHANGED <<day, sold, last, stock, minimum>> /\ report' = report /\ Watch
      /\ override' = [override EXCEPT ![g][b] = m] /\ steady' = steady \ {g}
      /\ events < MaxEvents /\ events' = events + 1
  BY DEF SetOverride, Event
<1>2. ShopType /\ MaxEvents \in Nat
  BY RepAssumption DEF RepInv
<1>3. ShopType' /\ SalesSeen'
  BY <1>1, <1>2 DEF RepInv, ShopType, SalesSeen, Overrides
<1>4. \A h \in steady' : minimum'[h] = minimum[h] /\ override'[h] = override[h]
  BY <1>1, <1>2 DEF ShopType, Overrides
<1>5. ReportType' /\ (Open => FoundRight)'
  BY <1>1, <1>3, <1>4, WatchKeeps
<1> QED
  BY <1>3, <1>5 DEF RepInv

LEMMA RepUnchanged ==
  ASSUME RepInv, UNCHANGED <<sold, last, stock, minimum, override, report, events, watched>>,
         day' = day \/ (day < MaxDay /\ day' = day + 1)
  PROVE  RepInv'
<1>1. ShopType /\ MaxDay \in Nat
  BY RepAssumption DEF RepInv
<1>2. day' \in 0 .. MaxDay /\ 0 .. day \subseteq 0 .. day'
  BY <1>1 DEF ShopType
<1>3. ShopType' /\ SalesSeen'
  BY <1>1, <1>2 DEF RepInv, ShopType, SalesSeen, watched
<1>4. ReportType' /\ (Open => FoundRight)'
  BY DEF RepInv, ReportType, Open, FoundRight, Under, UnderWhole, UnderOverride, MinimumIn, LimitIn,
         Products, watched
<1> QED
  BY <1>3, <1>4 DEF RepInv

LEMMA RepStep == RepInv /\ [RepNext]_repVars => RepInv'
<1> SUFFICES ASSUME RepInv, [RepNext]_repVars PROVE RepInv'
  OBVIOUS
<1>1. ASSUME NEW which \in Views, OpenReport(which) PROVE RepInv'
  BY <1>1, OpenReportKeeps
<1>2. CASE ReadStock
  BY <1>2, ReadStockKeeps
<1>3. CASE ReadOverrides
  BY <1>3, ReadOverridesKeeps
<1>4. ASSUME NEW b \in Branch, ReadStore(b) PROVE RepInv'
  BY <1>4, ReadStoreKeeps
<1>5. ASSUME NEW g \in Good, NEW b \in Branch, Enter(g, b) PROVE RepInv'
  BY <1>5, EnterKeeps
<1>6. ASSUME NEW g \in Good, NEW b \in Branch, NEW n \in 1 .. 2, NEW d \in 0 .. MaxDay,
             Sell(g, b, n, d) PROVE RepInv'
  BY <1>6, SellKeeps
<1>7. ASSUME NEW g \in Good, NEW b \in Branch, NEW m \in Minima \cup {NoOverride},
             SetOverride(g, b, m) PROVE RepInv'
  BY <1>7, SetOverrideKeeps
<1>8. ASSUME NEW g \in Good, NEW m \in Minima, SetMinimum(g, m) PROVE RepInv'
  BY <1>8, SetMinimumKeeps
<1>9. CASE NextDay
  BY <1>9, RepUnchanged DEF NextDay
<1>10. CASE UNCHANGED repVars
  BY <1>10, RepUnchanged DEF repVars, shop
<1> QED
  BY <1>1, <1>2, <1>3, <1>4, <1>5, <1>6, <1>7, <1>8, <1>9, <1>10 DEF RepNext, Views

LEMMA RepInvariant == RepSpec => []RepInv
BY RepInitial, RepStep, PTL DEF RepSpec

(* The dashboard's state is well formed.                                   *)
THEOREM RepTypeCorrect == RepSpec => []RepTypeOK
<1>1. RepInv => RepTypeOK
  <2> SUFFICES ASSUME RepInv PROVE RepTypeOK
    OBVIOUS
  <2>1. report.low \subseteq Good
    BY DEF RepInv, ReportType
  <2>2. once \subseteq Good /\ always \subseteq Good \X (Branch \cup {Whole})
    <3>1. CASE Open
      <4>1. report.view \in Views
        BY <3>1 DEF RepInv, ReportType, Open
      <4>2. Under(report.view) \subseteq Good \X Views
        BY <4>1, UnderWays
      <4> QED
        BY <3>1, <4>2 DEF RepInv, FoundRight, Views
    <3>2. CASE ~Open
      BY <3>2 DEF RepInv, ReportType
    <3> QED
      BY <3>1, <3>2
  <2> QED
    BY <2>1, <2>2 DEF RepInv, ShopType, RepTypeOK, Minimums, Overrides
<1> QED
  BY <1>1, RepInvariant, PTL

(* The list of the products under their minimum, made of statements that   *)
(* see the stock at different times, is right for the products whose       *)
(* minima stay (listLowStockAlerts).                                       *)
LEMMA ListRight == RepInv => ListIsRight
<1> SUFFICES ASSUME RepInv, ListMade PROVE /\ Products(always) \cap steady \subseteq Listed
                                           /\ Listed \cap steady \subseteq once
  BY DEF ListIsRight
<1>1. Open /\ FoundRight /\ report.view \in Views /\ {"stock", "overrides"} \subseteq report.read
  BY DEF ListMade, RepInv, ReportType, NoReport, Open
<1>2. ASSUME NEW g \in steady
      PROVE  g \in Good /\ MinStock(g) = LimitIn(g, report.view)
  <2>1. g \in Good /\ report.override[g] = override[g] /\ report.minimum[g] = minimum[g]
    BY <1>1 DEF RepInv, ShopType, FoundRight
  <2> QED
    BY <2>1 DEF MinStock, LimitIn, MinimumIn
<1>3. ASSUME NEW g \in steady, g \in Products(always) PROVE g \in Listed
  <2>1. PICK p \in always : p[1] = g
    BY <1>3 DEF Products
  <2>2. p \in Under(report.view)
    BY <1>1, <2>1 DEF FoundRight
  <2>3. (p = <<g, report.view>>) \/ (report.view = Whole /\ \E b \in Branch : p = <<g, b>>)
    BY <2>1, <2>2 DEF Under
  <2>4. CASE p = <<g, report.view>>
    BY <1>1, <1>2, <2>1, <2>4 DEF FoundRight, Listed
  <2>5. ASSUME report.view = Whole, NEW b \in Branch, p = <<g, b>> PROVE g \in report.low
    BY <1>1, <2>1, <2>5 DEF FoundRight, ListMade
  <2> QED
    BY <2>3, <2>4, <2>5 DEF Listed
<1>4. ASSUME NEW g \in steady, g \in Listed PROVE g \in once
  BY <1>1, <1>2, <1>4 DEF FoundRight, Listed
<1> QED
  BY <1>3, <1>4

(* A finite set of numbers has a greatest one.                             *)
LEMMA GreatestOf ==
  ASSUME NEW S, IsFiniteSet(S), \A x \in S : x \in Int, S # {}
  PROVE  \E m \in S : \A x \in S : x <= m
<1> DEFINE neg == [x \in S |-> -x]
<1> DEFINE N == {neg[x] : x \in S}
<1>1. IsFiniteSet(N)
  <2> HIDE DEF neg
  <2> QED
    BY ImageFinite
<1>2. N # {} /\ \A y \in N : y \in Int
  OBVIOUS
<1>3. PICK n \in N : \A y \in N : n <= y
  <2> HIDE DEF N
  <2> QED
    BY <1>1, <1>2, LeastOf
<1>4. PICK m \in S : n = -m
  OBVIOUS
<1>5. ASSUME NEW x \in S PROVE x <= m
  <2>1. -x \in N /\ x \in Int /\ m \in Int
    OBVIOUS
  <2> QED
    BY <1>3, <1>4, <2>1
<1> QED
  BY <1>5

LEMMA LastBounds ==
  ASSUME RepInv, NEW g \in Good, NEW which \in Views
  PROVE  /\ StoresOf(which) \subseteq Branch
         /\ \A b \in StoresOf(which) : last[g][b] \in Int /\ Never <= last[g][b] /\ last[g][b] <= LastIn(g, which)
         /\ which # Whole => LastIn(g, which) = last[g][which]
<1>1. StoresOf(which) \subseteq Branch /\ IsFiniteSet(Branch)
  BY RepAssumption DEF StoresOf, Views
<1>2. \A b \in Branch : last[g][b] \in Int /\ Never <= last[g][b]
  BY RepAssumption DEF RepInv, ShopType, Never
<1>3. ASSUME NEW b \in StoresOf(which) PROVE last[g][b] <= LastIn(g, which)
  <2> DEFINE L == {last[g][c] : c \in StoresOf(which)}
  <2>1. IsFiniteSet(StoresOf(which))
    BY <1>1, FS_Subset
  <2>2. IsFiniteSet(L)
    BY <2>1, ImageFinite
  <2>3. last[g][b] \in L /\ \A x \in L : x \in Int
    BY <1>1, <1>2, <1>3
  <2> HIDE DEF L
  <2>4. PICK m \in L : \A x \in L : x <= m
    BY <2>2, <2>3, GreatestOf
  <2>5. Max(L) \in L /\ \A x \in L : Max(L) >= x
    BY <2>3, <2>4 DEF Max
  <2> QED
    BY <2>3, <2>5 DEF LastIn, L
<1>4. ASSUME which # Whole PROVE LastIn(g, which) = last[g][which]
  <2>1. StoresOf(which) = {which} /\ which \in Branch
    BY <1>4 DEF StoresOf, Views
  <2>2. LastIn(g, which) = Max({last[g][which]})
    BY <2>1 DEF LastIn
  <2>3. last[g][which] >= last[g][which]
    BY <1>2, <2>1
  <2> QED
    BY <2>2, <2>3 DEF Max
<1> QED
  BY <1>1, <1>2, <1>3, <1>4

LEMMA SoldNumbers ==
  ASSUME RepInv, NEW g \in Good, NEW D \in SUBSET (0 .. MaxDay)
  PROVE  \A b \in Branch : SoldOn(g, b, D) \in Nat
<1> TAKE b \in Branch
<1>1. IsFiniteSet(0 .. MaxDay)
  <2>1. MaxDay \in Nat
    BY RepAssumption
  <2> QED
    BY <2>1, FS_Interval
<1>2. \A d \in 0 .. MaxDay : sold[g][b][d] \in Nat
  <2>1. sold[g] \in [Branch -> [0 .. MaxDay -> Nat]]
    BY DEF RepInv, ShopType
  <2>2. sold[g][b] \in [0 .. MaxDay -> Nat]
    BY <2>1
  <2> QED
    BY <2>2
<1> QED
  BY <1>1, <1>2, SumOfPart DEF SoldOn

LEMMA SoldInType ==
  ASSUME RepInv, NEW g \in Good, NEW which \in Views, NEW D \in SUBSET (0 .. MaxDay)
  PROVE  SoldIn(g, which, D) \in Nat
<1> DEFINE f == [b \in Branch |-> SoldOn(g, b, D)]
<1>1. IsFiniteSet(Branch) /\ StoresOf(which) \subseteq Branch
  BY RepAssumption DEF StoresOf, Views
<1>2. \A b \in Branch : f[b] \in Nat
  BY SoldNumbers
<1>3. SoldIn(g, which, D) = SumFunctionOnSet(f, StoresOf(which))
  BY DEF SoldIn
<1> HIDE DEF f
<1> QED
  BY <1>1, <1>2, <1>3, SumOfPart

(* A product shown as stalled: no movement since means no sale since, for  *)
(* a sale is dated on or before the day of its movement.                   *)
LEMMA StalledUnsold == RepInv => StalledIsUnsold
<1> SUFFICES ASSUME RepInv, NEW g \in Good, NEW which \in Views, IsStalled(g, which)
             PROVE  /\ SoldIn(g, which, {d \in 0 .. MaxDay : d >= day - StalledDays}) = 0
                    /\ which = Whole => \A b \in Branch : IsStalled(g, b)
  BY DEF StalledIsUnsold, Views
<1>1. day \in Nat /\ StalledDays \in Nat /\ Never = -1
  BY RepAssumption DEF RepInv, ShopType, Never
<1>2. ASSUME NEW b \in StoresOf(which)
      PROVE  b \in Branch /\ last[g][b] \in Int
             /\ (last[g][b] = Never \/ last[g][b] < day - StalledDays)
  <2>1. b \in Branch /\ last[g][b] \in Int /\ Never <= last[g][b] /\ last[g][b] <= LastIn(g, which)
    BY LastBounds
  <2>2. CASE LastIn(g, which) = Never
    BY <1>1, <2>1, <2>2
  <2>3. CASE LastIn(g, which) < day - StalledDays /\ LastIn(g, which) \in Int
    BY <1>1, <2>1, <2>3
  <2>4. LastIn(g, which) \in Int
    <3> DEFINE L == {last[g][c] : c \in StoresOf(which)}
    <3>1. L # {} /\ (\A x \in L : x \in Int) /\ IsFiniteSet(StoresOf(which))
      BY LastBounds, RepAssumption, FS_Subset
    <3>2. IsFiniteSet(L)
      BY <3>1, ImageFinite
    <3> HIDE DEF L
    <3>3. PICK m \in L : \A x \in L : x <= m
      BY <3>1, <3>2, GreatestOf
    <3>4. Max(L) \in L
      BY <3>1, <3>3 DEF Max
    <3> QED
      BY <3>1, <3>4 DEF LastIn, L
  <2> QED
    BY <2>1, <2>2, <2>3, <2>4 DEF IsStalled
<1> DEFINE D == {d \in 0 .. MaxDay : d >= day - StalledDays}
<1>3. ASSUME NEW b \in StoresOf(which), NEW d \in D PROVE sold[g][b][d] = 0
  <2>1. sold[g][b][d] \in Nat
    <3>1. sold[g] \in [Branch -> [0 .. MaxDay -> Nat]] /\ b \in Branch /\ d \in 0 .. MaxDay
      BY <1>2 DEF RepInv, ShopType
    <3>2. sold[g][b] \in [0 .. MaxDay -> Nat]
      BY <3>1
    <3> QED
      BY <3>1, <3>2
  <2>2. sold[g][b][d] > 0 => d <= last[g][b]
    BY <1>2 DEF RepInv, SalesSeen
  <2>3. d \in Nat /\ d >= day - StalledDays
    BY RepAssumption
  <2> QED
    BY <1>1, <1>2, <2>1, <2>2, <2>3
<1>4. SoldIn(g, which, D) = 0
  <2>1. IsFiniteSet(0 .. MaxDay) /\ IsFiniteSet(Branch) /\ D \subseteq 0 .. MaxDay
    BY RepAssumption, FS_Interval
  <2>2. IsFiniteSet(D) /\ IsFiniteSet(StoresOf(which))
    BY <2>1, LastBounds, FS_Subset
  <2> HIDE DEF D
  <2>3. \A b \in StoresOf(which) : SoldOn(g, b, D) = 0
    BY <1>3, <2>2, SumOfZeros DEF SoldOn
  <2> DEFINE f == [b \in Branch |-> SoldOn(g, b, D)]
  <2>4. \A b \in StoresOf(which) : f[b] = 0
    BY <1>2, <2>3
  <2>5. SoldIn(g, which, D) = SumFunctionOnSet(f, StoresOf(which))
    BY DEF SoldIn
  <2> HIDE DEF f
  <2> QED
    BY <2>2, <2>4, <2>5, SumOfZeros
<1>5. ASSUME which = Whole, NEW b \in Branch PROVE IsStalled(g, b)
  <2>1. b \in StoresOf(which) /\ b \in Views /\ b # Whole
    BY <1>5, RepAssumption DEF StoresOf, Views, Whole
  <2>2. LastIn(g, b) = last[g][b]
    BY <2>1, LastBounds
  <2> QED
    BY <1>2, <2>1, <2>2 DEF IsStalled
<1> QED
  BY <1>4, <1>5

--------------------------------------------------------------------------------
(* The curve of the products.                                              *)

(* A curve goes through every product once, and what it has taken up to a  *)
(* place is the worth of the products up to it.                            *)
LEMMA CurveFacts ==
  ASSUME NEW D, IsFiniteSet(D), NEW value \in [D -> Nat], NEW c \in Curves(value)
  PROVE  /\ Cardinality(D) \in Nat /\ c \in [1 .. Cardinality(D) -> D]
         /\ IsInjective(c) /\ \A g \in D : \E i \in 1 .. Cardinality(D) : c[i] = g
         /\ \A n \in 0 .. Cardinality(D) :
              /\ Cumulative(value, c, n) \in Nat
              /\ Cumulative(value, c, n) = SumFunctionOnSet(value, {c[i] : i \in 1 .. n})
              /\ \A m \in 0 .. n : Cumulative(value, c, m) <= Cumulative(value, c, n)
         /\ Cumulative(value, c, 0) = 0
         /\ Cumulative(value, c, Cardinality(D)) = Total(value)
<1> DEFINE N == Cardinality(D)
<1>1. N \in Nat /\ DOMAIN value = D
  BY FS_CardinalityType
<1>2. c \in [1 .. N -> D] /\ IsInjective(c)
  BY <1>1 DEF Curves
<1>3. \A g \in D : \E i \in 1 .. N : c[i] = g
  <2>1. Cardinality(1 .. N) = N
    BY <1>1, FS_Interval
  <2>2. c \in Injection(1 .. N, D)
    BY <1>2 DEF Injection
  <2>3. c \in Surjection(1 .. N, D)
    BY <2>1, <2>2, FS_Injection
  <2> QED
    BY <2>3 DEF Surjection
<1> DEFINE w == [i \in 1 .. N |-> value[c[i]]]
<1>4. \A i \in 1 .. N : w[i] \in Nat /\ c[i] \in D /\ value[c[i]] \in Nat
  BY <1>2
<1>5. \A n : Cumulative(value, c, n) = SumFunctionOnSet(w, 1 .. n)
  BY <1>2 DEF Cumulative
<1>6. ASSUME NEW n \in 0 .. N
      PROVE  /\ Cumulative(value, c, n) \in Nat
             /\ Cumulative(value, c, n) = SumFunctionOnSet(value, {c[i] : i \in 1 .. n})
             /\ \A m \in 0 .. n : Cumulative(value, c, m) <= Cumulative(value, c, n)
  <2>1. 1 .. n \subseteq 1 .. N /\ IsFiniteSet(1 .. n)
    BY <1>1, FS_Interval
  <2>2. \A i \in 1 .. n : w[i] \in Nat
    BY <1>4, <2>1
  <2>3. ASSUME NEW m \in 0 .. n
        PROVE  SumFunctionOnSet(w, 1 .. m) \in Nat /\ SumFunctionOnSet(w, 1 .. m) <= SumFunctionOnSet(w, 1 .. n)
    <3>1. 1 .. m \subseteq 1 .. n
      BY <1>1
    <3> HIDE DEF w
    <3> QED
      BY <2>1, <2>2, <3>1, SumOfPart
  <2>4. SumFunctionOnSet(value, {c[i] : i \in 1 .. n}) = SumFunctionOnSet(w, 1 .. n)
    <3> DEFINE v == [i \in 1 .. n |-> value[c[i]]]
    <3>1. \A x, y \in 1 .. n : c[x] = c[y] => x = y
      BY <1>2, <2>1 DEF IsInjective
    <3>2. \A i \in 1 .. n : value[c[i]] \in Int
      BY <1>4, <2>1
    <3>3. SumFunctionOnSet(value, {c[i] : i \in 1 .. n}) = SumFunctionOnSet(v, 1 .. n)
      BY <2>1, <3>1, <3>2, SumOfImage
    <3>4. \A i \in 1 .. n : w[i] \in Int /\ v[i] = w[i]
      BY <2>1, <2>2
    <3>5. SumFunctionOnSet(v, 1 .. n) = SumFunctionOnSet(w, 1 .. n)
      <4> HIDE DEF v, w
      <4> QED
        BY <2>1, <3>4, SumSame
    <3> QED
      BY <3>3, <3>5
  <2>5. n \in 0 .. n
    BY <1>1
  <2> HIDE DEF w
  <2> QED
    BY <1>5, <2>3, <2>4, <2>5
<1>7. Cumulative(value, c, 0) = 0
  <2>1. 1 .. 0 = {}
    OBVIOUS
  <2> HIDE DEF w
  <2> QED
    BY <1>5, <2>1, SumEmpty
<1>8. Cumulative(value, c, N) = Total(value)
  <2>1. {c[i] : i \in 1 .. N} = D
    BY <1>2, <1>3
  <2>2. N \in 0 .. N
    BY <1>1
  <2> QED
    BY <1>1, <1>6, <2>1, <2>2 DEF Total, SumFunction
<1> QED
  BY <1>1, <1>2, <1>3, <1>6, <1>7, <1>8

(* The products before which less than the share has been taken reach the  *)
(* share, and do not reach it without the last of them.                    *)
LEMMA ShareReached ==
  ASSUME NEW D, IsFiniteSet(D), NEW value \in [D -> Nat], NEW c \in Curves(value),
         Total(value) > 0, NEW p \in {80, 95}, NEW J \in SUBSET DOMAIN c,
         \A j \in DOMAIN c : j \in J <=> Share(Before(value, c, j), p, Total(value))
  PROVE  Reaches(value, {c[i] : i \in J}, p)
<1> DEFINE N == Cardinality(D)
           Cum(n) == Cumulative(value, c, n)
           P == Total(value)
<1>0. J \subseteq DOMAIN c /\ \A j \in DOMAIN c : j \in J <=> Share(Cum(j - 1), p, P)
  BY DEF Before
<1>1. /\ N \in Nat /\ c \in [1 .. N -> D] /\ IsInjective(c)
      /\ \A n \in 0 .. N : /\ Cum(n) \in Nat
                           /\ Cum(n) = SumFunctionOnSet(value, {c[i] : i \in 1 .. n})
                           /\ \A m \in 0 .. n : Cum(m) <= Cum(n)
      /\ Cum(0) = 0 /\ Cum(N) = P
  BY CurveFacts
<1>2. P \in Nat /\ P > 0 /\ N > 0
  <2>1. P > 0
    OBVIOUS
  <2> HIDE DEF N, Cum, P
  <2>2. N \in 0 .. N
    BY <1>1
  <2>3. Cum(N) \in Nat
    BY <1>1, <2>2
  <2>4. N # 0
    BY <1>1, <2>1
  <2> QED
    BY <1>1, <2>1, <2>3, <2>4
<1> HIDE DEF N, Cum, P
<1>3. J \subseteq 1 .. N /\ 1 \in J /\ IsFiniteSet(J)
  <2>1. Share(Cum(1 - 1), p, P)
    BY <1>1, <1>2 DEF Share
  <2>2. 1 \in DOMAIN c /\ DOMAIN c = 1 .. N
    BY <1>1, <1>2
  <2>3. IsFiniteSet(1 .. N)
    BY <1>1, FS_Interval
  <2>4. J \subseteq 1 .. N
    BY <1>0, <2>2
  <2>5. 1 \in J
    BY <1>0, <2>1, <2>2
  <2>6. IsFiniteSet(J)
    BY <2>3, <2>4, FS_Subset
  <2> QED
    BY <2>4, <2>5, <2>6
<1>4. PICK k \in J : \A j \in J : j <= k
  <2>1. \A j \in J : j \in Int
    BY <1>3
  <2> QED
    BY <1>3, <2>1, GreatestOf
<1>5. k \in 1 .. N /\ k \in 0 .. N /\ k - 1 \in 0 .. N
  BY <1>1, <1>3
<1>6. J = 1 .. k
  <2>1. ASSUME NEW j \in 1 .. k PROVE j \in J
    <3>1. Cum(j - 1) <= Cum(k - 1) /\ Cum(j - 1) \in Nat /\ Cum(k - 1) \in Nat
      <4>1. j - 1 \in 0 .. (k - 1) /\ k - 1 \in 0 .. N /\ j - 1 \in 0 .. N
        BY <1>5, <1>1
      <4> QED
        BY <1>1, <4>1
    <3>2. Share(Cum(k - 1), p, P)
      BY <1>0, <1>4
    <3>3. Share(Cum(j - 1), p, P)
      BY <1>2, <3>1, <3>2 DEF Share
    <3>4. j \in DOMAIN c
      BY <1>1, <1>5
    <3> QED
      BY <1>0, <3>3, <3>4
  <2>2. ASSUME NEW j \in J PROVE j \in 1 .. k
    <3>1. j \in 1 .. N /\ j <= k
      BY <1>3, <1>4
    <3> QED
      BY <1>1, <1>5, <3>1
  <2> QED
    BY <2>1, <2>2
<1>7. ~Share(Cum(k), p, P)
  <2>1. CASE k = N
    <3>1. CASE p = 80
      BY <1>1, <1>2, <2>1, <3>1 DEF Share
    <3>2. CASE p = 95
      BY <1>1, <1>2, <2>1, <3>2 DEF Share
    <3> QED
      BY <3>1, <3>2
  <2>2. CASE k # N
    <3>1. k + 1 \in 1 .. N /\ ~(k + 1 <= k) /\ (k + 1) - 1 = k
      BY <1>1, <1>5, <2>2
    <3>2. k + 1 \notin J
      BY <1>4, <3>1
    <3>3. k + 1 \in DOMAIN c
      BY <1>1, <3>1
    <3> QED
      BY <1>0, <3>1, <3>2, <3>3
  <2> QED
    BY <2>1, <2>2
<1> DEFINE S == {c[i] : i \in J}
<1>8. SumFunctionOnSet(value, S) = Cum(k)
  <2>1. Cum(k) = SumFunctionOnSet(value, {c[i] : i \in 1 .. k})
    BY <1>1, <1>5
  <2> QED
    BY <1>6, <2>1
<1>9. c[k] \in S /\ SumFunctionOnSet(value, S \ {c[k]}) = Cum(k - 1)
  <2>1. S \ {c[k]} = {c[i] : i \in 1 .. (k - 1)}
    <3>1. \A i \in 1 .. k : c[i] = c[k] => i = k
      BY <1>1, <1>5 DEF IsInjective
    <3>2. 1 .. (k - 1) = (1 .. k) \ {k} /\ k \in 1 .. k
      BY <1>1, <1>5
    <3> QED
      BY <1>6, <3>1, <3>2
  <2>2. Cum(k - 1) = SumFunctionOnSet(value, {c[i] : i \in 1 .. (k - 1)})
    BY <1>1, <1>5
  <2>3. c[k] \in S
    BY <1>4
  <2> HIDE DEF S
  <2> QED
    BY <2>1, <2>2, <2>3
<1>10. Share(Cum(k - 1), p, P)
  BY <1>0, <1>4
<1> HIDE DEF S
<1>11. Reaches(value, S, p)
  <2>1. ~Share(SumFunctionOnSet(value, S), p, P)
    BY <1>7, <1>8, Zenon
  <2>2. Share(SumFunctionOnSet(value, S \ {c[k]}), p, P)
    BY <1>9, <1>10, Zenon
  <2> QED
    BY <1>9, <2>1, <2>2, Zenon DEF Reaches, P
<1> QED
  BY <1>11 DEF S

LEMMA MeasureType ==
  ASSUME RepInv, NEW metric \in {"revenue", "quantity"}, NEW which \in Views,
         NEW D \in SUBSET (0 .. MaxDay)
  PROVE  \E E \in SUBSET Good : Measure(metric, which, D) \in [E -> Nat]
<1> DEFINE E == {x \in Good : SoldIn(x, which, D) > 0}
<1>1. ASSUME NEW g \in E
      PROVE  SoldIn(g, which, D) * (IF metric = "revenue" THEN Price[g] ELSE 1) \in Nat
  <2>1. SoldIn(g, which, D) \in Nat
    BY SoldInType
  <2>2. (IF metric = "revenue" THEN Price[g] ELSE 1) \in Nat
    BY RepAssumption
  <2> DEFINE a == SoldIn(g, which, D)
             q == (IF metric = "revenue" THEN Price[g] ELSE 1)
  <2> HIDE DEF a, q
  <2>3. \A x, y \in Nat : x * y \in Nat
    OBVIOUS
  <2> QED
    BY <2>1, <2>2, <2>3 DEF a, q
<1>2. Measure(metric, which, D) \in [E -> Nat]
  BY <1>1 DEF Measure
<1> QED
  BY <1>2

LEMMA CurveReaches == RepInv => ClassesReach
<1> SUFFICES ASSUME RepInv, NEW metric \in {"revenue", "quantity"}, NEW which \in Views,
                    NEW from \in 0 .. day,
                    Total(Measure(metric, which, from .. day)) > 0,
                    NEW c \in Curves(Measure(metric, which, from .. day))
             PROVE  LET value == Measure(metric, which, from .. day)
                        InClass(K) == {c[i] : i \in {j \in DOMAIN c : Class(value, c, j) \in K}}
                    IN  Reaches(value, InClass({"A"}), 80) /\ Reaches(value, InClass({"A", "B"}), 95)
  BY Zenon DEF ClassesReach, Views
<1> DEFINE value == Measure(metric, which, from .. day)
           P == Total(value)
<1>1. from .. day \in SUBSET (0 .. MaxDay)
  BY RepAssumption DEF RepInv, ShopType
<1>2. PICK E \in SUBSET Good : value \in [E -> Nat]
  BY <1>1, MeasureType
<1>3. IsFiniteSet(E)
  <2>1. IsFiniteSet(Good)
    BY RepAssumption
  <2> QED
    BY <2>1, FS_Subset
<1> HIDE DEF value
<1>4. c \in Curves(value) /\ Total(value) > 0
  BY DEF value
<1>5. ASSUME NEW j \in DOMAIN c
      PROVE  /\ Class(value, c, j) \in {"A"} <=> Share(Before(value, c, j), 80, P)
             /\ Class(value, c, j) \in {"A", "B"} <=> Share(Before(value, c, j), 95, P)
  <2>1. Before(value, c, j) \in Nat /\ P \in Nat /\ P > 0
    <3>1. j \in 1 .. Cardinality(E) /\ Cardinality(E) \in Nat
      BY <1>2, <1>3, <1>4, CurveFacts
    <3>2. j - 1 \in 0 .. Cardinality(E) /\ Cardinality(E) \in 0 .. Cardinality(E)
      BY <3>1
    <3>3. Cumulative(value, c, j - 1) \in Nat /\ Cumulative(value, c, Cardinality(E)) \in Nat
      BY <1>2, <1>3, <1>4, <3>2, CurveFacts
    <3>4. Cumulative(value, c, Cardinality(E)) = Total(value)
      BY <1>2, <1>3, <1>4, CurveFacts
    <3> QED
      BY <1>4, <3>3, <3>4 DEF Before
  <2>2. Share(Before(value, c, j), 80, P) => Share(Before(value, c, j), 95, P)
    <3> HIDE DEF P
    <3> QED
      BY <2>1 DEF Share
  <2> HIDE DEF P
  <2> QED
    BY <2>1, <2>2 DEF Class, P
<1> DEFINE ClassA == {j \in DOMAIN c : Class(value, c, j) \in {"A"}}
           ClassesAB == {j \in DOMAIN c : Class(value, c, j) \in {"A", "B"}}
<1>6. /\ ClassA \in SUBSET DOMAIN c /\ ClassesAB \in SUBSET DOMAIN c
      /\ \A j \in DOMAIN c : j \in ClassA <=> Share(Before(value, c, j), 80, P)
      /\ \A j \in DOMAIN c : j \in ClassesAB <=> Share(Before(value, c, j), 95, P)
  BY <1>5, Zenon
<1> HIDE DEF ClassA, ClassesAB
<1>7. Reaches(value, {c[i] : i \in ClassA}, 80)
  BY <1>2, <1>3, <1>4, <1>6, ShareReached
<1>8. Reaches(value, {c[i] : i \in ClassesAB}, 95)
  BY <1>2, <1>3, <1>4, <1>6, ShareReached
<1> QED
  BY <1>7, <1>8, Zenon DEF value, ClassA, ClassesAB

(* What the cards of the dashboard say of the same stock and the same      *)
(* sales is right: the list of the products under their minimum, though it *)
(* is read in several statements (alerts.ts:20); the classes of the curve, *)
(* whichever of two equal products comes first (dashboard.ts:93); and the  *)
(* products shown as stalled, whatever day their sales were dated.         *)
THEOREM DashboardAgrees == RepSpec => []ReportsAgree
<1>1. RepInv => ReportsAgree
  BY ListRight, CurveReaches, StalledUnsold DEF ReportsAgree
<1> QED
  BY <1>1, RepInvariant, PTL
================================================================================

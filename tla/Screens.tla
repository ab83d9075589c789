-------------------------------- MODULE Screens --------------------------------
(***************************************************************************)
(* One page of the web interface in one tab: the forms it offers, the      *)
(* lists it shows, and what stands between the two - calls that are on     *)
(* their way, answers that come in any order, the cache of the queries     *)
(* (app/providers.tsx) and the polling.                                    *)
(*                                                                         *)
(* Every handler of src/app is one form below: how many calls it makes in  *)
(* a row, whether its button is shut meanwhile, and what it does when they *)
(* have been answered well.  What the server makes of a call is in the     *)
(* other modules; here the server only counts the forms it has carried out *)
(* to their last call, and a list that is read at some count shows them up *)
(* to that one.                                                            *)
(***************************************************************************)
EXTENDS Integers, Sequences, FiniteSets

CONSTANTS
  MaxSubmits,   \* times a form is submitted (bound)
  MaxOnTwo,     \* the same on a page that shows two lists (bound)
  MaxTroubles   \* calls and reads that are not answered well (bound)

ASSUME ScrAssumption == {MaxSubmits, MaxOnTwo, MaxTroubles} \subseteq Nat

--------------------------------------------------------------------------------
(* The forms.                                                              *)
(*   steps     calls that are made one after the other                     *)
(*   starts    the one it begins with: the first may not be needed         *)
(*   shut      the button is disabled from the click to the end            *)
(*   leaves    success pushes another page                                 *)
(*   reopens   the button is enabled again once the handler has returned   *)
(*   refreshes lists that success invalidates, one set after the other     *)
(*   waits     the handler returns only when they have been read again     *)
Form == [steps |-> 1, starts |-> {1}, shut |-> TRUE, leaves |-> FALSE, reopens |-> TRUE,
         refreshes |-> <<>>, waits |-> TRUE]
Refreshing(lists) == [Form EXCEPT !.refreshes = lists]
Leaving == [Form EXCEPT !.leaves = TRUE]

NewSale == Leaving
ManualEntry == Leaving
StockExit == Leaving
Transfer == Leaving
UploadNfe == [Leaving EXCEPT !.reopens = FALSE]
ConfirmNfe == Leaving
NewProduct == Leaving
AcceptInvite == [Leaving EXCEPT !.steps = 2]
LogIn == Leaving
LogInPlatform == Leaving
SignUp == [Form EXCEPT !.steps = 2]
FirstCheckout == Leaving

BulkCreate == Refreshing(<<{"nfe-import"}>>)
QuickCreate == [Refreshing(<<{"nfe-import"}>>) EXCEPT !.steps = 2, !.waits = FALSE]
RetryPix ==    \* saves the address first if there is none yet
  [Refreshing(<<{"subscription", "invoices"}>>) EXCEPT !.steps = 2, !.starts = {1, 2}]
SwitchPlan == [Refreshing(<<{"subscription"}>>) EXCEPT !.shut = FALSE]
NewStore == Refreshing(<<{"stores"}>>)
Invite == Refreshing(<<{"users"}>>)
Resend == [Form EXCEPT !.shut = FALSE]
ChangeRole == [Refreshing(<<{"users"}>>) EXCEPT !.shut = FALSE]
SavePin == Refreshing(<<{"manager-pin"}, {"manager-access"}>>)
RemovePin == Refreshing(<<{"manager-pin"}, {"manager-access"}>>)
FinanceLists == <<{"manager-access"}, {"dashboard"}>>
UnlockArea == Refreshing(FinanceLists)
LockArea == [Refreshing(FinanceLists) EXCEPT !.shut = FALSE]
NewCategory == Refreshing(<<{"categories"}>>)
NewSupplier == Refreshing(<<{"suppliers"}>>)
NewCustomer == Refreshing(<<{"customers"}>>)
EditProduct == \* saves the minimum of a store too if it was changed
  [Refreshing(<<{"product", "products", "alerts"}>>) EXCEPT !.steps = 2, !.starts = {1, 2}]
RemoveProduct == [Leaving EXCEPT !.shut = FALSE]
PrintLabels == Form
ImportCsv == Form

(* refresh of the platform's page is not waited for.                       *)
OfTenant == [Refreshing(<<{"platform-tenants"}>>) EXCEPT !.waits = FALSE]
NewTenant == OfTenant
TrialAction == OfTenant
AccessAction == OfTenant
TenantAction == OfTenant

--------------------------------------------------------------------------------
(* The pages: their forms, the lists that are mounted, and which of these  *)
(* are polled, as long as which list says that something is to come.       *)
Page(forms, lists) == [forms |-> forms, lists |-> lists, polls |-> [l \in {} |-> ""]]

LoginPage == Page([login |-> LogIn], {})
PlatformLoginPage == Page([login |-> LogInPlatform], {})
InvitePage == Page([accept |-> AcceptInvite], {})
SignUpPage == Page([company |-> SignUp, checkout |-> FirstCheckout], {})
SalePage == Page([sale |-> NewSale, customer |-> NewCustomer], {"customers"})
EntryPage == Page([entry |-> ManualEntry], {})
ExitPage == Page([exit |-> StockExit], {})
TransferPage == Page([transfer |-> Transfer], {})
UploadPage == Page([upload |-> UploadNfe], {})
ReviewPage ==
  [Page([confirm |-> ConfirmNfe, bulk |-> BulkCreate, quick |-> QuickCreate], {"nfe-import"})
     EXCEPT !.polls = [l \in {"nfe-import"} |-> l]]
NewProductPage == Page([product |-> NewProduct], {})
ProductPage == Page([edit |-> EditProduct, remove |-> RemoveProduct], {"product"})
ProductsPage == Page([labels |-> PrintLabels], {})
CsvPage == Page([import |-> ImportCsv], {})
CategoriesPage == Page([category |-> NewCategory], {"categories"})
SuppliersPage == Page([supplier |-> NewSupplier], {"suppliers"})
CustomersPage == Page([customer |-> NewCustomer], {"customers"})
StoresPage == Page([store |-> NewStore], {"stores"})
UsersPage == Page([invite |-> Invite, resend |-> Resend, role |-> ChangeRole], {"users"})
SecurityPage == Page([save |-> SavePin, remove |-> RemovePin], {"manager-pin"})
FinancePage == Page([unlock |-> UnlockArea, lock |-> LockArea], {"manager-access", "dashboard"})
TenantsPage == Page([new |-> NewTenant, trial |-> TrialAction, access |-> AccessAction,
                     tenant |-> TenantAction], {"platform-tenants"})
SubscriptionPage ==
  [Page([pix |-> RetryPix, plan |-> SwitchPlan], {"subscription", "invoices"})
     EXCEPT !.polls = [l \in {"subscription", "invoices"} |-> "subscription"]]

Pages == {LoginPage, PlatformLoginPage, InvitePage, SignUpPage, SalePage, EntryPage,
  ExitPage, TransferPage, UploadPage, ReviewPage, NewProductPage, ProductPage, ProductsPage,
  CsvPage, CategoriesPage, SuppliersPage, CustomersPage, StoresPage, UsersPage, SecurityPage,
  FinancePage, TenantsPage, SubscriptionPage}
List == UNION {p.lists : p \in Pages}
Unseen == -1

VARIABLES
  page,
  view,       \* here, leaving (pushed another page) or gone
  draft,      \* what each form holds, by number
  calls,      \* what has been submitted, in that order
  version,    \* writes the server has carried out
  ripe,       \* the one by which what is polled for has happened, 0 before
  seen,       \* the version each mounted list shows
  fetch,      \* where the reading of each list is
  invalid,    \* lists invalidated and not read since
  joined,     \* lists invalidated while they were read for the first time
  troubles

scrVars == <<page, view, draft, calls, version, ripe, seen, fetch, invalid, joined, troubles>>
lists == <<seen, fetch, invalid, joined>>

NoFetch == [at |-> "idle", of |-> 0]
Asked == [at |-> "asked", of |-> 0]

ScrInit ==
  /\ page \in Pages
  /\ view = "here"
  /\ draft = [f \in DOMAIN page.forms |-> 1]
  /\ calls = <<>>
  /\ version = 0 /\ ripe = 0
  /\ seen = [l \in page.lists |-> Unseen]
  /\ fetch = [l \in page.lists |-> Asked]
  /\ invalid = {} /\ joined = {}
  /\ troubles = 0

--------------------------------------------------------------------------------
(* The queries (react-query).                                              *)

(* invalidateQueries reads mounted lists again and drops the answer that   *)
(* is on its way, unless it is the first: that one is joined.              *)
First(l) == seen[l] = Unseen /\ fetch[l] # NoFetch
NothingDropped(ls) ==                                      \* mutated form
  fetch' = [l \in page.lists |-> IF l \in ls /\ fetch[l] = NoFetch THEN Asked ELSE fetch[l]]
ReadAgain(ls) ==
  fetch' = [l \in page.lists |-> IF l \in ls /\ ~First(l) THEN Asked ELSE fetch[l]]

Invalidate(ls) ==
  /\ ReadAgain(ls)
  /\ invalid' = invalid \cup (ls \cap page.lists)
  /\ joined' = joined \cup {l \in ls \cap page.lists : First(l)}
  /\ UNCHANGED seen

ReadList(l) ==
  /\ l \in page.lists /\ fetch[l] = Asked
  /\ fetch' = [fetch EXCEPT ![l] = [at |-> "read", of |-> version]]
  /\ UNCHANGED <<page, view, draft, calls, version, ripe, seen, invalid, joined, troubles>>

ShowList(l) ==
  /\ l \in page.lists /\ fetch[l].at = "read" /\ view # "gone"
  /\ seen' = [seen EXCEPT ![l] = fetch[l].of]
  /\ fetch' = [fetch EXCEPT ![l] = NoFetch]
  /\ invalid' = invalid \ {l}
  /\ UNCHANGED <<page, view, draft, calls, version, ripe, joined, troubles>>

(* Twice in a row (retry: 1).  What was shown stays.                       *)
ListFails(l) ==
  /\ troubles < MaxTroubles /\ troubles' = troubles + 1
  /\ l \in page.lists /\ fetch[l] = Asked
  /\ fetch' = [fetch EXCEPT ![l] = NoFetch]
  /\ UNCHANGED <<page, view, draft, calls, version, ripe, seen, invalid, joined>>

(* refetchInterval: without a first answer there is none.                  *)
FirstOnly(l) == seen[l] = 0                                \* mutated form
Waiting(l) == seen[l] # Unseen /\ (ripe = 0 \/ seen[l] < ripe)

Poll(l) ==
  /\ l \in DOMAIN page.polls /\ view # "gone"
  /\ fetch[l] = NoFetch /\ Waiting(page.polls[l])
  /\ fetch' = [fetch EXCEPT ![l] = Asked]
  /\ UNCHANGED <<page, view, draft, calls, version, ripe, seen, invalid, joined, troubles>>

(* The worker has parsed the file, or a webhook has confirmed the payment. *)
Ripen ==
  /\ DOMAIN page.polls # {} /\ ripe = 0
  /\ version' = version + 1 /\ ripe' = version'
  /\ UNCHANGED <<page, view, draft, calls, lists, troubles>>

--------------------------------------------------------------------------------
(* The forms' handlers.                                                    *)

FormOf(i) == page.forms[calls[i].form]
InHand(f, i) == calls[i].form = f /\ calls[i].at \in {"sent", "done", "refreshing", "kept"}
NeverShut(f) == TRUE                                       \* mutated form
CanSubmit(f) == page.forms[f].shut => ~\E i \in DOMAIN calls : InHand(f, i)

Submit(f) ==
  /\ view # "gone" /\ CanSubmit(f)
  /\ Len(calls) < IF Cardinality(page.lists) > 1 THEN MaxOnTwo ELSE MaxSubmits
  /\ \E s \in page.forms[f].starts :
       calls' = Append(calls, [form |-> f, draft |-> draft[f], step |-> s, at |-> "sent",
                               write |-> 0])
  /\ UNCHANGED <<page, view, draft, version, ripe, lists, troubles>>

(* The server carries the call out, whatever has become of the page.       *)
LastStep(i) == calls[i].step = FormOf(i).steps
Serve(i) ==
  /\ calls[i].at = "sent"
  /\ version' = IF LastStep(i) THEN version + 1 ELSE version
  /\ calls' = [calls EXCEPT ![i].at = "done", ![i].write = IF LastStep(i) THEN version' ELSE 0]
  /\ UNCHANGED <<page, view, draft, ripe, lists, troubles>>

(* Every handler returns on an error with its fields as they are.          *)
Refuse(i) ==
  /\ troubles < MaxTroubles /\ troubles' = troubles + 1
  /\ calls[i].at = "sent"
  /\ calls' = [calls EXCEPT ![i].at = "failed"]
  /\ UNCHANGED <<page, view, draft, version, ripe, lists>>

LoseAnswer(i) ==
  /\ troubles < MaxTroubles /\ troubles' = troubles + 1
  /\ calls[i].at = "done"
  /\ calls' = [calls EXCEPT ![i].at = "lost"]
  /\ UNCHANGED <<page, view, draft, version, ripe, lists>>

NextCall(i) ==
  /\ calls[i].at = "done" /\ ~LastStep(i)
  /\ calls' = [calls EXCEPT ![i].at = "sent", ![i].step = @ + 1]
  /\ UNCHANGED <<page, view, draft, version, ripe, lists, troubles>>

Answered(i) == calls[i].at = "done" /\ LastStep(i)

Push(i) ==
  /\ Answered(i) /\ FormOf(i).leaves
  /\ view' = IF view = "here" THEN "leaving" ELSE view
  /\ calls' = [calls EXCEPT ![i].at = IF FormOf(i).reopens THEN "over" ELSE "kept"]
  /\ UNCHANGED <<page, draft, version, ripe, lists, troubles>>

(* The form closes, is cleared or says that it is done.                    *)
Clear(i) ==
  /\ Answered(i) /\ ~FormOf(i).leaves
  /\ draft' = [draft EXCEPT ![calls[i].form] = @ + 1]
  /\ IF FormOf(i).refreshes = <<>>
       THEN calls' = [calls EXCEPT ![i].at = "over"] /\ UNCHANGED lists
       ELSE /\ calls' = [calls EXCEPT ![i].at = IF FormOf(i).waits THEN "refreshing" ELSE "over",
                                      ![i].step = 1]
            /\ Invalidate(FormOf(i).refreshes[1])
  /\ UNCHANGED <<page, view, version, ripe, troubles>>

Refreshed(i) ==
  /\ calls[i].at = "refreshing"
  /\ \A l \in FormOf(i).refreshes[calls[i].step] \cap page.lists : fetch[l] = NoFetch
  /\ IF calls[i].step = Len(FormOf(i).refreshes)
       THEN calls' = [calls EXCEPT ![i].at = "over"] /\ UNCHANGED lists
       ELSE /\ calls' = [calls EXCEPT ![i].step = @ + 1]
            /\ Invalidate(FormOf(i).refreshes[calls[i].step + 1])
  /\ UNCHANGED <<page, view, draft, version, ripe, troubles>>

(* The pushed page comes up, or the user goes elsewhere.                   *)
Navigate ==
  /\ view # "gone" /\ view' = "gone"
  /\ UNCHANGED <<page, draft, calls, version, ripe, lists, troubles>>

ScrNext ==
  \/ \E l \in List : ReadList(l) \/ ShowList(l) \/ ListFails(l) \/ Poll(l)
  \/ \E f \in DOMAIN page.forms : Submit(f)
  \/ \E i \in DOMAIN calls : \/ Serve(i) \/ Refuse(i) \/ LoseAnswer(i)
                             \/ NextCall(i) \/ Push(i) \/ Clear(i) \/ Refreshed(i)
  \/ Ripen \/ Navigate

(* A read comes back and the timer of the polling fires.                   *)
Awaited == {"nfe-import", "subscription"}
ScrFair ==
  \A l \in Awaited :
    WF_scrVars(ReadList(l)) /\ WF_scrVars(ShowList(l)) /\ WF_scrVars(Poll(l))

ScrSpec == ScrInit /\ [][ScrNext]_scrVars /\ ScrFair

--------------------------------------------------------------------------------
ScrTypeOK ==
  /\ page \in Pages /\ view \in {"here", "leaving", "gone"}
  /\ DOMAIN draft = DOMAIN page.forms /\ \A f \in DOMAIN draft : draft[f] \in Nat
  /\ Len(calls) <= MaxSubmits + MaxOnTwo
  /\ \A i \in DOMAIN calls :
       /\ calls[i].form \in DOMAIN page.forms /\ calls[i].draft \in 1 .. draft[calls[i].form]
       /\ calls[i].at \in {"sent", "done", "failed", "lost", "refreshing", "over", "kept"}
       /\ calls[i].write \in 0 .. version /\ calls[i].step \in 1 .. 2
  /\ version \in Nat /\ ripe \in 0 .. version
  /\ seen \in [page.lists -> Unseen .. version]
  /\ fetch \in [page.lists -> [at : {"idle", "asked", "read"}, of : 0 .. version]]
  /\ invalid \subseteq page.lists /\ joined \subseteq page.lists
  /\ troubles \in 0 .. MaxTroubles

(* What a form holds is written once, however fast it is submitted: a      *)
(* second click finds the button shut (components/ui/button.tsx:53) until  *)
(* the form has been cleared or closed.  A handler that pushes a page and  *)
(* then opens its button again leaves a gap (vendas/nova/page.tsx:106-116) *)
(* and one that never shuts it is none of this; and whoever submits again  *)
(* after an answer was lost writes again, as no call bears a key.          *)
Once(f) == page.forms[f].shut /\ ~(page.forms[f].leaves /\ page.forms[f].reopens)

WrittenOnce ==
  \A i, j \in DOMAIN calls :
    /\ i < j /\ Once(calls[i].form) /\ calls[i].at # "lost"
    /\ calls[i].form = calls[j].form /\ calls[i].draft = calls[j].draft
    => calls[i].write = 0 \/ calls[j].write = 0

(* Who has submitted a form that reads its lists again sees the own write  *)
(* on the page when everything has come back - an older answer that comes  *)
(* late does not cover it - unless reading failed or the list was still    *)
(* being read for the first time (categorias/page.tsx:33 and the others).  *)
ShowsOwnWrite ==
  \A i \in DOMAIN calls : \A l \in page.lists :
    /\ calls[i].at = "over" /\ fetch[l] = NoFetch
    /\ \E k \in DOMAIN FormOf(i).refreshes : l \in FormOf(i).refreshes[k]
    => seen[l] >= calls[i].write \/ l \in invalid \cup joined

(* A page that waits for the parse of a file or for a payment shows it in  *)
(* the end (nfe/[importId]/page.tsx:42, assinatura/page.tsx:50), once the  *)
(* list that tells it has been read at all.  The invoices follow the       *)
(* subscription's list and are no part of this (assinatura/page.tsx:58).   *)
Overdue(l) == l \in page.lists /\ ripe > 0 /\ seen[l] # Unseen /\ seen[l] < ripe
PollEnds == \A l \in Awaited : []<>(view = "gone" \/ ~Overdue(l))
================================================================================

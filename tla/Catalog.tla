-------------------------------- MODULE Catalog --------------------------------
(***************************************************************************)
(* What one tenant may have of products, stores and users, and how         *)
(* products come about:                                                    *)
(*                                                                         *)
(*   - the limits of the plan, counted by each request that creates        *)
(*     something and moved by a change of plan (libs/shared/plan-limits,   *)
(*     catalog/products.ts, auth/stores.ts, auth/invite.ts,                *)
(*     stock/nfe-import.ts, billing/subscriptions.ts);                     *)
(*   - the import of a CSV file, a job of the worker (csv-import.ts);      *)
(*   - labels, which give a product a barcode if it has none;              *)
(*   - edits and deletions, which keep the row.                            *)
(*                                                                         *)
(* A request reads the plan in one transaction, counts in a second one and *)
(* creates in that same one; nothing is locked, and under READ COMMITTED   *)
(* others commit between the statements.                                   *)
(***************************************************************************)
EXTENDS Integers, FiniteSets, Sequences

CONSTANTS
  Clerk,        \* requests of the tenant's users
  Sku,
  Barcode,
  NoCode,       \* a null sku or barcode
  Plan,
  Room,         \* maxProducts, maxStores, maxUsers of each plan
  File,         \* the rows of the CSV file, [sku, code]
  JobAttempts,  \* runs of a job before it fails for good
  MaxRequests,  \* requests that start (bound)
  MaxDeaths     \* deaths of the worker (bound)

Resource == {"products", "stores", "users"}

ASSUME CatAssumption ==
  /\ NoCode \notin Sku \cup Barcode
  /\ Room \in [Plan -> [Resource -> Nat]]
  /\ \A p \in Plan : Room[p]["stores"] > 0 /\ Room[p]["users"] > 0
  /\ File \in Seq([sku : Sku \cup {NoCode}, code : Barcode \cup {NoCode}])
  /\ {JobAttempts, MaxRequests, MaxDeaths} \subseteq Nat /\ JobAttempts > 0

VARIABLES
  plan,       \* tenants.plan_id
  shelf,      \* the rows of products, in the order they were created
  others,     \* how many stores and users there are
  work,       \* what each request has read and is about to write
  job,        \* the import job: state, attempt, next row, rows to create
  labels,     \* labels that have been printed, [product, code]
  requests,   \* requests started
  deaths,     \* deaths of the worker
  crossed,    \* history: two requests that mind the limits have overlapped
  imported,   \* history: the CSV file has added products
  touched     \* history: products edited, or labelled by two requests at once

catVars == <<plan, shelf, others, work, job, labels, requests, deaths,
             crossed, imported, touched>>
histories == <<crossed, imported, touched>>

ProductRow == [state : {"live", "deleted"}, sku : Sku \cup {NoCode},
               code : Barcode \cup {NoCode}, from : 0 .. Len(File)]
NewRow(sku, code, from) == [state |-> "live", sku |-> sku, code |-> code, from |-> from]
Free == [at |-> "free"]
NoJob == [state |-> "none", attempt |-> 0, next |-> 1, new |-> <<>>]

CatInit ==
  /\ plan \in Plan
  /\ shelf = <<>>
  /\ others = [stores |-> 1, users |-> 1]           \* signupTenant
  /\ work = [c \in Clerk |-> Free]
  /\ job = NoJob /\ labels = {}
  /\ requests = 0 /\ deaths = 0
  /\ crossed = FALSE /\ imported = FALSE /\ touched = {}

--------------------------------------------------------------------------------
Sold == {p \in DOMAIN shelf : shelf[p].state = "live"}     \* deletedAt is null

(* @@unique([tenantId, sku]) holds of deleted rows too.                    *)
SkuFree(sku, but) == sku = NoCode \/ \A p \in DOMAIN shelf \ but : shelf[p].sku # sku

CountOf(r) == IF r = "products" THEN Cardinality(Sold) ELSE others[r]

(* assertWithinPlanLimit and fitsWithinPlan.                               *)
FitsOneMore(count, n, max) == count + n <= max + 1         \* mutated form
Fits(count, n, max) == count + n <= max

Begin(c, read) ==
  /\ requests < MaxRequests /\ requests' = requests + 1
  /\ work[c] = Free
  /\ work' = [work EXCEPT ![c] = read]
End(c) == work' = [work EXCEPT ![c] = Free]

(* Requests that count and then write.                                     *)
Limited(d) == work[d].at \in {"create", "counted", "replan"}
Overlap(c) == crossed' = (crossed \/ \E d \in Clerk \ {c} : Limited(d))

--------------------------------------------------------------------------------
(* createProduct, createStore, inviteUser and the bulk creation of an      *)
(* NF-e, which creates n products or none.                                 *)

CreateBegin(c, r, n, sku) ==
  /\ r # "products" => n = 1 /\ sku = NoCode
  /\ Begin(c, [at |-> "create", of |-> r, n |-> n, sku |-> sku, max |-> Room[plan][r]])
  /\ Overlap(c)
  /\ UNCHANGED <<plan, shelf, others, job, labels, deaths, imported, touched>>

(* Over the limit the request is refused, else it goes on to create.       *)
CreateCount(c) ==
  /\ work[c].at = "create"
  /\ work' = [work EXCEPT ![c] =
       IF Fits(CountOf(work[c].of), work[c].n, work[c].max)
         THEN [@ EXCEPT !.at = "counted"] ELSE Free]
  /\ UNCHANGED <<plan, shelf, others, job, labels, requests, deaths, histories>>

(* A sku in use fails createProduct; the bulk creation leaves it out.      *)
NewSku(w) == IF SkuFree(w.sku, {}) THEN w.sku ELSE NoCode

CreateCommit(c) ==
  /\ work[c].at = "counted"
  /\ IF work[c].of # "products"
       THEN /\ others' = [others EXCEPT ![work[c].of] = @ + 1]
            /\ UNCHANGED shelf
       ELSE /\ work[c].n = 1 => SkuFree(work[c].sku, {})
            /\ shelf' = shelf \o [i \in 1 .. work[c].n |->
                 NewRow(IF i = 1 THEN NewSku(work[c]) ELSE NoCode, NoCode, 0)]
            /\ UNCHANGED others
  /\ End(c)
  /\ UNCHANGED <<plan, job, labels, requests, deaths, histories>>

CreateFails(c) ==
  /\ work[c].at = "counted" /\ work[c].n = 1 /\ ~SkuFree(work[c].sku, {})
  /\ End(c)
  /\ UNCHANGED <<plan, shelf, others, job, labels, requests, deaths, histories>>

(* changePlan: every count must fit the target.                            *)
ChangePlanRead(c, target) ==
  /\ target # plan
  /\ \A r \in Resource : Fits(CountOf(r), 0, Room[target][r])
  /\ Begin(c, [at |-> "replan", to |-> target])
  /\ Overlap(c)
  /\ UNCHANGED <<plan, shelf, others, job, labels, deaths, imported, touched>>

ChangePlanCommit(c) ==
  /\ work[c].at = "replan"
  /\ plan' = work[c].to
  /\ End(c)
  /\ UNCHANGED <<shelf, others, job, labels, requests, deaths, histories>>

--------------------------------------------------------------------------------
(* updateProduct and deleteProduct: one row, in one statement.             *)
UpdateProduct(p, sku, code) ==
  /\ requests < MaxRequests /\ requests' = requests + 1
  /\ p \in Sold /\ SkuFree(sku, {p})
  /\ shelf' = [shelf EXCEPT ![p].sku = sku, ![p].code = code]
  /\ touched' = IF [sku |-> sku, code |-> code] # [sku |-> shelf[p].sku, code |-> shelf[p].code]
                THEN touched \cup {p} ELSE touched
  /\ UNCHANGED <<plan, others, work, job, labels, deaths, crossed, imported>>

DeleteProduct(p) ==
  /\ requests < MaxRequests /\ requests' = requests + 1
  /\ p \in Sold
  /\ shelf' = [shelf EXCEPT ![p].state = "deleted"]
  /\ UNCHANGED <<plan, others, work, job, labels, deaths, histories>>

(* prepareProductLabels: a product without a barcode is given one drawn at *)
(* random that no product has, nor any that is being drawn (makeEan13).    *)
Drawn(code) == \E d \in Clerk : work[d].at = "label" /\ work[d].code = code
Fresh(code) == (\A p \in DOMAIN shelf : shelf[p].code # code) /\ ~Drawn(code)
AlwaysDraws(p, code) == Fresh(code)                        \* mutated form
LabelCode(p, code) == IF shelf[p].code = NoCode THEN Fresh(code) ELSE code = shelf[p].code

LabelsRead(c, p, code) ==
  /\ p \in Sold /\ LabelCode(p, code)
  /\ Begin(c, [at |-> "label", product |-> p, code |-> code])
  /\ touched' = IF \E d \in Clerk : work[d].at = "label" /\ work[d].product = p
                  THEN touched \cup {p} ELSE touched
  /\ UNCHANGED <<plan, shelf, others, job, labels, deaths, crossed, imported>>

LabelsCommit(c) ==
  /\ work[c].at = "label"
  /\ shelf' = [shelf EXCEPT ![work[c].product].code = work[c].code]
  /\ labels' = labels \cup {[product |-> work[c].product, code |-> work[c].code]}
  /\ End(c)
  /\ UNCHANGED <<plan, others, job, requests, deaths, histories>>

--------------------------------------------------------------------------------
(* The import of a CSV file: one transaction over all of its rows.         *)

(* POST /api/products/import                                               *)
UploadCsv ==
  /\ job.state = "none"
  /\ job' = [job EXCEPT !.state = "waiting"]
  /\ UNCHANGED <<plan, shelf, others, work, labels, requests, deaths, histories>>

TakeCsvJob ==
  /\ job.state = "waiting"
  /\ job' = [state |-> "running", attempt |-> job.attempt + 1, next |-> 1, new |-> <<>>]
  /\ UNCHANGED <<plan, shelf, others, work, labels, requests, deaths, histories>>

(* A row that names a product there is already, by sku or else by barcode, *)
(* is skipped; a row without either is always new.                         *)
Here(field, value) ==
  \/ \E p \in Sold : shelf[p][field] = value
  \/ \E i \in DOMAIN job.new : job.new[i][field] = value
BySku(row) == row.sku # NoCode /\ Here("sku", row.sku)     \* mutated form
Exists(row) ==
  IF row.sku # NoCode THEN Here("sku", row.sku)
                      ELSE row.code # NoCode /\ Here("code", row.code)

CsvRow ==
  /\ job.state = "running" /\ job.next <= Len(File)
  /\ job' = [job EXCEPT !.next = @ + 1,
                        !.new = IF Exists(File[job.next]) THEN @
                                ELSE Append(@, NewRow(File[job.next].sku, File[job.next].code, job.next))]
  /\ UNCHANGED <<plan, shelf, others, work, labels, requests, deaths, histories>>

(* A sku that a deleted product still holds, or that someone took since    *)
(* the row was read, fails the whole file.                                 *)
Clash == \E i \in DOMAIN job.new : ~SkuFree(job.new[i].sku, {})

CsvCommit ==
  /\ job.state = "running" /\ job.next > Len(File) /\ ~Clash
  /\ shelf' = shelf \o job.new
  /\ job' = [job EXCEPT !.state = "done"]
  /\ imported' = (imported \/ job.new # <<>>)
  /\ UNCHANGED <<plan, others, work, labels, requests, deaths, crossed, touched>>

OneRunMore(attempt) == attempt <= JobAttempts              \* mutated form
RunsAgain(attempt) == attempt < JobAttempts

CsvFails ==
  /\ job.state = "running" /\ Clash
  /\ job' = [NoJob EXCEPT !.state = IF RunsAgain(job.attempt) THEN "waiting" ELSE "failed",
                          !.attempt = job.attempt]
  /\ UNCHANGED <<plan, shelf, others, work, labels, requests, deaths, histories>>

(* The worker dies before or after the commit: the job runs again.         *)
CsvWorkerDies ==
  /\ deaths < MaxDeaths /\ deaths' = deaths + 1
  /\ job.state \in {"running", "done"}
  /\ job' = [NoJob EXCEPT !.state = "waiting", !.attempt = job.attempt - 1]
  /\ UNCHANGED <<plan, shelf, others, work, labels, requests, histories>>

CsvAck ==
  /\ job.state = "done"
  /\ job' = [job EXCEPT !.state = "completed"]
  /\ UNCHANGED <<plan, shelf, others, work, labels, requests, deaths, histories>>

CatNext ==
  \/ \E c \in Clerk, r \in Resource, n \in {1, 2}, s \in Sku \cup {NoCode} : CreateBegin(c, r, n, s)
  \/ \E c \in Clerk, target \in Plan : ChangePlanRead(c, target)
  \/ \E c \in Clerk, p \in Sold, code \in Barcode : LabelsRead(c, p, code)
  \/ \E c \in Clerk : \/ CreateCount(c) \/ CreateCommit(c) \/ CreateFails(c)
                      \/ ChangePlanCommit(c) \/ LabelsCommit(c)
  \/ \E p \in Sold, s \in Sku \cup {NoCode}, code \in Barcode \cup {NoCode} : UpdateProduct(p, s, code)
  \/ \E p \in Sold : DeleteProduct(p)
  \/ UploadCsv \/ TakeCsvJob \/ CsvRow \/ CsvCommit \/ CsvFails \/ CsvWorkerDies \/ CsvAck

CatSpec == CatInit /\ [][CatNext]_catVars

--------------------------------------------------------------------------------
CatTypeOK ==
  /\ plan \in Plan
  /\ shelf \in Seq(ProductRow)
  /\ others \in [{"stores", "users"} -> Nat]
  /\ work \in [Clerk -> {Free}
       \cup [at : {"create", "counted"}, of : Resource, n : {1, 2},
             sku : Sku \cup {NoCode}, max : Nat]
       \cup [at : {"replan"}, to : Plan]
       \cup [at : {"label"}, product : Nat \ {0}, code : Barcode]]
  /\ job \in [state : {"none", "waiting", "running", "done", "completed", "failed"},
              attempt : 0 .. JobAttempts, next : 1 .. Len(File) + 1, new : Seq(ProductRow)]
  /\ labels \subseteq [product : Nat \ {0}, code : Barcode]
  /\ requests \in 0 .. MaxRequests /\ deaths \in 0 .. MaxDeaths
  /\ crossed \in BOOLEAN /\ imported \in BOOLEAN /\ touched \subseteq Nat

(* A tenant has no more products, stores or users than its plan allows, as *)
(* long as no two requests that count have overlapped and no CSV file has  *)
(* been imported, which does not count (csv-import.ts:24): the check and   *)
(* the change of plan leave no other way around a limit.                   *)
WithinPlan ==
  crossed \/ imported \/ \A r \in Resource : CountOf(r) <= Room[plan][r]

(* A label on the shelf keeps naming its product, however often labels are *)
(* printed again and whoever edits what (products.ts:126-137), unless the  *)
(* barcode itself is edited or two requests label the product at once.     *)
LabelsScan ==
  \A l \in labels : shelf[l.product].code = l.code \/ l.product \in touched

(* A file that is read again, because the worker died before it could say  *)
(* that it was done, does not add a row a second time: two products on     *)
(* sale, neither of them edited, never come from one row that bears a code *)
(* (csv-import.ts:15-23).                                                  *)
RowsOnce ==
  \A p, q \in Sold \ touched :
    /\ shelf[p].from > 0 /\ shelf[p].from = shelf[q].from
    /\ \E field \in {"sku", "code"} : File[shelf[p].from][field] # NoCode
    => p = q
================================================================================

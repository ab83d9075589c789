------------------------------- MODULE NfeImport -------------------------------
(***************************************************************************)
(* The import of one NF-e: modules/stock/nfe-import.ts, its routes and the *)
(* parse-nfe queue.                                                        *)
(*                                                                         *)
(* Upload writes the row of nfe_imports and then, outside that             *)
(* transaction, adds a job to the queue.  The worker parses the note in a  *)
(* transaction of its own.  Operators link its items to products one by    *)
(* one or in bulk and at last confirm, which alone moves stock.  Each      *)
(* operation reads the import first and writes at its commit; no lock on   *)
(* the import joins the two.                                               *)
(***************************************************************************)
EXTENDS Integers, FiniteSetsExt, Functions

CONSTANTS
  Line,        \* lines (det) of the note
  Code,        \* barcodes and supplier codes
  LineCode,    \* what bulk creation keys a line by: its cEAN, or else its cProd
  Scanned,     \* the lines with a cEAN
  Product,     \* ids of products
  NoProduct,   \* matched_product_id NULL, and the code of an id not in use
  NewProduct,  \* stands for the product a bulk creation has still to create
  MaxProducts, \* the plan's limit
  Linkers,     \* operators who link items and create products
  Confirmers,  \* operators who confirm
  MaxOps,      \* operations an operator starts (bound)
  MaxRuns,     \* runs of the parse job that commit (bound)
  MaxErrors,   \* database errors that hit the parse job (bound)
  MaxDeaths,   \* deaths of the worker (bound)
  Redelivers   \* the worker may die between its commit and telling the queue

Operator == Linkers \cup Confirmers
ItemId == Line \X (1 .. MaxRuns)

(* DEFAULT_JOB_OPTIONS.                                                    *)
SingleAttempt == 1                                         \* mutated form
Attempts == 3

ASSUME ConstantsAssumption ==
  /\ LineCode \in [Line -> Code]
  /\ Scanned \subseteq Line
  /\ NoProduct \notin Product /\ NewProduct \notin Product \cup {NoProduct}
  /\ {MaxProducts, MaxOps, MaxRuns, MaxErrors, MaxDeaths} \subseteq Nat
  /\ Redelivers \in BOOLEAN

VARIABLES
  status,   \* nfe_imports.status; "none" before the upload
  items,    \* nfe_import_items, as [product, status]; NoItem where none
  catalog,  \* the code of each product that exists
  posted,   \* entrada_nfe movements of each item, by product
  job,      \* the job: none, waiting, active, acked, failed
  tries,    \* attempts of the job that threw
  deaths,   \* times the worker died in the job
  runs,     \* runs of the job that committed
  wpc,      \* where the job's callback is
  found,    \* the product it matched each line to
  pc,       \* the operation each operator is in
  ops,      \* operations each operator has started
  seen      \* what the operation has read: items and their products

queue == <<job, tries, deaths>>
worker == <<wpc, found>>
users == <<pc, ops, seen>>
vars == <<status, items, catalog, posted, job, tries, deaths, runs, wpc, found,
          pc, ops, seen>>

NoItem == [product |-> NoProduct, status |-> "absent"]
Rows == {i \in ItemId : items[i] # NoItem}
Unmatched == {i \in Rows : items[i].status = "unmatched"}
Existing == {p \in Product : catalog[p] # NoProduct}
WithCode(c) == {p \in Existing : catalog[p] = c}
Nothing == [i \in ItemId |-> NoProduct]

Init ==
  /\ status = "none"
  /\ items = [i \in ItemId |-> NoItem]
  /\ catalog = [p \in Product |-> NoProduct]
  /\ posted = [i \in ItemId |-> [p \in Product |-> 0]]
  /\ job = "none" /\ tries = 0 /\ deaths = 0 /\ runs = 0
  /\ wpc = "idle" /\ found = [l \in Line |-> NoProduct]
  /\ pc = [o \in Operator |-> "idle"]
  /\ ops = [o \in Operator |-> 0]
  /\ seen = [o \in Operator |-> Nothing]

--------------------------------------------------------------------------------
(* Upload and the queue.                                                   *)

Upload ==
  /\ status = "none"
  /\ status' = "pending_parse"
  /\ UNCHANGED <<items, catalog, posted, queue, runs, worker, users>>

(* The route adds the job after the commit; it may die before it does.     *)
Enqueue ==
  /\ status = "pending_parse" /\ job = "none"
  /\ job' = "waiting"
  /\ UNCHANGED <<status, items, catalog, posted, tries, deaths, runs, worker, users>>

(* processNfeImportJob finds its import and reads the file.                *)
StartJob ==
  /\ job = "waiting"
  /\ job' = "active"
  /\ wpc' = "reading"
  /\ UNCHANGED <<status, items, catalog, posted, tries, deaths, runs, found, users>>

(* Each line with a cEAN is matched to a product with that barcode.        *)
MatchItems ==
  /\ wpc = "reading" /\ status # "failed"
  /\ \E f \in [Line -> Product \cup {NoProduct}] :
       /\ \A l \in Line :
            LET matches == IF l \in Scanned THEN WithCode(LineCode[l]) ELSE {} IN
            f[l] \in (IF matches = {} THEN {NoProduct} ELSE matches)
       /\ found' = f
  /\ wpc' = "matched"
  /\ UNCHANGED <<status, items, catalog, posted, queue, runs, users>>

(* The items and the status are committed together, whatever the status    *)
(* was.                                                                    *)
MarkMatched(p) == [product |-> p, status |-> "matched"]    \* mutated form
Parsed(p) ==
  [product |-> p, status |-> IF p = NoProduct THEN "unmatched" ELSE "matched"]

ParseCommit ==
  /\ wpc = "matched" /\ runs < MaxRuns
  /\ items' = [i \in ItemId |->
       IF i[2] = runs + 1 THEN Parsed(found[i[1]]) ELSE items[i]]
  /\ status' = "pending_review"
  /\ runs' = runs + 1
  /\ wpc' = "committed"
  /\ UNCHANGED <<catalog, posted, queue, found, users>>

(* A note that is not an NF-e: the catch block records the failure.  The   *)
(* same file parses, or fails to, each time.                               *)
ParseFails ==
  /\ wpc = "reading" /\ runs = 0
  /\ status' = "failed"
  /\ wpc' = "committed"
  /\ UNCHANGED <<items, catalog, posted, queue, runs, found, users>>

Ack ==
  /\ wpc = "committed"
  /\ job' = "acked"
  /\ wpc' = "idle"
  /\ UNCHANGED <<status, items, catalog, posted, tries, deaths, runs, found, users>>

(* An error of the database, or Prisma's limit on the transaction: nothing *)
(* more can be written in it, the update in the catch block throws in its  *)
(* turn, and the queue tries again until Attempts are used up.             *)
DbError ==
  /\ wpc \in {"reading", "matched"} /\ tries < MaxErrors
  /\ tries' = tries + 1
  /\ job' = IF tries' < Attempts THEN "waiting" ELSE "failed"
  /\ wpc' = "idle"
  /\ UNCHANGED <<status, items, catalog, posted, deaths, runs, found, users>>

(* The worker's process is killed.  BullMQ gives a stalled job to a worker *)
(* once more.                                                              *)
WorkerDies ==
  /\ wpc \in {"reading", "matched"} \cup (IF Redelivers THEN {"committed"} ELSE {})
  /\ deaths < MaxDeaths
  /\ deaths' = deaths + 1
  /\ job' = IF deaths = 0 THEN "waiting" ELSE "failed"
  /\ wpc' = "idle"
  /\ UNCHANGED <<status, items, catalog, posted, tries, runs, found, users>>

--------------------------------------------------------------------------------
(* Operators.                                                              *)

Start(o, op, read) ==
  /\ pc[o] = "idle" /\ ops[o] < MaxOps
  /\ pc' = [pc EXCEPT ![o] = op]
  /\ ops' = [ops EXCEPT ![o] = @ + 1]
  /\ seen' = [seen EXCEPT ![o] = read]

Finish(o) ==
  /\ pc' = [pc EXCEPT ![o] = "idle"]
  /\ seen' = [seen EXCEPT ![o] = Nothing]
  /\ UNCHANGED ops

(* linkNfeImportItemToProduct: the reads, then the update.                 *)
AnyRow == Rows                                             \* mutated form
Linkable == Unmatched

LinkRead(o) ==
  /\ o \in Linkers
  /\ status = "pending_review"
  /\ \E i \in Linkable, p \in Existing : Start(o, "link", [Nothing EXCEPT ![i] = p])
  /\ UNCHANGED <<status, items, catalog, posted, queue, runs, worker>>

Chosen(o) == {i \in ItemId : seen[o][i] # NoProduct}

LinkCommit(o) ==
  /\ pc[o] = "link"
  /\ items' = [i \in ItemId |-> IF i \in Chosen(o)
                                THEN [product |-> seen[o][i], status |-> "created"]
                                ELSE items[i]]
  /\ Finish(o)
  /\ UNCHANGED <<status, catalog, posted, queue, runs, worker>>

(* bulkCreateProductsFromNfeImport: every unmatched item gets an existing  *)
(* product with its code, or else one new product for all the items with   *)
(* that code, if the plan has room for all the new ones.                   *)
BulkRead(o) ==
  /\ o \in Linkers
  /\ status = "pending_review" /\ Unmatched # {}
  /\ LET missing == {c \in {LineCode[i[1]] : i \in Unmatched} : WithCode(c) = {}} IN
     /\ missing # {} => Cardinality(Existing) + Cardinality(missing) <= MaxProducts
     /\ \E match \in [Code -> Existing \cup {NewProduct}] :
          /\ \A c \in Code : match[c] \in (IF WithCode(c) = {} THEN {NewProduct}
                                          ELSE WithCode(c))
          /\ Start(o, "bulk", [i \in ItemId |->
               IF i \in Unmatched THEN match[LineCode[i[1]]] ELSE NoProduct])
  /\ UNCHANGED <<status, items, catalog, posted, queue, runs, worker>>

(* Its products and links are committed together.                          *)
BulkCommit(o) ==
  LET new == {LineCode[i[1]] : i \in {j \in ItemId : seen[o][j] = NewProduct}} IN
  /\ pc[o] = "bulk"
  /\ \E id \in Injection(new, Product \ Existing) :
       /\ catalog' = [p \in Product |-> IF \E c \in new : id[c] = p
                                       THEN CHOOSE c \in new : id[c] = p
                                       ELSE catalog[p]]
       /\ items' = [i \in ItemId |->
            CASE i \notin Chosen(o)       -> items[i]
              [] seen[o][i] = NewProduct -> [product |-> id[LineCode[i[1]]],
                                             status |-> "created"]
              [] OTHER                   -> [product |-> seen[o][i],
                                             status |-> "matched"]]
  /\ Finish(o)
  /\ UNCHANGED <<status, posted, queue, runs, worker>>

(* confirmNfeImport: the import and its items are read once, at the start. *)
AnyStatus(s) == s \in {"pending_review", "confirmed"}      \* mutated form
NotConfirmed(s) == s \notin {"none", "confirmed"}          \* mutated form
Confirmable(s) == s = "pending_review"

AllowUnmatched == TRUE                                     \* mutated form
AllMatched == Unmatched = {}

ConfirmRead(o) ==
  /\ o \in Confirmers
  /\ Confirmable(status)
  /\ AllMatched
  /\ Start(o, "confirm", [i \in ItemId |-> items[i].product])
  /\ UNCHANGED <<status, items, catalog, posted, queue, runs, worker>>

ConfirmCommit(o) ==
  /\ pc[o] = "confirm"
  /\ posted' = [i \in ItemId |-> [p \in Product |->
                 posted[i][p] + (IF seen[o][i] = p THEN 1 ELSE 0)]]
  /\ status' = "confirmed"
  /\ Finish(o)
  /\ UNCHANGED <<items, catalog, queue, runs, worker>>

(* Any transaction of an operator may fail as a whole.                     *)
GiveUp(o) ==
  /\ pc[o] # "idle"
  /\ Finish(o)
  /\ UNCHANGED <<status, items, catalog, posted, queue, runs, worker>>

(* createProduct in the catalog, at any time.                              *)
CreateProduct ==
  /\ Cardinality(Existing) < MaxProducts
  /\ \E c \in Code, p \in Product \ Existing :
       catalog' = [catalog EXCEPT ![p] = c]
  /\ UNCHANGED <<status, items, posted, queue, runs, worker, users>>

--------------------------------------------------------------------------------
Work == StartJob \/ MatchItems \/ ParseCommit \/ Ack

Next ==
  \/ Upload \/ Enqueue \/ Work \/ ParseFails \/ DbError \/ WorkerDies
  \/ CreateProduct
  \/ \E o \in Operator : \/ LinkRead(o) \/ LinkCommit(o)
                         \/ BulkRead(o) \/ BulkCommit(o)
                         \/ ConfirmRead(o) \/ ConfirmCommit(o) \/ GiveUp(o)

Spec == Init /\ [][Next]_vars /\ WF_vars(Work)

--------------------------------------------------------------------------------
(* Properties.                                                             *)

TypeOK ==
  /\ status \in {"none", "pending_parse", "pending_review", "confirmed", "failed"}
  /\ items \in [ItemId -> [product : Product \cup {NoProduct},
                           status : {"absent", "unmatched", "matched", "created"}]]
  /\ \A i \in Rows : items[i].status = "unmatched" <=> items[i].product = NoProduct
  /\ catalog \in [Product -> Code \cup {NoProduct}]
  /\ posted \in [ItemId -> [Product -> Nat]]
  /\ job \in {"none", "waiting", "active", "acked", "failed"}
  /\ tries \in 0 .. MaxErrors /\ deaths \in 0 .. MaxDeaths /\ runs \in 0 .. MaxRuns
  /\ wpc \in {"idle", "reading", "matched", "committed"}
  /\ found \in [Line -> Product \cup {NoProduct}]
  /\ pc \in [Operator -> {"idle", "link", "bulk", "confirm"}]
  /\ ops \in [Operator -> 0 .. MaxOps]
  /\ seen \in [Operator -> [ItemId -> Product \cup {NoProduct, NewProduct}]]

(* A line of the note enters the stock once at most, whatever is retried   *)
(* and however often it is confirmed (ADR-005: one movement per item).     *)
Units == [i \in ItemId |-> SumFunctionOnSet(posted[i], Product)]

Entries(l) == SumFunctionOnSet(Units, {i \in ItemId : i[1] = l})

EntersOnce == \A l \in Line : Entries(l) <= 1

(* The product an item of a confirmed import shows is the one its stock    *)
(* was entered under.                                                      *)
PostedAsShown ==
  status = "confirmed" =>
    \A i \in Rows : items[i].product # NoProduct /\ posted[i][items[i].product] > 0

(* The status goes the way docs/api/stock.md gives, and never back.        *)
StatusMove ==
  \/ status = "none" /\ status' = "pending_parse"
  \/ status = "pending_parse" /\ status' \in {"pending_review", "failed"}
  \/ status = "pending_review" /\ status' = "confirmed"

StatusOrder == [][StatusMove]_status

(* The stock takes the note as one deal of its book: in one step, one      *)
(* movement for each line, under a product for each, though the operator   *)
(* links the lines one by one and in bulk while another confirms.          *)
Book == INSTANCE StockBook WITH
  Pair <- Product,
  onHand <- [p \in Product |-> SumFunctionOnSet([i \in ItemId |-> posted[i][p]], ItemId)],
  Deals <- {[p \in Product |-> SumFunctionOnSet([l \in Line |-> IF f[l] = p THEN 1 ELSE 0], Line)] :
              f \in [Line -> Product]}

NoteIsOneDeal == Book!Spec

(* Once its job is queued, an import does not stay pending_parse for ever  *)
(* while the operator's screen polls, although the worker dies once and    *)
(* the database fails now and then.                                        *)
ParseSettles == job # "none" ~> status # "pending_parse"
================================================================================

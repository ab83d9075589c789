---------------------------- MODULE CatalogProofs ----------------------------
(***************************************************************************)
(* Proofs about products, labels, the import of a file and the limits of   *)
(* the plan, for any plans, files, barcodes and requests at once.          *)
(***************************************************************************)
EXTENDS Catalog, FiniteSetTheorems, SequenceTheorems, TLAPS

Codes == Barcode \cup {NoCode}
Skus == Sku \cup {NoCode}
Works == {Free}
  \cup [at : {"create", "counted"}, of : Resource, n : {1, 2}, sku : Skus, max : Nat]
  \cup [at : {"replan"}, to : Plan]
  \cup [at : {"label"}, product : Nat \ {0}, code : Barcode]
Jobs == [state : {"none", "waiting", "running", "done", "completed", "failed"},
         attempt : Int, next : 1 .. Len(File) + 1, new : Seq(ProductRow)]

CatType ==
  /\ plan \in Plan
  /\ shelf \in Seq(ProductRow)
  /\ others \in [{"stores", "users"} -> Nat]
  /\ work \in [Clerk -> Works]
  /\ job \in Jobs
  /\ labels \subseteq [product : Nat \ {0}, code : Barcode]
  /\ crossed \in BOOLEAN /\ imported \in BOOLEAN

(* Nobody labels, or has labelled, a product that is not on the shelf.     *)
LabelsOnShelf ==
  /\ \A l \in labels : l.product \in 1 .. Len(shelf)
  /\ \A c \in Clerk : work[c].at = "label" => work[c].product \in 1 .. Len(shelf)

USE CatAssumption

LEMMA RowType ==
  ASSUME NEW sku \in Skus, NEW code \in Codes, NEW from \in 0 .. Len(File)
  PROVE  NewRow(sku, code, from) \in ProductRow
BY DEF NewRow, ProductRow, Skus, Codes

LEMMA FileType ==
  /\ Len(File) \in Nat
  /\ \A i \in 1 .. Len(File) : File[i].sku \in Skus /\ File[i].code \in Codes
<1> DEFINE R == [sku : Skus, code : Codes]
<1>1. File \in Seq(R)
  BY DEF Skus, Codes
<1>2. \A r \in R : r.sku \in Skus /\ r.code \in Codes
  OBVIOUS
<1> HIDE DEF R
<1>3. Len(File) \in Nat /\ \A i \in 1 .. Len(File) : File[i] \in R
  BY <1>1
<1> QED
  BY <1>2, <1>3

LEMMA CatInitType ==
  CatInit => CatType /\ LabelsOnShelf
<1> SUFFICES ASSUME CatInit PROVE CatType /\ LabelsOnShelf
  OBVIOUS
<1>1. shelf \in Seq(ProductRow) /\ labels = {} /\ plan \in Plan
  BY DEF CatInit
<1>2. others \in [{"stores", "users"} -> Nat]
  BY DEF CatInit
<1>3. work \in [Clerk -> Works] /\ \A c \in Clerk : work[c].at = "free"
  BY DEF CatInit, Works, Free
<1>4. job \in Jobs
  BY FileType DEF CatInit, NoJob, Jobs
<1>5. crossed \in BOOLEAN /\ imported \in BOOLEAN
  BY Zenon DEF CatInit
<1> QED
  BY <1>1, <1>2, <1>3, <1>4, <1>5 DEF CatType, LabelsOnShelf

(* What a request holds.                                                   *)
LEMMA WorkShape ==
  ASSUME CatType, NEW c \in Clerk
  PROVE  /\ work[c].at = "replan" => work[c].to \in Plan
         /\ work[c].at \in {"create", "counted"} =>
              work[c] \in [at : {"create", "counted"}, of : Resource, n : {1, 2}, sku : Skus, max : Nat]
         /\ work[c].at = "label" => work[c].product \in Nat \ {0} /\ work[c].code \in Barcode
<1>1. work[c] \in Works
  BY DEF CatType
<1> QED
  BY <1>1 DEF Works, Free

LEMMA FreeIsWork ==
  Free \in Works /\ Free.at = "free"
BY DEF Works, Free

(* What is there when a request begins.                                    *)
LEMMA BeginType ==
  ASSUME CatType, NEW c \in Clerk, NEW w \in Works, Begin(c, w)
  PROVE  /\ work' \in [Clerk -> Works] /\ work'[c] = w /\ work[c] = Free
         /\ \A d \in Clerk : d # c => work'[d] = work[d]
BY DEF CatType, Begin

LEMMA EndType ==
  ASSUME CatType, NEW c \in Clerk, End(c)
  PROVE  /\ work' \in [Clerk -> Works] /\ work'[c] = Free
         /\ \A d \in Clerk : d # c => work'[d] = work[d]
BY DEF CatType, End, Works

(* The rows that a request creates go to the end of the shelf.             *)
LEMMA Appended ==
  ASSUME CatType, NEW c \in Clerk, CreateCommit(c), work[c].of = "products"
  PROVE  /\ work[c].n \in {1, 2}
         /\ shelf' \in Seq(ProductRow) /\ Len(shelf') = Len(shelf) + work[c].n
         /\ \A p \in 1 .. Len(shelf) : shelf'[p] = shelf[p]
         /\ \A p \in 1 .. Len(shelf') : p \notin 1 .. Len(shelf) =>
              shelf'[p].state = "live" /\ shelf'[p].from = 0
<1> DEFINE n == work[c].n
           made(i) == NewRow(IF i = 1 THEN NewSku(work[c]) ELSE NoCode, NoCode, 0)
           rows == [i \in 1 .. n |-> made(i)]
<1>1. n \in {1, 2} /\ work[c].sku \in Skus
  BY DEF CatType, CreateCommit, Works, Free
<1>2. ASSUME NEW i \in 1 .. n PROVE made(i) \in ProductRow
  <2>1. NewSku(work[c]) \in Skus /\ NoCode \in Codes /\ NoCode \in Skus
    BY <1>1 DEF NewSku, Skus, Codes
  <2> QED
    BY <2>1, RowType, FileType
<1>3. \A i \in 1 .. n : made(i).state = "live" /\ made(i).from = 0
  BY DEF NewRow
<1>4. shelf' = shelf \o rows
  BY DEF CreateCommit
<1> HIDE DEF made
<1>5. rows \in Seq(ProductRow) /\ Len(rows) = n /\ \A i \in 1 .. n : rows[i] = made(i)
  BY <1>1, <1>2
<1> HIDE DEF rows
<1>6. /\ shelf' \in Seq(ProductRow) /\ Len(shelf') = Len(shelf) + n
      /\ \A p \in 1 .. Len(shelf) + n :
           shelf'[p] = IF p <= Len(shelf) THEN shelf[p] ELSE rows[p - Len(shelf)]
  <2>1. shelf \in Seq(ProductRow)
    BY DEF CatType
  <2> HIDE DEF n
  <2>2. /\ shelf \o rows \in Seq(ProductRow) /\ Len(shelf \o rows) = Len(shelf) + Len(rows)
        /\ \A p \in 1 .. Len(shelf) + Len(rows) :
             (shelf \o rows)[p] = IF p <= Len(shelf) THEN shelf[p] ELSE rows[p - Len(shelf)]
    BY <1>5, <2>1, ConcatProperties, Zenon
  <2> QED
    BY <1>4, <1>5, <2>2, Zenon
<1>7. Len(shelf) \in Nat
  BY DEF CatType
<1>8. ASSUME NEW p \in 1 .. Len(shelf) PROVE shelf'[p] = shelf[p]
  <2>1. p \in 1 .. Len(shelf) + n /\ p <= Len(shelf)
    BY <1>1, <1>7
  <2> QED
    BY <1>6, <2>1
<1>9. ASSUME NEW p \in 1 .. Len(shelf'), p \notin 1 .. Len(shelf)
      PROVE  shelf'[p].state = "live" /\ shelf'[p].from = 0
  <2>1. p - Len(shelf) \in 1 .. n /\ ~(p <= Len(shelf)) /\ p \in 1 .. Len(shelf) + n
    BY <1>1, <1>6, <1>7, <1>9
  <2> QED
    BY <1>3, <1>5, <1>6, <2>1
<1> QED
  BY <1>1, <1>6, <1>8, <1>9

LEMMA CreateType ==
  ASSUME CatType, LabelsOnShelf, NEW c \in Clerk,
         \/ \E r \in Resource, n \in {1, 2}, s \in Skus : CreateBegin(c, r, n, s)
         \/ CreateCount(c) \/ CreateCommit(c) \/ CreateFails(c)
         \/ \E target \in Plan : ChangePlanRead(c, target)
         \/ ChangePlanCommit(c)
  PROVE  CatType' /\ LabelsOnShelf'
<1> USE DEF CatType, histories
<1>0. \A w \in Works : w.at \in {"free", "create", "counted", "replan", "label"}
  BY DEF Works, Free
<1>1. ASSUME NEW r \in Resource, NEW n \in {1, 2}, NEW s \in Skus, CreateBegin(c, r, n, s)
      PROVE  CatType' /\ LabelsOnShelf'
  <2> DEFINE w == [at |-> "create", of |-> r, n |-> n, sku |-> s, max |-> Room[plan][r]]
  <2>1. w \in Works /\ w.at = "create"
    BY DEF Works
  <2>2. Begin(c, w)
    BY <1>1 DEF CreateBegin
  <2> HIDE DEF w
  <2>3. crossed' \in BOOLEAN
    BY <1>1, Zenon DEF CreateBegin, Overlap
  <2>4. UNCHANGED <<plan, shelf, others, job, labels, imported, touched>>
    BY <1>1 DEF CreateBegin
  <2>5. work' \in [Clerk -> Works] /\ work'[c] = w /\ \A d \in Clerk : d # c => work'[d] = work[d]
    BY <2>1, <2>2, BeginType
  <2>6. LabelsOnShelf'
    BY <2>1, <2>4, <2>5 DEF LabelsOnShelf
  <2> QED
    BY <2>3, <2>4, <2>5, <2>6
<1>2. CASE CreateCount(c)
  <2> DEFINE w == IF Fits(CountOf(work[c].of), work[c].n, work[c].max)
                    THEN [work[c] EXCEPT !.at = "counted"] ELSE Free
  <2>1. w \in Works /\ w.at \in {"counted", "free"}
    <3>1. work[c].at = "create" /\ work[c] \in Works
      BY <1>2 DEF CreateCount
    <3>2. work[c] \in [at : {"create", "counted"}, of : Resource, n : {1, 2}, sku : Skus, max : Nat]
      BY <3>1 DEF Works, Free
    <3>3. [work[c] EXCEPT !.at = "counted"] \in Works /\ [work[c] EXCEPT !.at = "counted"].at = "counted"
      BY <3>2 DEF Works
    <3>4. Free \in Works /\ Free.at = "free"
      BY DEF Works, Free
    <3> QED
      BY <3>3, <3>4
  <2>2. work' = [work EXCEPT ![c] = w]
    BY <1>2 DEF CreateCount
  <2> HIDE DEF w
  <2>3. work' \in [Clerk -> Works] /\ work'[c] = w /\ \A d \in Clerk : d # c => work'[d] = work[d]
    BY <2>1, <2>2
  <2>4. UNCHANGED <<plan, shelf, others, job, labels, crossed, imported>>
    BY <1>2 DEF CreateCount
  <2>5. LabelsOnShelf'
    BY <2>1, <2>3, <2>4 DEF LabelsOnShelf
  <2> QED
    BY <2>3, <2>4, <2>5
<1>3. CASE CreateCommit(c)
  <2>1. work' \in [Clerk -> Works] /\ work'[c] = Free /\ \A d \in Clerk : d # c => work'[d] = work[d]
    BY <1>3, EndType DEF CreateCommit
  <2>2. UNCHANGED <<plan, job, labels, crossed, imported>>
    BY <1>3 DEF CreateCommit
  <2>3. CASE work[c].of # "products"
    <3>1. work[c].of \in {"stores", "users"}
      BY <1>3, <2>3 DEF CreateCommit, Works, Free, Resource
    <3>2. others' \in [{"stores", "users"} -> Nat] /\ shelf' = shelf
      BY <1>3, <2>3, <3>1 DEF CreateCommit
    <3>3. LabelsOnShelf'
      BY <2>1, <2>2, <3>2, FreeIsWork DEF LabelsOnShelf
    <3> QED
      BY <2>1, <2>2, <3>2, <3>3
  <2>4. CASE work[c].of = "products"
    <3>1. others' = others
      BY <1>3, <2>4 DEF CreateCommit
    <3>2. shelf' \in Seq(ProductRow) /\ Len(shelf') = Len(shelf) + work[c].n /\ work[c].n \in {1, 2}
      BY <1>3, <2>4, Appended
    <3>3. \A p \in 1 .. Len(shelf) : p \in 1 .. Len(shelf')
      BY <3>2
    <3>4. LabelsOnShelf'
      BY <2>1, <2>2, <3>3, FreeIsWork DEF LabelsOnShelf
    <3> QED
      BY <2>1, <2>2, <3>1, <3>2, <3>4
  <2> QED
    BY <2>3, <2>4
<1>4. CASE CreateFails(c)
  <2>1. work' \in [Clerk -> Works] /\ work'[c] = Free /\ \A d \in Clerk : d # c => work'[d] = work[d]
    BY <1>4, EndType DEF CreateFails
  <2>2. UNCHANGED <<plan, shelf, others, job, labels, crossed, imported>>
    BY <1>4 DEF CreateFails
  <2>3. LabelsOnShelf'
    BY <2>1, <2>2, FreeIsWork DEF LabelsOnShelf
  <2> QED
    BY <2>1, <2>2, <2>3
<1>5. ASSUME NEW target \in Plan, ChangePlanRead(c, target)
      PROVE  CatType' /\ LabelsOnShelf'
  <2> DEFINE w == [at |-> "replan", to |-> target]
  <2>1. w \in Works /\ w.at = "replan"
    BY DEF Works
  <2>2. Begin(c, w)
    BY <1>5 DEF ChangePlanRead
  <2> HIDE DEF w
  <2>3. crossed' \in BOOLEAN
    BY <1>5, Zenon DEF ChangePlanRead, Overlap
  <2>4. UNCHANGED <<plan, shelf, others, job, labels, imported>>
    BY <1>5 DEF ChangePlanRead
  <2>5. work' \in [Clerk -> Works] /\ work'[c] = w /\ \A d \in Clerk : d # c => work'[d] = work[d]
    BY <2>1, <2>2, BeginType
  <2>6. LabelsOnShelf'
    BY <2>1, <2>4, <2>5 DEF LabelsOnShelf
  <2> QED
    BY <2>3, <2>4, <2>5, <2>6
<1>6. CASE ChangePlanCommit(c)
  <2>1. work' \in [Clerk -> Works] /\ work'[c] = Free /\ \A d \in Clerk : d # c => work'[d] = work[d]
    BY <1>6, EndType DEF ChangePlanCommit
  <2>2. plan' \in Plan /\ UNCHANGED <<shelf, others, job, labels, crossed, imported>>
    BY <1>6, WorkShape DEF ChangePlanCommit
  <2>3. LabelsOnShelf'
    BY <2>1, <2>2, FreeIsWork DEF LabelsOnShelf
  <2> QED
    BY <2>1, <2>2, <2>3
<1> QED
  BY <1>1, <1>2, <1>3, <1>4, <1>5, <1>6

(* An edit keeps its row where it is, and where the row came from.         *)
LEMMA EditType ==
  ASSUME CatType, LabelsOnShelf,
         \/ \E p \in Sold, s \in Skus, code \in Codes : UpdateProduct(p, s, code)
         \/ \E p \in Sold : DeleteProduct(p)
  PROVE  /\ CatType' /\ LabelsOnShelf' /\ Len(shelf') = Len(shelf)
         /\ UNCHANGED <<plan, others, work, job, labels, crossed, imported>>
<1> USE DEF CatType
<1>1. PICK p \in Sold, r \in ProductRow :
        /\ shelf' = [shelf EXCEPT ![p] = r]
        /\ UNCHANGED <<plan, others, work, job, labels, crossed, imported>>
  <2>1. ASSUME NEW p \in Sold PROVE p \in 1 .. Len(shelf) /\ shelf[p] \in ProductRow
    BY DEF Sold
  <2>2. ASSUME NEW p \in Sold, NEW s \in Skus, NEW code \in Codes, UpdateProduct(p, s, code)
        PROVE  /\ shelf' = [shelf EXCEPT ![p] = [shelf[p] EXCEPT !.sku = s, !.code = code]]
               /\ [shelf[p] EXCEPT !.sku = s, !.code = code] \in ProductRow
               /\ UNCHANGED <<plan, others, work, job, labels, crossed, imported>>
    BY <2>1, <2>2 DEF UpdateProduct, ProductRow, Skus, Codes
  <2>3. ASSUME NEW p \in Sold, DeleteProduct(p)
        PROVE  /\ shelf' = [shelf EXCEPT ![p] = [shelf[p] EXCEPT !.state = "deleted"]]
               /\ [shelf[p] EXCEPT !.state = "deleted"] \in ProductRow
               /\ UNCHANGED <<plan, others, work, job, labels, crossed, imported>>
    <3>1. [shelf[p] EXCEPT !.state = "deleted"] \in ProductRow
      BY <2>1 DEF ProductRow
    <3> QED
      BY <2>3, <3>1 DEF DeleteProduct, histories
  <2> QED
    BY <2>2, <2>3
<1>2. shelf' \in Seq(ProductRow) /\ Len(shelf') = Len(shelf)
  BY <1>1, ExceptSeq DEF Sold
<1> QED
  BY <1>1, <1>2 DEF LabelsOnShelf

LEMMA LabelType ==
  ASSUME CatType, LabelsOnShelf, NEW c \in Clerk,
         \/ \E p \in Sold, code \in Barcode : LabelsRead(c, p, code)
         \/ LabelsCommit(c)
  PROVE  CatType' /\ LabelsOnShelf'
<1> USE DEF CatType
<1>1. ASSUME NEW p \in Sold, NEW code \in Barcode, LabelsRead(c, p, code)
      PROVE  CatType' /\ LabelsOnShelf'
  <2> DEFINE w == [at |-> "label", product |-> p, code |-> code]
  <2>1. p \in 1 .. Len(shelf) /\ p \in Nat \ {0}
    BY DEF Sold
  <2>2. w \in Works /\ w.at = "label" /\ w.product = p
    BY <2>1 DEF Works
  <2>3. Begin(c, w) /\ UNCHANGED <<plan, shelf, others, job, labels, crossed, imported>>
    BY <1>1 DEF LabelsRead
  <2> HIDE DEF w
  <2>4. work' \in [Clerk -> Works] /\ work'[c] = w /\ \A d \in Clerk : d # c => work'[d] = work[d]
    BY <2>2, <2>3, BeginType
  <2>5. LabelsOnShelf'
    BY <2>1, <2>2, <2>3, <2>4 DEF LabelsOnShelf
  <2> QED
    BY <2>3, <2>4, <2>5
<1>2. CASE LabelsCommit(c)
  <2> DEFINE p == work[c].product
             code == work[c].code
             r == [shelf[p] EXCEPT !.code = code]
             l == [product |-> p, code |-> code]
  <2>1. p \in 1 .. Len(shelf) /\ p \in Nat \ {0} /\ code \in Barcode
    BY <1>2, WorkShape DEF LabelsCommit, LabelsOnShelf
  <2>2. r \in ProductRow
    <3>1. shelf[p] \in ProductRow
      BY <2>1
    <3> QED
      BY <2>1, <3>1 DEF ProductRow, Codes
  <2>3. shelf' = [shelf EXCEPT ![p] = r] /\ labels' = labels \cup {l}
          /\ UNCHANGED <<plan, others, job, crossed, imported>>
    BY <1>2 DEF LabelsCommit, histories
  <2>4. l \in [product : Nat \ {0}, code : Barcode] /\ l.product = p
    BY <2>1
  <2>5. work' \in [Clerk -> Works] /\ work'[c] = Free /\ \A d \in Clerk : d # c => work'[d] = work[d]
    BY <1>2, EndType DEF LabelsCommit
  <2> HIDE DEF p, r, l
  <2>6. shelf' \in Seq(ProductRow) /\ Len(shelf') = Len(shelf)
    BY <2>1, <2>2, <2>3, ExceptSeq
  <2>7. LabelsOnShelf'
    BY <2>1, <2>3, <2>4, <2>5, <2>6, FreeIsWork DEF LabelsOnShelf
  <2> QED
    BY <2>3, <2>4, <2>5, <2>6, <2>7
<1> QED
  BY <1>1, <1>2

CsvStep == UploadCsv \/ TakeCsvJob \/ CsvRow \/ CsvCommit \/ CsvFails \/ CsvWorkerDies \/ CsvAck

LEMMA CsvType ==
  ASSUME CatType, LabelsOnShelf, CsvStep
  PROVE  /\ CatType' /\ LabelsOnShelf' /\ Len(shelf) <= Len(shelf')
         /\ \A p \in 1 .. Len(shelf) : shelf'[p] = shelf[p]
         /\ UNCHANGED <<plan, others, work, labels, crossed, touched>>
<1> USE DEF CatType, histories
<1>0. Len(shelf) \in Nat /\ job \in Jobs
  OBVIOUS
<1>1. UNCHANGED <<plan, others, work, labels, crossed, touched>> /\ imported' \in BOOLEAN
  <2>1. CASE CsvCommit
    BY <2>1 DEF CsvCommit
  <2>2. CASE UploadCsv \/ TakeCsvJob \/ CsvRow \/ CsvFails \/ CsvWorkerDies \/ CsvAck
    BY <2>2 DEF UploadCsv, TakeCsvJob, CsvRow, CsvFails, CsvWorkerDies, CsvAck
  <2> QED
    BY <2>1, <2>2 DEF CsvStep
<1>2. job' \in Jobs
  <2>1. CASE CsvRow
    <3> DEFINE made == NewRow(File[job.next].sku, File[job.next].code, job.next)
               more == IF Exists(File[job.next]) THEN job.new ELSE Append(job.new, made)
    <3>1. job.next \in 1 .. Len(File) /\ job.next + 1 \in 1 .. Len(File) + 1
      BY <1>0, <2>1, FileType DEF CsvRow, Jobs
    <3>2. made \in ProductRow
      BY <3>1, FileType, RowType
    <3> HIDE DEF made
    <3>3. more \in Seq(ProductRow)
      BY <1>0, <3>2 DEF Jobs
    <3>4. job' = [job EXCEPT !.next = job.next + 1, !.new = more]
      BY <1>0, <2>1 DEF CsvRow, Jobs, made
    <3> HIDE DEF more
    <3> QED
      BY <1>0, <3>1, <3>3, <3>4 DEF Jobs
  <2>2. CASE UploadCsv \/ CsvCommit \/ CsvAck
    BY <1>0, <2>2 DEF UploadCsv, CsvCommit, CsvAck, Jobs
  <2>3. CASE TakeCsvJob \/ CsvFails \/ CsvWorkerDies
    <3>1. 1 \in 1 .. Len(File) + 1 /\ <<>> \in Seq(ProductRow) /\ job.attempt \in Int
      BY <1>0, FileType DEF Jobs
    <3>2. PICK state \in {"waiting", "failed", "running"}, n \in Int :
            job' = [state |-> state, attempt |-> n, next |-> 1, new |-> <<>>]
      <4>1. CASE TakeCsvJob
        BY <3>1, <4>1 DEF TakeCsvJob
      <4>2. CASE CsvFails
        BY <3>1, <4>2 DEF CsvFails, NoJob
      <4>3. CASE CsvWorkerDies
        <5> DEFINE n == job.attempt - 1
        <5>1. n \in Int
          BY <3>1
        <5>2. job' = [NoJob EXCEPT !.state = "waiting", !.attempt = n]
          BY <4>3 DEF CsvWorkerDies
        <5> HIDE DEF n
        <5> QED
          BY <5>1, <5>2 DEF NoJob
      <4> QED
        BY <2>3, <4>1, <4>2, <4>3
    <3> QED
      BY <3>1, <3>2 DEF Jobs
  <2> QED
    BY <2>1, <2>2, <2>3 DEF CsvStep
<1>3. /\ shelf' \in Seq(ProductRow) /\ Len(shelf) <= Len(shelf')
      /\ \A p \in 1 .. Len(shelf) : shelf'[p] = shelf[p]
  <2>1. CASE CsvCommit
    <3>1. shelf' = shelf \o job.new /\ job.new \in Seq(ProductRow)
      BY <1>0, <2>1 DEF CsvCommit, Jobs
    <3> QED
      BY <3>1, <1>0, ConcatProperties
  <2>2. CASE UploadCsv \/ TakeCsvJob \/ CsvRow \/ CsvFails \/ CsvWorkerDies \/ CsvAck
    <3>1. shelf' = shelf
      BY <2>2 DEF UploadCsv, TakeCsvJob, CsvRow, CsvFails, CsvWorkerDies, CsvAck
    <3> QED
      BY <3>1
  <2> QED
    BY <2>1, <2>2 DEF CsvStep
<1>4. LabelsOnShelf'
  BY <1>0, <1>1, <1>3 DEF LabelsOnShelf
<1> QED
  BY <1>1, <1>2, <1>3, <1>4

CreateStep(c) ==
  \/ \E r \in Resource, n \in {1, 2}, s \in Skus : CreateBegin(c, r, n, s)
  \/ CreateCount(c) \/ CreateCommit(c) \/ CreateFails(c)
  \/ \E target \in Plan : ChangePlanRead(c, target)
  \/ ChangePlanCommit(c)
EditStep ==
  \/ \E p \in Sold, s \in Skus, code \in Codes : UpdateProduct(p, s, code)
  \/ \E p \in Sold : DeleteProduct(p)
LabelStep(c) ==
  (\E p \in Sold, code \in Barcode : LabelsRead(c, p, code)) \/ LabelsCommit(c)

(* The kinds of step.                                                      *)
LEMMA CatSteps ==
  ASSUME CatNext
  PROVE  \/ \E c \in Clerk : CreateStep(c) \/ LabelStep(c)
         \/ EditStep \/ CsvStep
BY DEF CatNext, CreateStep, LabelStep, EditStep, CsvStep, Skus, Codes

LEMMA CatStepType ==
  CatType /\ LabelsOnShelf /\ [CatNext]_catVars => (CatType /\ LabelsOnShelf)'
<1> SUFFICES ASSUME CatType, LabelsOnShelf, [CatNext]_catVars
             PROVE  CatType' /\ LabelsOnShelf'
  OBVIOUS
<1>1. ASSUME NEW c \in Clerk, CreateStep(c) PROVE CatType' /\ LabelsOnShelf'
  BY <1>1, CreateType DEF CreateStep
<1>2. ASSUME NEW c \in Clerk, LabelStep(c) PROVE CatType' /\ LabelsOnShelf'
  BY <1>2, LabelType DEF LabelStep
<1>3. CASE EditStep
  BY <1>3, EditType DEF EditStep
<1>4. CASE CsvStep
  BY <1>4, CsvType
<1>5. CASE UNCHANGED catVars
  BY <1>5 DEF catVars, histories, CatType, LabelsOnShelf
<1> QED
  BY <1>1, <1>2, <1>3, <1>4, <1>5, CatSteps

--------------------------------------------------------------------------------
(* A request that prints labels holds the code its product has or is to be *)
(* given, and no other request is about to give it another.                *)
LabelsFit ==
  /\ \A c \in Clerk : work[c].at = "label" =>
       \/ work[c].product \in touched
       \/ shelf[work[c].product].code \in {NoCode, work[c].code}
  /\ \A c, d \in Clerk :
       c # d /\ work[c].at = "label" /\ work[d].at = "label" /\ work[c].product = work[d].product
       => work[c].product \in touched

LabelInv == LabelsScan /\ LabelsFit

(* What leaves labels alone: the codes of the shelf, what is printed and   *)
(* who prints stay.                                                        *)
LEMMA CodesStay ==
  ASSUME CatType, LabelsOnShelf, LabelInv, touched \subseteq touched', labels' = labels,
         \A c \in Clerk : work'[c].at = "label" => work[c].at = "label" /\ work'[c] = work[c],
         \A p \in 1 .. Len(shelf) : shelf'[p].code = shelf[p].code \/ p \in touched'
  PROVE  LabelInv'
<1>1. LabelsScan'
  BY DEF LabelInv, LabelsScan, LabelsOnShelf
<1>2. ASSUME NEW c \in Clerk, work'[c].at = "label"
      PROVE  /\ work'[c] = work[c] /\ work[c].at = "label" /\ work[c].product \in 1 .. Len(shelf)
             /\ \/ work'[c].product \in touched'
                \/ shelf'[work'[c].product].code \in {NoCode, work'[c].code}
  <2>1. work'[c] = work[c] /\ work[c].at = "label" /\ work[c].product \in 1 .. Len(shelf)
    BY <1>2 DEF LabelsOnShelf
  <2>2. work[c].product \in touched \/ shelf[work[c].product].code \in {NoCode, work[c].code}
    BY <2>1 DEF LabelInv, LabelsFit
  <2> QED
    BY <2>1, <2>2
<1>3. ASSUME NEW c \in Clerk, NEW d \in Clerk, c # d, work'[c].at = "label",
             work'[d].at = "label", work'[c].product = work'[d].product
      PROVE  work'[c].product \in touched'
  BY <1>2, <1>3 DEF LabelInv, LabelsFit
<1>4. LabelsFit'
  BY <1>2, <1>3 DEF LabelsFit
<1> QED
  BY <1>1, <1>4 DEF LabelInv

LEMMA LabelStepKeeps ==
  ASSUME CatType, LabelsOnShelf, LabelInv, NEW c \in Clerk, LabelStep(c)
  PROVE  LabelInv'
<1> USE DEF LabelInv
<1>1. ASSUME NEW p \in Sold, NEW code \in Barcode, LabelsRead(c, p, code)
      PROVE  LabelInv'
  <2> DEFINE w == [at |-> "label", product |-> p, code |-> code]
  <2>1. w \in Works /\ w.product = p /\ w.code = code
    BY DEF Works, Sold, CatType
  <2>2. Begin(c, w) /\ UNCHANGED <<shelf, labels>>
    BY <1>1 DEF LabelsRead
  <2> HIDE DEF w
  <2>3. work'[c] = w /\ (\A d \in Clerk : d # c => work'[d] = work[d])
    BY <2>1, <2>2, BeginType
  <2>4. touched \subseteq touched'
    BY <1>1 DEF LabelsRead
  <2>5. shelf[p].code \in {NoCode, code}
    BY <1>1 DEF LabelsRead, LabelCode
  <2>6. ASSUME NEW d \in Clerk, work[d].at = "label", work[d].product = p
        PROVE  p \in touched'
    BY <1>1, <2>6 DEF LabelsRead
  <2>7. LabelsScan'
    BY <2>2, <2>4 DEF LabelsScan
  <2>8. LabelsFit'
    <3>1. ASSUME NEW d \in Clerk, work'[d].at = "label"
          PROVE  \/ work'[d].product \in touched'
                 \/ shelf'[work'[d].product].code \in {NoCode, work'[d].code}
      <4>1. CASE d = c
        BY <2>1, <2>2, <2>3, <2>5, <4>1
      <4>2. CASE d # c
        BY <2>2, <2>3, <2>4, <3>1, <4>2 DEF LabelsFit
      <4> QED
        BY <4>1, <4>2
    <3>2. ASSUME NEW d \in Clerk, NEW e \in Clerk, d # e, work'[d].at = "label",
                 work'[e].at = "label", work'[d].product = work'[e].product
          PROVE  work'[d].product \in touched'
      <4>1. CASE d = c \/ e = c
        BY <2>1, <2>3, <2>6, <3>2, <4>1
      <4>2. CASE d # c /\ e # c
        BY <2>3, <2>4, <3>2, <4>2 DEF LabelsFit
      <4> QED
        BY <4>1, <4>2
    <3> QED
      BY <3>1, <3>2 DEF LabelsFit
  <2> QED
    BY <2>7, <2>8
<1>2. CASE LabelsCommit(c)
  <2> DEFINE p == work[c].product
             code == work[c].code
  <2>1. p \in 1 .. Len(shelf) /\ work[c].at = "label" /\ code \in Barcode
    BY <1>2, WorkShape DEF LabelsCommit, LabelsOnShelf
  <2>2. labels' = labels \cup {[product |-> p, code |-> code]} /\ touched' = touched
    BY <1>2 DEF LabelsCommit, histories
  <2>3. /\ shelf'[p].code = code
        /\ \A q \in 1 .. Len(shelf) : q # p => shelf'[q] = shelf[q]
    <3>1. shelf[p] \in ProductRow /\ shelf' = [shelf EXCEPT ![p].code = code]
      BY <1>2, <2>1 DEF LabelsCommit, CatType
    <3> QED
      BY <2>1, <3>1 DEF CatType, ProductRow
  <2>4. work'[c].at = "free" /\ (\A d \in Clerk : d # c => work'[d] = work[d])
    BY <1>2, EndType, FreeIsWork DEF LabelsCommit
  <2>5. p \in touched \/ shelf[p].code \in {NoCode, code}
    BY <2>1 DEF LabelsFit
  <2>6. ASSUME NEW l \in labels, l.product = p, p \notin touched
        PROVE  l.code = code
    <3>1. l.code \in Barcode /\ l.code = shelf[p].code
      BY <2>6 DEF CatType, LabelsScan
    <3> QED
      BY <2>5, <2>6, <3>1
  <2> HIDE DEF p, code
  <2>7. LabelsScan'
    <3> SUFFICES ASSUME NEW l \in labels' PROVE shelf'[l.product].code = l.code \/ l.product \in touched
      BY <2>2 DEF LabelsScan
    <3>1. CASE l = [product |-> p, code |-> code]
      BY <2>3, <3>1
    <3>2. CASE l \in labels /\ l.product = p
      BY <2>3, <2>6, <3>2
    <3>3. CASE l \in labels /\ l.product # p
      BY <2>3, <3>3 DEF LabelsScan, LabelsOnShelf
    <3> QED
      BY <2>2, <3>1, <3>2, <3>3
  <2>8. ASSUME NEW d \in Clerk, work'[d].at = "label"
        PROVE  d # c /\ work'[d] = work[d] /\ (work[d].product = p => p \in touched)
    BY <2>1, <2>4, <2>8 DEF LabelsFit, p
  <2>9. ASSUME NEW d \in Clerk, work'[d].at = "label"
        PROVE  \/ work'[d].product \in touched'
               \/ shelf'[work'[d].product].code \in {NoCode, work'[d].code}
    <3>1. work[d].at = "label" /\ work[d].product \in 1 .. Len(shelf)
      BY <2>8, <2>9 DEF LabelsOnShelf
    <3>2. work[d].product \in touched \/ shelf[work[d].product].code \in {NoCode, work[d].code}
      BY <3>1 DEF LabelsFit
    <3> QED
      BY <2>2, <2>3, <2>8, <2>9, <3>1, <3>2
  <2>10. ASSUME NEW d \in Clerk, NEW e \in Clerk, d # e, work'[d].at = "label",
                work'[e].at = "label", work'[d].product = work'[e].product
         PROVE  work'[d].product \in touched'
    <3>1. work'[d] = work[d] /\ work'[e] = work[e]
      BY <2>8, <2>10
    <3> QED
      BY <2>2, <2>10, <3>1 DEF LabelsFit
  <2>11. LabelsFit'
    BY <2>9, <2>10 DEF LabelsFit
  <2> QED
    BY <2>7, <2>11
<1> QED
  BY <1>1, <1>2 DEF LabelStep

(* A request that creates leaves every label, its own included, alone.     *)
LEMMA CreateFrame ==
  ASSUME CatType, NEW c \in Clerk, CreateStep(c)
  PROVE  /\ work[c].at # "label" /\ work'[c].at # "label"
         /\ \A d \in Clerk : d # c => work'[d] = work[d]
         /\ Len(shelf) <= Len(shelf') /\ \A p \in 1 .. Len(shelf) : shelf'[p] = shelf[p]
         /\ UNCHANGED <<labels, touched, job, imported>>
<1>0. Len(shelf) \in Nat /\ work \in [Clerk -> Works] /\ Free.at = "free"
  BY FreeIsWork DEF CatType
<1>1. ASSUME NEW r \in Resource, NEW n \in {1, 2}, NEW s \in Skus, CreateBegin(c, r, n, s)
      PROVE  /\ work[c].at = "free" /\ work'[c].at = "create"
             /\ \A d \in Clerk : d # c => work'[d] = work[d]
             /\ UNCHANGED <<shelf, labels, touched, job, imported>>
  BY <1>0, <1>1 DEF CreateBegin, Begin
<1>2. ASSUME NEW target \in Plan, ChangePlanRead(c, target)
      PROVE  /\ work[c].at = "free" /\ work'[c].at = "replan"
             /\ \A d \in Clerk : d # c => work'[d] = work[d]
             /\ UNCHANGED <<shelf, labels, touched, job, imported>>
  BY <1>0, <1>2 DEF ChangePlanRead, Begin
<1>3. CASE CreateCount(c)
  <2>1. work[c].at = "create" /\ UNCHANGED <<shelf, labels, touched, job, imported>>
    BY <1>3 DEF CreateCount, histories
  <2>2. work'[c] \in {[work[c] EXCEPT !.at = "counted"], Free}
    BY <1>0, <1>3 DEF CreateCount
  <2>3. [work[c] EXCEPT !.at = "counted"].at = "counted"
    BY <2>1, WorkShape
  <2>4. \A d \in Clerk : d # c => work'[d] = work[d]
    BY <1>0, <1>3 DEF CreateCount
  <2>5. work'[c].at \in {"counted", "free"}
    BY <1>0, <2>2, <2>3
  <2>6. shelf' = shelf /\ UNCHANGED <<labels, touched, job, imported>>
    BY <2>1
  <2> QED
    BY <1>0, <2>1, <2>4, <2>5, <2>6
<1>4. CASE CreateFails(c) \/ ChangePlanCommit(c)
  BY <1>0, <1>4 DEF CreateFails, ChangePlanCommit, End, histories
<1>5. CASE CreateCommit(c)
  <2>1. /\ work[c].at = "counted" /\ work'[c].at = "free"
        /\ \A d \in Clerk : d # c => work'[d] = work[d]
        /\ UNCHANGED <<labels, touched, job, imported>>
    BY <1>0, <1>5 DEF CreateCommit, End, histories
  <2>2. CASE work[c].of = "products"
    BY <1>0, <1>5, <2>1, <2>2, Appended
  <2>3. CASE work[c].of # "products"
    BY <1>0, <1>5, <2>1, <2>3 DEF CreateCommit
  <2> QED
    BY <2>2, <2>3
<1> QED
  BY <1>0, <1>1, <1>2, <1>3, <1>4, <1>5 DEF CreateStep

(* An edit that changes a code is remembered.                              *)
LEMMA EditFrame ==
  ASSUME CatType, EditStep
  PROVE  /\ touched \subseteq touched' /\ Len(shelf') = Len(shelf)
         /\ \A p \in 1 .. Len(shelf) :
              /\ shelf'[p].from = shelf[p].from
              /\ shelf'[p].state = "live" => shelf[p].state = "live"
              /\ \/ shelf'[p].sku = shelf[p].sku /\ shelf'[p].code = shelf[p].code
                 \/ p \in touched'
<1> USE DEF CatType
<1>0. \A q \in 1 .. Len(shelf) : shelf[q] \in ProductRow
  OBVIOUS
<1>1. ASSUME NEW p \in Sold, NEW s \in Skus, NEW code \in Codes, UpdateProduct(p, s, code)
      PROVE  /\ touched \subseteq touched' /\ Len(shelf') = Len(shelf)
             /\ \A q \in 1 .. Len(shelf) :
                  /\ shelf'[q].from = shelf[q].from /\ shelf'[q].state = shelf[q].state
                  /\ \/ shelf'[q].sku = shelf[q].sku /\ shelf'[q].code = shelf[q].code
                     \/ q \in touched'
  <2> DEFINE r == [shelf[p] EXCEPT !.sku = s, !.code = code]
  <2>1. p \in 1 .. Len(shelf) /\ shelf[p] \in ProductRow
    BY DEF Sold
  <2>2. r.from = shelf[p].from /\ r.state = shelf[p].state /\ r.sku = s /\ r.code = code
    BY <2>1 DEF ProductRow
  <2>3. shelf' = [shelf EXCEPT ![p] = r]
    BY <1>1, <2>1 DEF UpdateProduct, ProductRow
  <2>4. (s = shelf[p].sku /\ code = shelf[p].code) \/ p \in touched'
    BY <1>1 DEF UpdateProduct
  <2>5. touched \subseteq touched'
    BY <1>1 DEF UpdateProduct
  <2> HIDE DEF r
  <2>6. Len(shelf') = Len(shelf) /\ shelf'[p] = r
          /\ \A q \in 1 .. Len(shelf) : q # p => shelf'[q] = shelf[q]
    BY <2>1, <2>3
  <2> QED
    BY <2>2, <2>4, <2>5, <2>6
<1>2. ASSUME NEW p \in Sold, DeleteProduct(p)
      PROVE  /\ touched' = touched /\ Len(shelf') = Len(shelf)
             /\ \A q \in 1 .. Len(shelf) :
                  /\ shelf'[q].from = shelf[q].from
                  /\ shelf'[q].state = "live" => shelf[q].state = "live"
                  /\ shelf'[q].sku = shelf[q].sku /\ shelf'[q].code = shelf[q].code
  <2> DEFINE r == [shelf[p] EXCEPT !.state = "deleted"]
  <2>1. p \in 1 .. Len(shelf) /\ shelf[p] \in ProductRow
    BY DEF Sold
  <2>2. r.from = shelf[p].from /\ r.state = "deleted" /\ r.sku = shelf[p].sku /\ r.code = shelf[p].code
    BY <2>1 DEF ProductRow
  <2>3. shelf' = [shelf EXCEPT ![p] = r] /\ touched' = touched
    BY <1>2 DEF DeleteProduct, histories
  <2> HIDE DEF r
  <2>4. Len(shelf') = Len(shelf) /\ shelf'[p] = r
          /\ \A q \in 1 .. Len(shelf) : q # p => shelf'[q] = shelf[q]
    BY <2>1, <2>3
  <2> QED
    BY <2>2, <2>3, <2>4
<1>3. CASE \E p \in Sold, s \in Skus, code \in Codes : UpdateProduct(p, s, code)
  BY <1>1, <1>3
<1>4. CASE \E p \in Sold : DeleteProduct(p)
  BY <1>2, <1>4
<1> QED
  BY <1>3, <1>4 DEF EditStep

LEMMA LabelKeeps ==
  ASSUME CatType, LabelsOnShelf, LabelInv, [CatNext]_catVars
  PROVE  LabelInv'
<1>1. ASSUME NEW c \in Clerk, CreateStep(c) PROVE LabelInv'
  <2>1. \A d \in Clerk : work'[d].at = "label" => work[d].at = "label" /\ work'[d] = work[d]
    BY <1>1, CreateFrame
  <2> QED
    BY <1>1, <2>1, CreateFrame, CodesStay
<1>2. ASSUME NEW c \in Clerk, LabelStep(c) PROVE LabelInv'
  BY <1>2, LabelStepKeeps
<1>3. CASE EditStep
  <2>1. UNCHANGED <<work, labels>>
    BY <1>3, EditType DEF EditStep
  <2> QED
    BY <1>3, <2>1, EditFrame, CodesStay
<1>4. CASE CsvStep
  BY <1>4, CsvType, CodesStay
<1>5. CASE UNCHANGED catVars
  BY <1>5 DEF catVars, histories, LabelInv, LabelsScan, LabelsFit
<1> QED
  BY <1>1, <1>2, <1>3, <1>4, <1>5, CatSteps

(* A label on the shelf keeps naming its product, whatever is created,     *)
(* deleted, imported or labelled again, unless the code of the product is  *)
(* edited or two requests label it at once (catalog/products.ts).          *)
THEOREM LabelsKeepScanning == CatSpec => []LabelsScan
<1>1. CatInit => CatType /\ LabelsOnShelf /\ LabelInv
  <2> SUFFICES ASSUME CatInit PROVE LabelInv
    BY CatInitType
  <2>1. labels = {} /\ \A c \in Clerk : work[c].at = "free"
    BY FreeIsWork DEF CatInit
  <2> QED
    BY <2>1 DEF LabelInv, LabelsScan, LabelsFit
<1>2. CatType /\ LabelsOnShelf /\ LabelInv /\ [CatNext]_catVars
        => (CatType /\ LabelsOnShelf /\ LabelInv)'
  BY CatStepType, LabelKeeps
<1>3. LabelInv => LabelsScan
  BY DEF LabelInv
<1> QED
  BY <1>1, <1>2, <1>3, PTL DEF CatSpec

--------------------------------------------------------------------------------
(* As long as requests that count come one at a time and no file has been  *)
(* imported, what one of them has found out is still so when it writes.    *)
OneAtATime == \A c, d \in Clerk : c # d /\ Limited(c) => ~Limited(d)
CountsFit(p) == \A r \in Resource : CountOf(r) <= Room[p][r]
RoomIsRead == \A c \in Clerk : work[c].at \in {"create", "counted"} => work[c].max = Room[plan][work[c].of]
RoomIsLeft == \A c \in Clerk : work[c].at = "counted" =>
                 CountOf(work[c].of) + work[c].n <= Room[plan][work[c].of]
TargetHolds == \A c \in Clerk : work[c].at = "replan" => CountsFit(work[c].to)

PlanFits == OneAtATime /\ CountsFit(plan) /\ RoomIsRead /\ RoomIsLeft /\ TargetHolds
PlanInv == crossed \/ imported \/ PlanFits

CountNat ==
  /\ IsFiniteSet(Sold) /\ Sold \subseteq 1 .. Len(shelf)
  /\ \A r \in Resource : CountOf(r) \in Nat

LEMMA CountsType ==
  CatType => CountNat
<1> SUFFICES ASSUME CatType PROVE CountNat
  OBVIOUS
<1>1. Len(shelf) \in Nat /\ DOMAIN shelf = 1 .. Len(shelf)
  BY DEF CatType
<1>2. IsFiniteSet(1 .. Len(shelf)) /\ Sold \subseteq 1 .. Len(shelf)
  BY <1>1, FS_Interval DEF Sold
<1>3. IsFiniteSet(Sold) /\ Cardinality(Sold) \in Nat
  BY <1>2, FS_Subset, FS_CardinalityType
<1>4. \A r \in {"stores", "users"} : others[r] \in Nat
  BY DEF CatType
<1> QED
  BY <1>2, <1>3, <1>4 DEF CountNat, CountOf, Resource

LEMMA RoomType ==
  \A p \in Plan, r \in Resource : Room[p][r] \in Nat
OBVIOUS

(* Fewer products on sale are fewer to count.                              *)
LEMMA SoldLess ==
  ASSUME CatType, Sold' \subseteq Sold, others' = others
  PROVE  \A r \in Resource : CountOf(r)' <= CountOf(r)
<1>1. CountNat
  BY CountsType
<1>2. Cardinality(Sold') <= Cardinality(Sold)
  BY <1>1, FS_Subset DEF CountNat
<1>3. \A r \in Resource : r # "products" => CountOf(r)' = CountOf(r)
  BY DEF CountOf
<1> QED
  BY <1>1, <1>2, <1>3 DEF CountOf, CountNat

(* Nothing is lost when no more is there and nobody new counts.            *)
LEMMA PlanStays ==
  ASSUME CatType, CatType', PlanFits, plan' = plan,
         \A r \in Resource : CountOf(r)' <= CountOf(r),
         \A c \in Clerk : Limited(c)' => work'[c] = work[c]
  PROVE  PlanFits'
<1>1. CountNat /\ CountNat'
  BY CountsType, PTL
<1>2. \A r \in Resource : CountOf(r) \in Nat /\ CountOf(r)' \in Nat
  BY <1>1 DEF CountNat
<1>3. \A c \in Clerk : Limited(c)' => Limited(c)
  BY DEF Limited
<1>4. OneAtATime'
  BY <1>3 DEF PlanFits, OneAtATime
<1>5. ASSUME NEW p \in Plan, CountsFit(p)
      PROVE  \A r \in Resource : CountOf(r)' <= Room[p][r]
  BY <1>2, <1>5, RoomType DEF CountsFit
<1>6. CountsFit(plan)'
  BY <1>5 DEF PlanFits, CountsFit, CatType
<1>7. RoomIsRead'
  BY DEF PlanFits, RoomIsRead, Limited
<1>8. RoomIsLeft'
  <2> SUFFICES ASSUME NEW c \in Clerk, (work[c].at = "counted")'
               PROVE  (CountOf(work[c].of) + work[c].n <= Room[plan][work[c].of])'
    BY DEF RoomIsLeft
  <2>1. work'[c] = work[c] /\ work[c].at = "counted"
    BY DEF Limited
  <2>2. CountOf(work[c].of) + work[c].n <= Room[plan][work[c].of]
    BY <2>1 DEF PlanFits, RoomIsLeft
  <2>3. work[c].of \in Resource /\ work[c].n \in Nat
    BY <2>1, WorkShape
  <2> DEFINE of == work[c].of
             n == work[c].n
  <2>4. CountOf(of)' <= CountOf(of) /\ CountOf(of) \in Nat /\ CountOf(of)' \in Nat /\ Room[plan][of] \in Nat
    <3>1. \A r \in Resource : CountOf(r)' <= CountOf(r) /\ CountOf(r) \in Nat /\ CountOf(r)' \in Nat
      BY <1>2
    <3> QED
      BY <2>1, <2>3, <3>1, RoomType DEF CatType, CountOf
  <2> QED
    BY <2>1, <2>2, <2>3, <2>4
<1>9. TargetHolds'
  <2> SUFFICES ASSUME NEW c \in Clerk, (work[c].at = "replan")'
               PROVE  CountsFit(work[c].to)'
    BY DEF TargetHolds
  <2>1. work'[c] = work[c] /\ work[c].at = "replan"
    BY DEF Limited
  <2>2. work[c].to \in Plan /\ CountsFit(work[c].to)
    BY <2>1, WorkShape DEF PlanFits, TargetHolds
  <2> QED
    BY <1>5, <2>1, <2>2 DEF CountsFit
<1> QED
  BY <1>4, <1>6, <1>7, <1>8, <1>9 DEF PlanFits

LEMMA OneMoreOnSale ==
  ASSUME NEW S, NEW x, IsFiniteSet(S)
  PROVE  /\ IsFiniteSet(S \cup {x}) /\ Cardinality(S \cup {x}) \in Nat
         /\ Cardinality(S) \in Nat /\ Cardinality(S \cup {x}) <= Cardinality(S) + 1
<1>1. IsFiniteSet(S \cup {x}) /\ Cardinality(S \cup {x}) \in {Cardinality(S), Cardinality(S) + 1}
  BY FS_AddElement
<1>2. Cardinality(S) \in Nat /\ Cardinality(S \cup {x}) \in Nat
  BY <1>1, FS_CardinalityType
<1> QED
  BY <1>1, <1>2

(* What a request that counted adds is what it counted with.               *)
LEMMA CommitCount ==
  ASSUME CatType, NEW c \in Clerk, CreateCommit(c)
  PROVE  \A r \in Resource : CountOf(r)' <= IF r = work[c].of THEN CountOf(r) + work[c].n ELSE CountOf(r)
<1>0. CountNat /\ work[c].n \in {1, 2} /\ work[c].of \in Resource
  BY CountsType, WorkShape DEF CreateCommit
<1>1. CASE work[c].of # "products"
  <2>1. /\ others' = [others EXCEPT ![work[c].of] = others[work[c].of] + 1]
        /\ shelf' = shelf /\ work[c].of \in {"stores", "users"}
    BY <1>0, <1>1 DEF CreateCommit, Resource
  <2>2. \A r \in {"stores", "users"} :
          others[r] \in Nat /\ others'[r] = IF r = work[c].of THEN others[r] + 1 ELSE others[r]
    BY <2>1 DEF CatType
  <2>3. Sold' = Sold
    BY <2>1 DEF Sold
  <2>4. Cardinality(Sold) \in Nat
    BY <1>0 DEF CountNat, CountOf, Resource
  <2> QED
    BY <1>0, <1>1, <2>2, <2>3, <2>4 DEF CountOf, Resource
<1>2. CASE work[c].of = "products"
  <2> DEFINE len == Len(shelf)
             n == work[c].n
  <2>1. /\ shelf' \in Seq(ProductRow) /\ Len(shelf') = len + n /\ len \in Nat
        /\ \A p \in 1 .. len : shelf'[p] = shelf[p]
    BY <1>2, Appended DEF CatType
  <2>2. others' = others
    BY <1>2 DEF CreateCommit
  <2>3. Sold' \subseteq Sold \cup {len + 1, len + 2} /\ (n = 1 => Sold' \subseteq Sold \cup {len + 1})
    <3>1. DOMAIN shelf = 1 .. len /\ DOMAIN shelf' = 1 .. len + n
      BY <2>1 DEF CatType
    <3>2. \A p \in Sold' : p \in 1 .. len + n /\ (p \in 1 .. len => p \in Sold)
      BY <2>1, <3>1 DEF Sold
    <3>3. \A p \in 1 .. len + n : p \in 1 .. len \/ p = len + 1 \/ (n = 2 /\ p = len + 2)
      BY <1>0, <2>1
    <3> HIDE DEF n, len
    <3>4. \A p \in Sold' : p \in Sold \/ p = len + 1 \/ (n = 2 /\ p = len + 2)
      BY <3>2, <3>3
    <3> QED
      BY <3>4
  <2> DEFINE one == Sold \cup {len + 1}
             two == one \cup {len + 2}
  <2>4. IsFiniteSet(Sold) /\ Cardinality(Sold) \in Nat
    BY <1>0, FS_CardinalityType DEF CountNat
  <2>5. IsFiniteSet(one) /\ Cardinality(one) <= Cardinality(Sold) + 1 /\ Cardinality(one) \in Nat
    BY <2>4, OneMoreOnSale
  <2>6. IsFiniteSet(two) /\ Cardinality(two) <= Cardinality(Sold) + 2 /\ Cardinality(two) \in Nat
    <3> HIDE DEF one
    <3>1. IsFiniteSet(two) /\ Cardinality(two) <= Cardinality(one) + 1 /\ Cardinality(two) \in Nat
      BY <2>5, OneMoreOnSale
    <3> HIDE DEF two
    <3> QED
      BY <2>4, <2>5, <3>1
  <2>7. Sold' \subseteq two /\ (n = 1 => Sold' \subseteq one)
    BY <2>3
  <2> HIDE DEF one, two
  <2>8. IsFiniteSet(Sold') /\ Cardinality(Sold') \in Nat
    BY <2>6, <2>7, FS_Subset, FS_CardinalityType
  <2>9. Cardinality(Sold') <= Cardinality(two) /\ (n = 1 => Cardinality(Sold') <= Cardinality(one))
    BY <2>5, <2>6, <2>7, FS_Subset
  <2>10. Cardinality(Sold') <= Cardinality(Sold) + n
    BY <1>0, <2>4, <2>5, <2>6, <2>8, <2>9
  <2>11. \A r \in Resource : r # "products" => CountOf(r)' = CountOf(r) /\ CountOf(r) \in Nat
    BY <1>0, <2>2 DEF CountOf, CountNat
  <2> QED
    BY <1>2, <2>10, <2>11 DEF CountOf
<1> QED
  BY <1>1, <1>2

(* The steps of a request that counts, when no other request does.         *)
LEMMA CreatePlan ==
  ASSUME CatType, CatType', PlanFits, NEW c \in Clerk, CreateStep(c), ~crossed'
  PROVE  PlanFits'
<1>0. CountNat /\ CountNat' /\ work[c].at # "label" /\ \A d \in Clerk : d # c => work'[d] = work[d]
  BY CountsType, CreateFrame, PTL
<1>1. \A d \in Clerk : d # c => ~Limited(d)
  <2>1. CASE Limited(c)
    BY <2>1 DEF PlanFits, OneAtATime
  <2>2. CASE ~Limited(c)
    <3>1. Overlap(c)
      BY <2>2 DEF CreateStep, CreateBegin, ChangePlanRead, CreateCount, CreateCommit, CreateFails,
                  ChangePlanCommit, Limited
    <3> QED
      BY <3>1 DEF Overlap
  <2> QED
    BY <2>1, <2>2
<1>2. \A d \in Clerk : d # c => ~Limited(d)'
  BY <1>0, <1>1 DEF Limited
<1>3. OneAtATime'
  BY <1>2 DEF OneAtATime
<1>4. ASSUME plan' = plan, \A r \in Resource : CountOf(r)' = CountOf(r)
      PROVE  CountsFit(plan)'
  BY <1>4 DEF PlanFits, CountsFit
<1>5. ASSUME NEW r \in Resource, NEW n \in {1, 2}, NEW s \in Skus, CreateBegin(c, r, n, s)
      PROVE  PlanFits'
  <2> DEFINE w == [at |-> "create", of |-> r, n |-> n, sku |-> s, max |-> Room[plan][r]]
  <2>1. work'[c] = w /\ plan' = plan /\ shelf' = shelf /\ others' = others
    BY <1>5 DEF CreateBegin, Begin, CatType
  <2>2. \A q \in Resource : CountOf(q)' = CountOf(q)
    BY <2>1 DEF CountOf, Sold
  <2>3. RoomIsRead' /\ RoomIsLeft' /\ TargetHolds'
    BY <1>2, <2>1 DEF RoomIsRead, RoomIsLeft, TargetHolds, Limited
  <2> QED
    BY <1>3, <1>4, <2>1, <2>2, <2>3 DEF PlanFits
<1>6. ASSUME NEW target \in Plan, ChangePlanRead(c, target)
      PROVE  PlanFits'
  <2>1. work'[c] = [at |-> "replan", to |-> target] /\ plan' = plan /\ shelf' = shelf /\ others' = others
    BY <1>6 DEF ChangePlanRead, Begin, CatType
  <2>2. \A q \in Resource : CountOf(q)' = CountOf(q)
    BY <2>1 DEF CountOf, Sold
  <2>3. \A q \in Resource : CountOf(q) <= Room[target][q]
    BY <1>0, <1>6, RoomType DEF ChangePlanRead, Fits, CountNat
  <2>4. RoomIsRead' /\ RoomIsLeft' /\ TargetHolds'
    BY <1>2, <2>1, <2>2, <2>3 DEF RoomIsRead, RoomIsLeft, TargetHolds, Limited, CountsFit
  <2> QED
    BY <1>3, <1>4, <2>1, <2>2, <2>4 DEF PlanFits
<1>7. CASE CreateCount(c)
  <2>1. plan' = plan /\ shelf' = shelf /\ others' = others /\ work[c].at = "create"
    BY <1>7 DEF CreateCount
  <2>2. \A q \in Resource : CountOf(q)' = CountOf(q)
    BY <2>1 DEF CountOf, Sold
  <2>3. work[c].max = Room[plan][work[c].of] /\ work[c].of \in Resource
    BY <2>1, WorkShape DEF PlanFits, RoomIsRead
  <2>4. \/ work'[c] = Free
        \/ /\ work'[c] = [work[c] EXCEPT !.at = "counted"]
           /\ CountOf(work[c].of) + work[c].n <= work[c].max
    BY <1>7 DEF CreateCount, Fits, CatType
  <2>5. \/ work'[c].at = "free"
        \/ /\ work'[c].at = "counted" /\ work'[c].of = work[c].of /\ work'[c].n = work[c].n
           /\ work'[c].max = Room[plan][work[c].of]
           /\ CountOf(work[c].of) + work[c].n <= Room[plan][work[c].of]
    BY <2>1, <2>3, <2>4, WorkShape, FreeIsWork
  <2>6. RoomIsRead' /\ RoomIsLeft' /\ TargetHolds'
    <3>1. RoomIsRead'
      BY <1>2, <2>1, <2>5 DEF RoomIsRead, Limited
    <3>2. TargetHolds'
      BY <1>2, <2>5 DEF TargetHolds, Limited
    <3>3. (work[c].at = "counted" => CountOf(work[c].of) + work[c].n <= Room[plan][work[c].of])'
      BY <2>1, <2>2, <2>3, <2>5
    <3>4. RoomIsLeft'
      BY <1>2, <3>3 DEF RoomIsLeft, Limited
    <3> QED
      BY <3>1, <3>2, <3>4
  <2> QED
    BY <1>3, <1>4, <2>1, <2>2, <2>6 DEF PlanFits
<1>8. ASSUME work'[c] = Free, CountsFit(plan)'
      PROVE  PlanFits'
  <2>1. \A d \in Clerk : ~Limited(d)'
    BY <1>2, <1>8, FreeIsWork DEF Limited
  <2>2. RoomIsRead' /\ RoomIsLeft' /\ TargetHolds'
    BY <2>1 DEF RoomIsRead, RoomIsLeft, TargetHolds, Limited
  <2> QED
    BY <1>3, <1>8, <2>2 DEF PlanFits
<1>9. CASE CreateCommit(c)
  <2>1. work[c].at = "counted" /\ work'[c] = Free /\ plan' = plan
    BY <1>9, EndType DEF CreateCommit
  <2>2. CountOf(work[c].of) + work[c].n <= Room[plan][work[c].of] /\ work[c].of \in Resource /\ work[c].n \in Nat
    BY <2>1, WorkShape DEF PlanFits, RoomIsLeft
  <2>3. ASSUME NEW r \in Resource
        PROVE  CountOf(r)' <= Room[plan][r]
    <3>1. /\ CountOf(r)' <= IF r = work[c].of THEN CountOf(r) + work[c].n ELSE CountOf(r)
          /\ CountOf(r) <= Room[plan][r]
      BY <1>9, CommitCount DEF PlanFits, CountsFit
    <3>2. CountOf(r) \in Nat /\ CountOf(r)' \in Nat /\ Room[plan][r] \in Nat
      BY <1>0, RoomType DEF CountNat, CatType
    <3> QED
      BY <2>2, <3>1, <3>2
  <2>4. CountsFit(plan)'
    BY <2>1, <2>3 DEF CountsFit
  <2> QED
    BY <1>8, <2>1, <2>4
<1>10. CASE CreateFails(c)
  <2>1. work'[c] = Free /\ plan' = plan /\ shelf' = shelf /\ others' = others
    BY <1>10, EndType DEF CreateFails
  <2>2. \A q \in Resource : CountOf(q)' = CountOf(q)
    BY <2>1 DEF CountOf, Sold
  <2> QED
    BY <1>4, <1>8, <2>1, <2>2
<1>11. CASE ChangePlanCommit(c)
  <2>1. work'[c] = Free /\ plan' = work[c].to /\ shelf' = shelf /\ others' = others /\ work[c].at = "replan"
    BY <1>11, EndType DEF ChangePlanCommit
  <2>2. \A q \in Resource : CountOf(q)' = CountOf(q)
    BY <2>1 DEF CountOf, Sold
  <2>3. CountsFit(plan)'
    BY <2>1, <2>2 DEF PlanFits, TargetHolds, CountsFit
  <2> QED
    BY <1>8, <2>1, <2>3
<1> QED
  BY <1>5, <1>6, <1>7, <1>9, <1>10, <1>11 DEF CreateStep

(* What a history has noted stays noted.                                   *)
LEMMA HistoryStays ==
  ASSUME CatType, LabelsOnShelf, [CatNext]_catVars
  PROVE  (crossed => crossed') /\ (imported => imported')
<1>1. ASSUME NEW c \in Clerk, CreateStep(c) PROVE (crossed => crossed') /\ (imported => imported')
  <2>1. imported' = imported
    BY <1>1, CreateFrame
  <2>2. crossed' = crossed \/ Overlap(c)
    BY <1>1 DEF CreateStep, CreateBegin, CreateCount, CreateCommit, CreateFails,
       ChangePlanRead, ChangePlanCommit, histories
  <2>3. Overlap(c) => (crossed => crossed')
    BY Zenon DEF Overlap
  <2> QED
    BY <2>1, <2>2, <2>3
<1>2. ASSUME NEW c \in Clerk, LabelStep(c) PROVE crossed' = crossed /\ imported' = imported
  BY <1>2 DEF LabelStep, LabelsRead, LabelsCommit, histories
<1>3. CASE EditStep
  BY <1>3, EditType DEF EditStep
<1>4. CASE CsvStep
  <2>1. crossed' = crossed
    BY <1>4, CsvType
  <2>2. CASE CsvCommit
    <3>1. imported => imported'
      BY <2>2, Zenon DEF CsvCommit
    <3> QED
      BY <2>1, <3>1
  <2>3. CASE UploadCsv \/ TakeCsvJob \/ CsvRow \/ CsvFails \/ CsvWorkerDies \/ CsvAck
    BY <2>1, <2>3 DEF UploadCsv, TakeCsvJob, CsvRow, CsvFails, CsvWorkerDies, CsvAck, histories
  <2> QED
    BY <1>4, <2>2, <2>3 DEF CsvStep
<1>5. CASE UNCHANGED catVars
  BY <1>5 DEF catVars, histories
<1> QED
  BY <1>1, <1>2, <1>3, <1>4, <1>5, CatSteps

(* A label puts nothing on sale.                                           *)
LEMMA LabelSold ==
  ASSUME CatType, LabelsOnShelf, NEW c \in Clerk, LabelStep(c)
  PROVE  Sold' \subseteq Sold
<1>1. CASE shelf' = shelf
  BY <1>1 DEF Sold
<1>2. CASE LabelsCommit(c)
  <2> DEFINE p == work[c].product
             code == work[c].code
             r == [shelf[p] EXCEPT !.code = code]
  <2>1. p \in 1 .. Len(shelf)
    BY <1>2 DEF LabelsCommit, LabelsOnShelf
  <2>2. shelf[p] \in ProductRow /\ shelf' = [shelf EXCEPT ![p] = r]
    BY <1>2, <2>1 DEF LabelsCommit, CatType
  <2>3. r.state = shelf[p].state
    BY <2>2 DEF ProductRow
  <2> HIDE DEF r, p
  <2> QED
    BY <2>1, <2>2, <2>3 DEF Sold, CatType
<1> QED
  BY <1>1, <1>2 DEF LabelStep, LabelsRead

LEMMA PlanKeeps ==
  ASSUME CatType, CatType', LabelsOnShelf, PlanInv, [CatNext]_catVars
  PROVE  PlanInv'
<1>1. (crossed => crossed') /\ (imported => imported')
  BY HistoryStays
<1> SUFFICES ASSUME PlanFits, ~crossed', ~imported' PROVE PlanFits'
  BY <1>1 DEF PlanInv
<1>2. ASSUME NEW c \in Clerk, CreateStep(c) PROVE PlanFits'
  BY <1>2, CreatePlan
<1>3. ASSUME NEW c \in Clerk, LabelStep(c) PROVE PlanFits'
  <2>1. plan' = plan /\ others' = others /\ \A d \in Clerk : d # c => work'[d] = work[d]
    BY <1>3, BeginType, EndType DEF LabelStep, LabelsRead, LabelsCommit, Begin, End, CatType
  <2>2. ~Limited(c)'
    BY <1>3, FreeIsWork DEF LabelStep, LabelsRead, LabelsCommit, Begin, End, Limited, CatType
  <2>3. Sold' \subseteq Sold
    BY <1>3, LabelSold
  <2> QED
    BY <2>1, <2>2, <2>3, SoldLess, PlanStays
<1>4. CASE EditStep
  <2>1. Sold' \subseteq Sold
    BY <1>4, EditFrame DEF Sold, CatType
  <2>2. plan' = plan /\ others' = others /\ work' = work
    BY <1>4, EditType DEF EditStep
  <2> QED
    BY <2>1, <2>2, SoldLess, PlanStays
<1>5. CASE CsvStep
  <2>1. shelf' = shelf
    <3>1. CASE CsvCommit
      <4>1. job.new = <<>> /\ shelf' = shelf \o job.new
        BY <3>1 DEF CsvCommit
      <4> QED
        BY <4>1, ConcatEmptySeq DEF CatType
    <3>2. CASE UploadCsv \/ TakeCsvJob \/ CsvRow \/ CsvFails \/ CsvWorkerDies \/ CsvAck
      BY <3>2 DEF UploadCsv, TakeCsvJob, CsvRow, CsvFails, CsvWorkerDies, CsvAck
    <3> QED
      BY <1>5, <3>1, <3>2 DEF CsvStep
  <2>2. plan' = plan /\ others' = others /\ work' = work /\ Sold' \subseteq Sold
    BY <1>5, <2>1, CsvType DEF Sold
  <2> QED
    BY <2>2, SoldLess, PlanStays
<1>6. CASE UNCHANGED catVars
  <2>1. plan' = plan /\ others' = others /\ work' = work /\ Sold' \subseteq Sold
    BY <1>6 DEF catVars, Sold
  <2> QED
    BY <2>1, SoldLess, PlanStays
<1> QED
  BY <1>2, <1>3, <1>4, <1>5, <1>6, CatSteps

(* A tenant has no more products, stores or users than its plan allows     *)
(* (plan-limits.ts), whatever is created, changed, deleted or labelled and *)
(* however its plan is moved, until two requests that count overlap or a   *)
(* CSV file is imported.                                                   *)
THEOREM LimitsHold == CatSpec => []WithinPlan
<1>1. CatInit => CatType /\ LabelsOnShelf /\ PlanInv
  <2> SUFFICES ASSUME CatInit PROVE PlanInv
    BY CatInitType
  <2>1. plan \in Plan /\ \A c \in Clerk : work[c].at = "free"
    BY FreeIsWork DEF CatInit
  <2>2. Sold = {} /\ others = [stores |-> 1, users |-> 1]
    BY DEF CatInit, Sold
  <2>3. \A r \in Resource : CountOf(r) = IF r = "products" THEN 0 ELSE 1
    BY <2>2, FS_EmptySet DEF CountOf, Resource
  <2>4. CountsFit(plan)
    <3>1. Room[plan]["products"] \in Nat /\ Room[plan]["stores"] \in Nat /\ Room[plan]["users"] \in Nat
      BY <2>1, RoomType DEF Resource
    <3>2. Room[plan]["stores"] > 0 /\ Room[plan]["users"] > 0
      BY <2>1
    <3> QED
      BY <2>3, <3>1, <3>2 DEF CountsFit, Resource
  <2>5. OneAtATime /\ RoomIsRead /\ RoomIsLeft /\ TargetHolds
    BY <2>1 DEF OneAtATime, Limited, RoomIsRead, RoomIsLeft, TargetHolds
  <2> QED
    BY <2>4, <2>5 DEF PlanInv, PlanFits
<1>2. CatType /\ LabelsOnShelf /\ PlanInv /\ [CatNext]_catVars
        => (CatType /\ LabelsOnShelf /\ PlanInv)'
  BY CatStepType, PlanKeeps
<1>3. PlanInv => WithinPlan
  BY DEF PlanInv, PlanFits, CountsFit, WithinPlan
<1> QED
  BY <1>1, <1>2, <1>3, PTL DEF CatSpec

--------------------------------------------------------------------------------
(* A product that is on sale and that nobody has edited still bears what   *)
(* its row of the file says; a label gives it a barcode only if the row    *)
(* gives none.                                                             *)
Untouched == Sold \ touched
Coded(f) == File[f].sku # NoCode \/ File[f].code # NoCode
Bears(made, f) ==
  made.sku = File[f].sku /\ (File[f].code # NoCode => made.code = File[f].code)
RowsKept == \A p \in Untouched : shelf[p].from > 0 => Bears(shelf[p], shelf[p].from)

(* What a run of the job is about to create comes from rows it has read,   *)
(* each of them once; none that bears a code is on sale already.           *)
PendingRow(made) ==
  /\ made.from \in 1 .. job.next - 1
  /\ Bears(made, made.from)
  /\ Coded(made.from) => \A p \in Untouched : shelf[p].from # made.from
PendingRows ==
  job.state = "running" =>
    /\ \A i \in 1 .. Len(job.new) : PendingRow(job.new[i])
    /\ \A i, j \in 1 .. Len(job.new) : job.new[i].from = job.new[j].from => i = j
SoldOnce ==
  \A p, q \in Untouched :
    shelf[p].from > 0 /\ shelf[p].from = shelf[q].from /\ Coded(shelf[p].from) => p = q

RowsInv == RowsKept /\ PendingRows /\ SoldOnce

LEMMA OnShelf ==
  ASSUME CatType
  PROVE  \A p \in Untouched : p \in 1 .. Len(shelf) /\ shelf[p] \in ProductRow
           /\ shelf[p].from \in 0 .. Len(File)
<1>1. ASSUME NEW p \in Untouched PROVE p \in 1 .. Len(shelf) /\ shelf[p] \in ProductRow
  BY DEF CatType, Untouched, Sold
<1> QED
  BY <1>1 DEF ProductRow

(* A step of anything but the job: what is on sale and not edited is new   *)
(* and from no row, or is what it was before.                              *)
LEMMA RowsStay ==
  ASSUME CatType, RowsInv, job' = job,
         \A p \in Untouched' :
           \/ shelf'[p].from = 0
           \/ /\ p \in Untouched /\ shelf'[p].from = shelf[p].from /\ shelf'[p].sku = shelf[p].sku
              /\ \/ shelf'[p].code = shelf[p].code
                 \/ shelf[p].code = NoCode
  PROVE  RowsInv'
<1>1. RowsKept'
  <2> SUFFICES ASSUME NEW p \in Untouched', shelf'[p].from > 0 PROVE Bears(shelf'[p], shelf'[p].from)
    BY DEF RowsKept, Bears
  <2>1. /\ p \in Untouched /\ shelf'[p].from = shelf[p].from /\ shelf'[p].sku = shelf[p].sku
        /\ shelf'[p].code = shelf[p].code \/ shelf[p].code = NoCode
    OBVIOUS
  <2>2. Bears(shelf[p], shelf[p].from)
    BY <2>1 DEF RowsInv, RowsKept
  <2> QED
    BY <2>1, <2>2 DEF Bears
<1>2. PendingRows'
  <2> SUFFICES ASSUME job.state = "running"
               PROVE  /\ \A i \in 1 .. Len(job.new) : PendingRow(job.new[i])'
                      /\ \A i, j \in 1 .. Len(job.new) : job.new[i].from = job.new[j].from => i = j
    BY DEF PendingRows, PendingRow
  <2>1. /\ \A i \in 1 .. Len(job.new) : PendingRow(job.new[i])
        /\ \A i, j \in 1 .. Len(job.new) : job.new[i].from = job.new[j].from => i = j
    BY DEF RowsInv, PendingRows
  <2>2. ASSUME NEW i \in 1 .. Len(job.new) PROVE PendingRow(job.new[i])'
    <3>1. PendingRow(job.new[i])
      BY <2>1
    <3>2. job.new[i].from # 0
      BY <3>1 DEF PendingRow
    <3>3. ASSUME Coded(job.new[i].from), NEW p \in Untouched' PROVE shelf'[p].from # job.new[i].from
      BY <3>1, <3>2, <3>3 DEF PendingRow
    <3> QED
      BY <3>1, <3>3 DEF PendingRow, Bears, Coded
  <2> QED
    BY <2>1, <2>2
<1>3. SoldOnce'
  <2> SUFFICES ASSUME NEW p \in Untouched', NEW q \in Untouched',
                      shelf'[p].from > 0, shelf'[p].from = shelf'[q].from, Coded(shelf'[p].from)
               PROVE  p = q
    BY DEF SoldOnce, Coded
  <2>1. /\ p \in Untouched /\ shelf'[p].from = shelf[p].from
        /\ q \in Untouched /\ shelf'[q].from = shelf[q].from
    OBVIOUS
  <2> QED
    BY <2>1 DEF RowsInv, SoldOnce
<1> QED
  BY <1>1, <1>2, <1>3 DEF RowsInv

LEMMA CreateRows ==
  ASSUME CatType, RowsInv, NEW c \in Clerk, CreateStep(c)
  PROVE  RowsInv'
<1>1. /\ job' = job /\ touched' = touched /\ Len(shelf) <= Len(shelf')
      /\ \A p \in 1 .. Len(shelf) : shelf'[p] = shelf[p]
  BY CreateFrame
<1>2. ASSUME NEW p \in Untouched'
      PROVE  shelf'[p].from = 0 \/ (p \in Untouched /\ shelf'[p] = shelf[p])
  <2>1. CASE p \in 1 .. Len(shelf)
    <3>1. shelf'[p] = shelf[p]
      BY <1>1, <2>1
    <3>2. p \in Untouched
      BY <1>1, <2>1, <3>1 DEF Untouched, Sold, CatType
    <3> QED
      BY <3>1, <3>2
  <2>2. CASE p \notin 1 .. Len(shelf)
    <3>1. p \in DOMAIN shelf'
      BY DEF Untouched, Sold
    <3>2. shelf' # shelf
      BY <2>2, <3>1 DEF CatType
    <3>3. CreateCommit(c) /\ work[c].of = "products"
      BY <3>2 DEF CreateStep, CreateBegin, CreateCount, CreateCommit, CreateFails,
                  ChangePlanRead, ChangePlanCommit
    <3>4. shelf' \in Seq(ProductRow) /\ \A q \in 1 .. Len(shelf') : q \notin 1 .. Len(shelf) => shelf'[q].from = 0
      BY <3>3, Appended
    <3>5. p \in 1 .. Len(shelf')
      BY <3>1, <3>4
    <3> QED
      BY <2>2, <3>4, <3>5
  <2> QED
    BY <2>1, <2>2
<1> QED
  BY <1>1, <1>2, RowsStay

LEMMA EditRows ==
  ASSUME CatType, LabelsOnShelf, RowsInv, EditStep
  PROVE  RowsInv'
<1>1. job' = job /\ touched \subseteq touched' /\ Len(shelf') = Len(shelf) /\ CatType'
  BY EditType, EditFrame DEF EditStep
<1>2. ASSUME NEW p \in Untouched'
      PROVE  /\ p \in Untouched /\ shelf'[p].from = shelf[p].from /\ shelf'[p].sku = shelf[p].sku
             /\ shelf'[p].code = shelf[p].code
  <2>1. p \in 1 .. Len(shelf) /\ p \notin touched' /\ shelf'[p].state = "live"
    BY <1>1 DEF Untouched, Sold, CatType
  <2>2. /\ shelf'[p].from = shelf[p].from /\ shelf[p].state = "live"
        /\ shelf'[p].sku = shelf[p].sku /\ shelf'[p].code = shelf[p].code
    BY <2>1, EditFrame
  <2>3. p \in Untouched
    BY <1>1, <2>1, <2>2 DEF Untouched, Sold, CatType
  <2> QED
    BY <2>2, <2>3
<1> QED
  BY <1>1, <1>2, RowsStay

LEMMA LabelRows ==
  ASSUME CatType, LabelsOnShelf, LabelsFit, RowsInv, NEW c \in Clerk, LabelStep(c)
  PROVE  RowsInv'
<1>1. CASE shelf' = shelf /\ job' = job /\ touched \subseteq touched'
  <2>1. \A p \in Untouched' : p \in Untouched
    BY <1>1 DEF Untouched, Sold
  <2> QED
    BY <1>1, <2>1, RowsStay
<1>2. ASSUME NEW p \in Sold, NEW code \in Barcode, LabelsRead(c, p, code)
      PROVE  shelf' = shelf /\ job' = job /\ touched \subseteq touched'
  BY <1>2 DEF LabelsRead
<1>3. CASE LabelsCommit(c)
  <2> DEFINE p == work[c].product
             code == work[c].code
             r == [shelf[p] EXCEPT !.code = code]
  <2>1. p \in 1 .. Len(shelf) /\ work[c].at = "label"
    BY <1>3 DEF LabelsCommit, LabelsOnShelf
  <2>2. shelf[p] \in ProductRow
    BY <2>1 DEF CatType
  <2>3. /\ r.state = shelf[p].state /\ r.from = shelf[p].from
        /\ r.sku = shelf[p].sku /\ r.code = code
    BY <2>2 DEF ProductRow
  <2>4. shelf' = [shelf EXCEPT ![p] = r] /\ job' = job /\ touched' = touched
    BY <1>3, <2>2 DEF LabelsCommit, histories, ProductRow
  <2>5. p \in touched \/ shelf[p].code \in {NoCode, code}
    BY <2>1 DEF LabelsFit
  <2> HIDE DEF r, p, code
  <2>6. /\ DOMAIN shelf' = DOMAIN shelf /\ DOMAIN shelf = 1 .. Len(shelf) /\ shelf'[p] = r
        /\ \A q \in DOMAIN shelf : q # p => shelf'[q] = shelf[q]
    BY <2>1, <2>4 DEF CatType
  <2>7. ASSUME NEW q \in Untouched'
        PROVE  /\ q \in Untouched /\ shelf'[q].from = shelf[q].from /\ shelf'[q].sku = shelf[q].sku
               /\ shelf'[q].code = shelf[q].code \/ shelf[q].code = NoCode
    <3>1. q \in DOMAIN shelf /\ q \notin touched /\ shelf'[q].state = "live"
      BY <2>4, <2>6 DEF Untouched, Sold
    <3>2. CASE q = p
      <4>1. shelf[q].state = "live"
        BY <2>3, <2>6, <3>1, <3>2
      <4>2. q \in Untouched
        BY <3>1, <4>1 DEF Untouched, Sold
      <4> QED
        BY <2>3, <2>5, <2>6, <3>1, <3>2, <4>2
    <3>3. CASE q # p
      BY <2>6, <3>1, <3>3 DEF Untouched, Sold
    <3> QED
      BY <3>2, <3>3
  <2> QED
    BY <2>4, <2>7, RowsStay
<1> QED
  BY <1>1, <1>2, <1>3 DEF LabelStep

(* A run that begins, or does not go on, holds nothing.                    *)
LEMMA RunRows ==
  ASSUME RowsInv, shelf' = shelf, touched' = touched,
         job'.state = "running" => job'.new = <<>>
  PROVE  RowsInv'
<1>1. Untouched' = Untouched
  BY DEF Untouched, Sold
<1>2. PendingRows'
  BY DEF PendingRows
<1>3. RowsKept' /\ SoldOnce'
  BY <1>1 DEF RowsInv, RowsKept, SoldOnce, Bears, Coded
<1> QED
  BY <1>2, <1>3 DEF RowsInv

LEMMA ReadRow ==
  ASSUME CatType, RowsInv, CsvRow
  PROVE  RowsInv'
<1> DEFINE f == job.next
           made == NewRow(File[f].sku, File[f].code, f)
           new == IF Exists(File[f]) THEN job.new ELSE Append(job.new, made)
<1>0. job \in Jobs
  BY DEF CatType
<1>1. f \in 1 .. Len(File) /\ f \in Nat /\ job.new \in Seq(ProductRow) /\ job.state = "running"
  BY <1>0, FileType DEF Jobs, CsvRow
<1>2. shelf' = shelf /\ touched' = touched
  BY DEF CsvRow, histories
<1>3. made.from = f /\ made.sku = File[f].sku /\ made.code = File[f].code
  BY DEF NewRow
<1>4. ASSUME ~Exists(File[f]), Coded(f), NEW p \in Untouched
      PROVE  shelf[p].from # f
  <2> SUFFICES ASSUME shelf[p].from = f PROVE FALSE
    OBVIOUS
  <2>1. p \in Sold /\ Bears(shelf[p], f)
    BY <1>1 DEF RowsInv, RowsKept, Untouched
  <2>2. CASE File[f].sku # NoCode
    BY <1>4, <2>1, <2>2 DEF Exists, Here, Bears
  <2>3. CASE File[f].sku = NoCode
    BY <1>4, <2>1, <2>3 DEF Exists, Here, Bears, Coded
  <2> QED
    BY <2>2, <2>3
<1>5. /\ \A i \in 1 .. Len(job.new) : PendingRow(job.new[i])
      /\ \A i, j \in 1 .. Len(job.new) : job.new[i].from = job.new[j].from => i = j
  BY <1>1 DEF RowsInv, PendingRows
<1>6. job'.next = f + 1 /\ job'.new = new
  <2>1. job' = [job EXCEPT !.next = f + 1, !.new = new]
    BY DEF CsvRow
  <2> HIDE DEF f, new
  <2> QED
    BY <1>0, <2>1 DEF Jobs
<1>7. Untouched' = Untouched
  BY <1>2 DEF Untouched, Sold
<1> DEFINE Sound(r) ==
             /\ r.from \in 1 .. f
             /\ Bears(r, r.from)
             /\ Coded(r.from) => \A p \in Untouched : shelf[p].from # r.from
<1>8. \A i \in 1 .. Len(job.new) : Sound(job.new[i]) /\ job.new[i].from < f
  <2> SUFFICES ASSUME NEW i \in 1 .. Len(job.new) PROVE Sound(job.new[i]) /\ job.new[i].from < f
    OBVIOUS
  <2>1. PICK r : r = job.new[i]
    OBVIOUS
  <2>2. PendingRow(r)
    BY <1>5, <2>1
  <2>3. r.from \in 1 .. f - 1
    BY <2>2 DEF PendingRow
  <2>4. r.from \in 1 .. f /\ r.from < f
    BY <1>1, <2>3
  <2> QED
    BY <2>1, <2>2, <2>4 DEF PendingRow
<1>9. ASSUME \A i \in 1 .. Len(job'.new) : Sound(job'.new[i]),
             \A i, j \in 1 .. Len(job'.new) : job'.new[i].from = job'.new[j].from => i = j
      PROVE  RowsInv'
  <2>1. PICK rows : rows = job'.new
    OBVIOUS
  <2>2. \A i \in 1 .. Len(rows) : Sound(rows[i])
    BY <1>9, <2>1
  <2>3. job'.next - 1 = f
    BY <1>1, <1>6
  <2>4. \A i \in 1 .. Len(job'.new) :
          /\ job'.new[i].from \in 1 .. job'.next - 1
          /\ Bears(job'.new[i], job'.new[i].from)
          /\ Coded(job'.new[i].from) => \A p \in Untouched : shelf[p].from # job'.new[i].from
    BY <2>1, <2>2, <2>3
  <2> HIDE DEF f, Sound
  <2>5. PendingRows'
    BY <1>2, <1>7, <1>9, <2>4 DEF PendingRows, PendingRow, Bears, Coded
  <2> QED
    BY <1>2, <1>7, <2>5 DEF RowsInv, RowsKept, SoldOnce, Bears, Coded
<1>10. CASE Exists(File[f])
  <2>1. job'.new = job.new
    BY <1>6, <1>10
  <2> QED
    BY <1>5, <1>8, <1>9, <2>1
<1>11. CASE ~Exists(File[f])
  <2>1. job'.new = Append(job.new, made)
    BY <1>6, <1>11
  <2>2. Sound(made)
    BY <1>1, <1>3, <1>4, <1>11 DEF Bears
  <2> HIDE DEF made, new, Sound
  <2>3. /\ Len(job'.new) = Len(job.new) + 1 /\ Len(job.new) \in Nat
        /\ \A i \in 1 .. Len(job.new) : job'.new[i] = job.new[i]
        /\ job'.new[Len(job.new) + 1] = made
    BY <1>1, <2>1
  <2>4. \A i \in 1 .. Len(job'.new) : i \in 1 .. Len(job.new) \/ i = Len(job.new) + 1
    BY <2>3
  <2>5. \A i \in 1 .. Len(job'.new) : Sound(job'.new[i])
    BY <1>8, <2>2, <2>3, <2>4
  <2>6. \A i \in 1 .. Len(job.new) : job'.new[i].from = job.new[i].from /\ job'.new[i].from # f
    <3> SUFFICES ASSUME NEW i \in 1 .. Len(job.new) PROVE job.new[i].from # f
      BY <2>3
    <3>1. job.new[i].from < f /\ job.new[i].from \in 1 .. f
      BY <1>8 DEF Sound
    <3> QED
      BY <1>1, <3>1
  <2>7. job'.new[Len(job.new) + 1].from = f
    BY <1>3, <2>3
  <2>8. \A i, j \in 1 .. Len(job'.new) : job'.new[i].from = job'.new[j].from => i = j
    BY <1>5, <2>4, <2>6, <2>7
  <2> QED
    BY <1>9, <2>5, <2>8
<1> QED
  BY <1>10, <1>11

(* What a run commits is on no shelf yet.                                  *)
LEMMA CommitRows ==
  ASSUME CatType, RowsInv, CsvCommit
  PROVE  RowsInv'
<1> DEFINE len == Len(shelf)
<1>1. /\ shelf \in Seq(ProductRow) /\ job.new \in Seq(ProductRow) /\ job \in Jobs
      /\ len \in Nat /\ Len(job.new) \in Nat
  BY DEF CatType, Jobs
<1>2. shelf' = shelf \o job.new /\ touched' = touched /\ job.state = "running" /\ job'.state = "done"
  BY <1>1 DEF CsvCommit, Jobs
<1>3. /\ \A i \in 1 .. Len(job.new) : PendingRow(job.new[i])
      /\ \A i, j \in 1 .. Len(job.new) : job.new[i].from = job.new[j].from => i = j
  BY <1>2 DEF RowsInv, PendingRows
<1>4. /\ shelf \o job.new \in Seq(ProductRow) /\ Len(shelf \o job.new) = len + Len(job.new)
      /\ \A p \in 1 .. len + Len(job.new) :
           (shelf \o job.new)[p] = IF p <= len THEN shelf[p] ELSE job.new[p - len]
  BY <1>1, ConcatProperties, Zenon
<1>5. ASSUME NEW p \in Untouched'
      PROVE  \/ p \in Untouched /\ shelf'[p] = shelf[p]
             \/ p - len \in 1 .. Len(job.new) /\ shelf'[p] = job.new[p - len] /\ p \in Nat
  <2>1. p \in 1 .. len + Len(job.new) /\ p \notin touched /\ shelf'[p].state = "live"
    BY <1>2, <1>4 DEF Untouched, Sold
  <2>2. CASE p <= len
    <3>1. shelf'[p] = shelf[p] /\ p \in 1 .. len
      BY <1>1, <1>2, <1>4, <2>1, <2>2
    <3>2. p \in Untouched
      BY <1>1, <2>1, <3>1 DEF Untouched, Sold
    <3> QED
      BY <3>1, <3>2
  <2>3. CASE ~(p <= len)
    <3>1. p - len \in 1 .. Len(job.new) /\ p \in Nat
      BY <1>1, <2>1, <2>3
    <3> QED
      BY <1>2, <1>4, <2>1, <2>3, <3>1
  <2> QED
    BY <2>2, <2>3
<1> HIDE DEF len
<1>6. ASSUME NEW i \in 1 .. Len(job.new), NEW p \in Untouched, Coded(job.new[i].from)
      PROVE  shelf[p].from # job.new[i].from
  <2>1. PendingRow(job.new[i])
    BY <1>3
  <2> QED
    BY <1>6, <2>1 DEF PendingRow
<1>7. RowsKept'
  <2> SUFFICES ASSUME NEW p \in Untouched', shelf'[p].from > 0 PROVE Bears(shelf'[p], shelf'[p].from)
    BY DEF RowsKept, Bears
  <2>1. CASE p \in Untouched /\ shelf'[p] = shelf[p]
    BY <2>1 DEF RowsInv, RowsKept
  <2>2. CASE p - len \in 1 .. Len(job.new) /\ shelf'[p] = job.new[p - len]
    <3>1. PendingRow(job.new[p - len])
      BY <1>3, <2>2
    <3> QED
      BY <2>2, <3>1 DEF PendingRow
  <2> QED
    BY <1>5, <2>1, <2>2
<1>8. SoldOnce'
  <2> SUFFICES ASSUME NEW p \in Untouched', NEW q \in Untouched',
                      shelf'[p].from > 0, shelf'[p].from = shelf'[q].from, Coded(shelf'[p].from)
               PROVE  p = q
    BY DEF SoldOnce, Coded
  <2>1. CASE p \in Untouched /\ shelf'[p] = shelf[p] /\ q \in Untouched /\ shelf'[q] = shelf[q]
    BY <2>1 DEF RowsInv, SoldOnce
  <2>2. CASE p - len \in 1 .. Len(job.new) /\ shelf'[p] = job.new[p - len] /\ q \in Untouched /\ shelf'[q] = shelf[q]
    BY <1>6, <2>2
  <2>3. CASE q - len \in 1 .. Len(job.new) /\ shelf'[q] = job.new[q - len] /\ p \in Untouched /\ shelf'[p] = shelf[p]
    BY <1>6, <2>3
  <2>4. CASE /\ p - len \in 1 .. Len(job.new) /\ shelf'[p] = job.new[p - len] /\ p \in Nat
             /\ q - len \in 1 .. Len(job.new) /\ shelf'[q] = job.new[q - len] /\ q \in Nat
    <3>1. p - len = q - len
      BY <1>3, <2>4
    <3> QED
      BY <1>1, <2>4, <3>1 DEF len
  <2> QED
    BY <1>5, <2>1, <2>2, <2>3, <2>4
<1>9. PendingRows'
  BY <1>2 DEF PendingRows
<1> QED
  BY <1>7, <1>8, <1>9 DEF RowsInv

LEMMA CsvRows ==
  ASSUME CatType, RowsInv, CsvStep
  PROVE  RowsInv'
<1>0. job \in Jobs
  BY DEF CatType
<1>1. CASE UploadCsv \/ CsvAck
  <2>1. shelf' = shelf /\ touched' = touched
    BY <1>1 DEF UploadCsv, CsvAck, histories
  <2>2. job'.state # "running"
    BY <1>0, <1>1 DEF UploadCsv, CsvAck, Jobs
  <2> QED
    BY <2>1, <2>2, RunRows
<1>2. CASE TakeCsvJob \/ CsvFails \/ CsvWorkerDies
  <2>1. shelf' = shelf /\ touched' = touched
    BY <1>2 DEF TakeCsvJob, CsvFails, CsvWorkerDies, histories
  <2>2. CASE TakeCsvJob
    <3>1. job'.new = <<>>
      BY <2>2 DEF TakeCsvJob
    <3> QED
      BY <2>1, <3>1, RunRows
  <2>3. CASE CsvFails \/ CsvWorkerDies
    <3>1. job'.state # "running"
      BY <2>3 DEF CsvFails, CsvWorkerDies, NoJob
    <3> QED
      BY <2>1, <3>1, RunRows
  <2> QED
    BY <1>2, <2>2, <2>3
<1> QED
  BY <1>1, <1>2, ReadRow, CommitRows DEF CsvStep

LEMMA RowsKeep ==
  ASSUME CatType, LabelsOnShelf, LabelsFit, RowsInv, [CatNext]_catVars
  PROVE  RowsInv'
<1>1. CASE UNCHANGED catVars
  <2>1. Untouched' = Untouched /\ job' = job /\ shelf' = shelf
    BY <1>1 DEF catVars, histories, Untouched, Sold
  <2> QED
    BY <2>1, RowsStay
<1>2. ASSUME NEW c \in Clerk, CreateStep(c) PROVE RowsInv'
  BY <1>2, CreateRows
<1>3. ASSUME NEW c \in Clerk, LabelStep(c) PROVE RowsInv'
  BY <1>3, LabelRows
<1> QED
  BY <1>1, <1>2, <1>3, EditRows, CsvRows, CatSteps

(* A file that is read again, because the worker died before it could say  *)
(* that it was done, adds no row that bears a code a second time           *)
(* (csv-import.ts:15-23), for any file and however often the worker dies:  *)
(* what the first run has left on sale still bears its row's codes, so     *)
(* every later run finds it.                                               *)
THEOREM RowsEnterOnce == CatSpec => []RowsOnce
<1> DEFINE Inv == CatType /\ LabelsOnShelf /\ LabelInv /\ RowsInv
<1>1. CatInit => RowsInv
  <2> SUFFICES ASSUME CatInit PROVE RowsInv
    OBVIOUS
  <2>1. Untouched = {} /\ job.state = "none"
    BY DEF CatInit, Untouched, Sold, NoJob
  <2> QED
    BY <2>1 DEF RowsInv, RowsKept, PendingRows, SoldOnce
<1>2. CatInit => Inv
  <2> SUFFICES ASSUME CatInit PROVE LabelInv
    BY <1>1, CatInitType
  <2>1. labels = {} /\ \A c \in Clerk : work[c].at = "free"
    BY FreeIsWork DEF CatInit
  <2> QED
    BY <2>1 DEF LabelInv, LabelsScan, LabelsFit
<1>3. Inv /\ [CatNext]_catVars => Inv'
  BY CatStepType, LabelKeeps, RowsKeep DEF LabelInv
<1>4. Inv => RowsOnce
  BY DEF RowsInv, SoldOnce, Untouched, Coded, RowsOnce
<1> QED
  BY <1>2, <1>3, <1>4, PTL DEF CatSpec

--------------------------------------------------------------------------------
(* A job that waits has an attempt left, and one that has begun has used   *)
(* one.                                                                    *)
AttemptsLeft ==
  /\ requests \in 0 .. MaxRequests /\ deaths \in 0 .. MaxDeaths /\ touched \subseteq Nat
  /\ job.attempt \in 0 .. JobAttempts
  /\ job.state \in {"none", "waiting"} => job.attempt < JobAttempts
  /\ job.state \in {"running", "done"} => job.attempt > 0

LEMMA AttemptsStay ==
  ASSUME CatType, LabelsOnShelf, AttemptsLeft, [CatNext]_catVars
  PROVE  AttemptsLeft'
<1>0. Sold \subseteq Nat
  <2>1. DOMAIN shelf = 1 .. Len(shelf)
    BY DEF CatType
  <2> QED
    BY <2>1 DEF Sold
<1>1. ASSUME NEW c \in Clerk, CreateStep(c) PROVE AttemptsLeft'
  <2>1. requests' \in 0 .. MaxRequests /\ UNCHANGED <<deaths, touched, job>>
    BY <1>1 DEF CreateStep, CreateBegin, CreateCount, CreateCommit, CreateFails, ChangePlanRead,
                ChangePlanCommit, Begin, histories, AttemptsLeft
  <2> QED
    BY <2>1 DEF AttemptsLeft
<1>2. ASSUME NEW c \in Clerk, LabelStep(c) PROVE AttemptsLeft'
  <2>1. requests' \in 0 .. MaxRequests /\ UNCHANGED <<deaths, job>>
    BY <1>2 DEF LabelStep, LabelsRead, LabelsCommit, Begin, AttemptsLeft
  <2>2. touched' \subseteq Nat
    <3>1. ASSUME NEW p \in Sold, NEW code \in Barcode, LabelsRead(c, p, code) PROVE touched' \subseteq Nat
      BY <1>0, <3>1 DEF LabelsRead, AttemptsLeft
    <3>2. CASE LabelsCommit(c)
      BY <3>2 DEF LabelsCommit, histories, AttemptsLeft
    <3> QED
      BY <1>2, <3>1, <3>2 DEF LabelStep
  <2> QED
    BY <2>1, <2>2 DEF AttemptsLeft
<1>3. CASE EditStep
  <2>1. ASSUME NEW p \in Sold, NEW s \in Skus, NEW code \in Codes, UpdateProduct(p, s, code)
        PROVE  requests' \in 0 .. MaxRequests /\ touched' \subseteq Nat /\ UNCHANGED <<deaths, job>>
    BY <1>0, <2>1 DEF UpdateProduct, AttemptsLeft
  <2>2. ASSUME NEW p \in Sold, DeleteProduct(p)
        PROVE  requests' \in 0 .. MaxRequests /\ touched' \subseteq Nat /\ UNCHANGED <<deaths, job>>
    BY <2>2 DEF DeleteProduct, AttemptsLeft, histories
  <2>3. requests' \in 0 .. MaxRequests /\ touched' \subseteq Nat /\ UNCHANGED <<deaths, job>>
    BY <1>3, <2>1, <2>2 DEF EditStep
  <2> QED
    BY <2>3 DEF AttemptsLeft
<1>4. CASE CsvStep
  <2>1. deaths' \in 0 .. MaxDeaths /\ UNCHANGED <<requests, touched>>
    BY <1>4 DEF CsvStep, UploadCsv, TakeCsvJob, CsvRow, CsvCommit, CsvFails, CsvWorkerDies, CsvAck,
                histories, AttemptsLeft
  <2>2. /\ job'.attempt \in 0 .. JobAttempts
        /\ job'.state \in {"none", "waiting"} => job'.attempt < JobAttempts
        /\ job'.state \in {"running", "done"} => job'.attempt > 0
    <3>1. job \in Jobs
      BY DEF CatType
    <3>2. CASE UploadCsv
      BY <3>1, <3>2 DEF UploadCsv, Jobs, AttemptsLeft
    <3>3. CASE TakeCsvJob
      BY <3>1, <3>3 DEF TakeCsvJob, Jobs, AttemptsLeft
    <3>4. CASE CsvRow \/ CsvCommit \/ CsvAck
      BY <3>1, <3>4 DEF CsvRow, CsvCommit, CsvAck, Jobs, AttemptsLeft
    <3>5. CASE CsvFails
      BY <3>1, <3>5 DEF CsvFails, NoJob, RunsAgain, Jobs, AttemptsLeft
    <3>6. CASE CsvWorkerDies
      BY <3>1, <3>6 DEF CsvWorkerDies, NoJob, Jobs, AttemptsLeft
    <3> QED
      BY <1>4, <3>2, <3>3, <3>4, <3>5, <3>6 DEF CsvStep
  <2> QED
    BY <2>1, <2>2 DEF AttemptsLeft
<1>5. CASE UNCHANGED catVars
  BY <1>5 DEF catVars, histories, AttemptsLeft
<1> QED
  BY <1>1, <1>2, <1>3, <1>4, <1>5, CatSteps

(* The state of products, requests and the import is well formed: a job of *)
(* the import is not attempted more often than its queue allows.           *)
THEOREM CatTypeCorrect == CatSpec => []CatTypeOK
<1> DEFINE Inv == CatType /\ LabelsOnShelf /\ AttemptsLeft
<1>1. CatInit => Inv
  BY CatInitType DEF CatInit, AttemptsLeft, NoJob
<1>2. Inv /\ [CatNext]_catVars => Inv'
  BY CatStepType, AttemptsStay
<1>3. Inv => CatTypeOK
  <2> SUFFICES ASSUME Inv PROVE CatTypeOK
    OBVIOUS
  <2>1. work \in [Clerk -> {Free}
       \cup [at : {"create", "counted"}, of : Resource, n : {1, 2},
             sku : Sku \cup {NoCode}, max : Nat]
       \cup [at : {"replan"}, to : Plan]
       \cup [at : {"label"}, product : Nat \ {0}, code : Barcode]]
    BY Zenon DEF CatType, Works, Skus
  <2>2. job \in [state : {"none", "waiting", "running", "done", "completed", "failed"},
              attempt : 0 .. JobAttempts, next : 1 .. Len(File) + 1, new : Seq(ProductRow)]
    BY DEF CatType, Jobs, AttemptsLeft
  <2>3. crossed \in BOOLEAN /\ imported \in BOOLEAN
    BY Zenon DEF CatType
  <2> QED
    BY <2>1, <2>2, <2>3 DEF CatType, AttemptsLeft, CatTypeOK
<1> QED
  BY <1>1, <1>2, <1>3, PTL DEF CatSpec
================================================================================

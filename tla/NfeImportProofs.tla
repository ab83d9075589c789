---------------------------- MODULE NfeImportProofs ----------------------------
(***************************************************************************)
(* Proofs about the import of an NF-e, for any lines, codes, products,     *)
(* operators, tries and deaths of the worker.                              *)
(***************************************************************************)
EXTENDS NfeImport, Sums

(* A confirmed import has entered every line of the note, each under a     *)
(* product: an item that was not matched is not skipped in silence.        *)
ConfirmedWhole == status = "confirmed" => \A l \in Line : Entries(l) >= 1

USE ConstantsAssumption

Item ==
  [product : Product \cup {NoProduct},
   status : {"absent", "unmatched", "matched", "created"}]

(* An item waits for a product exactly while it has none.                  *)
ItemOK(it) ==
  it \in Item /\ (it = NoItem \/ (it.status = "unmatched" <=> it.product = NoProduct))

RowsType ==
  /\ status \in {"none", "pending_parse", "pending_review", "confirmed", "failed"}
  /\ items \in [ItemId -> Item] /\ \A i \in ItemId : ItemOK(items[i])
  /\ catalog \in [Product -> Code \cup {NoProduct}]
  /\ posted \in [ItemId -> [Product -> Nat]]

JobType ==
  /\ job \in {"none", "waiting", "active", "acked", "failed"}
  /\ tries \in 0 .. MaxErrors /\ deaths \in 0 .. MaxDeaths /\ runs \in 0 .. MaxRuns
  /\ wpc \in {"idle", "reading", "matched", "committed"}
  /\ found \in [Line -> Product \cup {NoProduct}]

UsersType ==
  /\ pc \in [Operator -> {"idle", "link", "bulk", "confirm"}]
  /\ ops \in [Operator -> 0 .. MaxOps]
  /\ seen \in [Operator -> [ItemId -> Product \cup {NoProduct, NewProduct}]]
  /\ \A o \in Operator : pc[o] = "link" => \A i \in ItemId : seen[o][i] # NewProduct

NfeType == RowsType /\ JobType /\ UsersType

(* A job that is not done finds its import as the upload left it.          *)
Pipeline ==
  /\ status = "none" => job = "none"
  /\ wpc # "idle" => job = "active"
  /\ job = "waiting" \/ wpc \in {"reading", "matched"} => status = "pending_parse"
  /\ status \in {"none", "pending_parse", "failed"} =>
       Rows = {} /\ \A o \in Operator : pc[o] = "idle"

Roles ==
  \A o \in Operator : /\ pc[o] \in {"link", "bulk"} => o \in Linkers
                      /\ pc[o] = "confirm" => o \in Confirmers

(* What a linker is about to write are items that still wait; what a       *)
(* confirmer is about to post is what the items show.                      *)
Linking ==
  \A o \in Operator :
    pc[o] \in {"link", "bulk"} => Chosen(o) # {} /\ Chosen(o) \subseteq Unmatched

Confirming ==
  \A o \in Operator : pc[o] = "confirm" =>
    /\ status = "pending_review" /\ Unmatched = {}
    /\ \A i \in ItemId : seen[o][i] = items[i].product

Confirmed ==
  status = "confirmed" =>
    Unmatched = {} /\ \A i \in Rows : posted[i][items[i].product] > 0

NfeInv == NfeType /\ Pipeline /\ Roles /\ Linking /\ Confirming /\ Confirmed

(* One operator links and one confirms.                                    *)
OneOfEach ==
  /\ \A a, b \in Linkers : a = b
  /\ \A a, b \in Confirmers : a = b

--------------------------------------------------------------------------------
(* The types.                                                              *)

LEMMA NfeTypesAgree ==
  ASSUME NfeType PROVE TypeOK
<1>1. /\ items \in [ItemId -> [product : Product \cup {NoProduct},
                               status : {"absent", "unmatched", "matched", "created"}]]
      /\ \A i \in Rows : items[i].status = "unmatched" <=> items[i].product = NoProduct
  BY DEF NfeType, RowsType, Item, ItemOK, Rows
<1> QED
  BY <1>1 DEF NfeType, RowsType, JobType, UsersType, TypeOK

LEMMA NoItemOK ==
  NoItem \in Item /\ ItemOK(NoItem)
BY DEF NoItem, Item, ItemOK

LEMMA NfeTypeInitial ==
  Init => NfeType
<1> SUFFICES ASSUME Init PROVE NfeType
  OBVIOUS
<1>1. Nothing \in [ItemId -> Product \cup {NoProduct, NewProduct}]
  BY DEF Nothing
<1>2. RowsType
  BY NoItemOK DEF Init, RowsType
<1>3. JobType
  BY DEF Init, JobType
<1>4. UsersType
  BY <1>1 DEF Init, UsersType
<1> QED
  BY <1>2, <1>3, <1>4 DEF NfeType

(* Beginning and ending an operation.                                      *)
LEMMA StartType ==
  ASSUME UsersType, NEW o \in Operator, NEW kind \in {"link", "bulk", "confirm"},
         NEW read \in [ItemId -> Product \cup {NoProduct, NewProduct}],
         kind = "link" => \A i \in ItemId : read[i] # NewProduct, Start(o, kind, read)
  PROVE  /\ UsersType' /\ pc[o] = "idle"
         /\ pc' = [pc EXCEPT ![o] = kind] /\ seen' = [seen EXCEPT ![o] = read]
<1>1. /\ pc[o] = "idle" /\ ops[o] < MaxOps
      /\ pc' = [pc EXCEPT ![o] = kind] /\ ops' = [ops EXCEPT ![o] = @ + 1]
      /\ seen' = [seen EXCEPT ![o] = read]
  BY DEF Start
<1>2. /\ pc' \in [Operator -> {"idle", "link", "bulk", "confirm"}]
      /\ seen' \in [Operator -> [ItemId -> Product \cup {NoProduct, NewProduct}]]
  BY <1>1 DEF UsersType
<1>3. ops' \in [Operator -> 0 .. MaxOps]
  <2>1. ops[o] \in 0 .. MaxOps /\ MaxOps \in Nat
    BY DEF UsersType
  <2>2. ops[o] + 1 \in 0 .. MaxOps
    BY <1>1, <2>1
  <2> QED
    BY <1>1, <2>2 DEF UsersType
<1>4. ASSUME NEW u \in Operator, pc'[u] = "link", NEW i \in ItemId
      PROVE  seen'[u][i] # NewProduct
  <2>1. CASE u = o
    BY <1>1, <1>4, <2>1 DEF UsersType
  <2>2. CASE u # o
    BY <1>1, <1>4, <2>2 DEF UsersType
  <2> QED
    BY <2>1, <2>2
<1> QED
  BY <1>1, <1>2, <1>3, <1>4 DEF UsersType

LEMMA FinishType ==
  ASSUME UsersType, NEW o \in Operator, Finish(o)
  PROVE  /\ UsersType' /\ pc'[o] = "idle"
         /\ \A u \in Operator : u # o => pc'[u] = pc[u] /\ seen'[u] = seen[u]
<1>1. /\ pc' = [pc EXCEPT ![o] = "idle"] /\ seen' = [seen EXCEPT ![o] = Nothing]
      /\ ops' = ops
  BY DEF Finish
<1>2. Nothing \in [ItemId -> Product \cup {NoProduct, NewProduct}]
  BY DEF Nothing
<1>3. /\ pc' \in [Operator -> {"idle", "link", "bulk", "confirm"}] /\ pc'[o] = "idle"
      /\ seen' \in [Operator -> [ItemId -> Product \cup {NoProduct, NewProduct}]]
      /\ \A u \in Operator : u # o => pc'[u] = pc[u] /\ seen'[u] = seen[u]
  BY <1>1, <1>2 DEF UsersType
<1> QED
  BY <1>1, <1>3 DEF UsersType

LEMMA JobStepType ==
  ASSUME NfeType,
         \/ Upload \/ Enqueue \/ StartJob \/ MatchItems \/ ParseCommit \/ ParseFails
         \/ Ack \/ DbError \/ WorkerDies
  PROVE  NfeType'
<1>1. CASE Upload \/ Enqueue \/ StartJob \/ ParseFails \/ Ack
  <2>1. /\ UNCHANGED <<items, catalog, posted, tries, deaths, runs, found, pc, ops, seen>>
        /\ status' \in {status, "pending_parse", "failed"}
        /\ job' \in {job, "waiting", "active", "acked"}
        /\ wpc' \in {wpc, "reading", "committed", "idle"}
    BY <1>1 DEF Upload, Enqueue, StartJob, ParseFails, Ack, queue, worker, users
  <2> QED
    BY <2>1 DEF NfeType, RowsType, JobType, UsersType
<1>2. CASE MatchItems
  <2>1. /\ UNCHANGED <<status, items, catalog, posted, job, tries, deaths, runs, pc, ops, seen>>
        /\ found' \in [Line -> Product \cup {NoProduct}] /\ wpc' = "matched"
    BY <1>2 DEF MatchItems, queue, users
  <2> QED
    BY <2>1 DEF NfeType, RowsType, JobType, UsersType
<1>3. CASE ParseCommit
  <2>1. /\ UNCHANGED <<catalog, posted, job, tries, deaths, found, pc, ops, seen>>
        /\ status' = "pending_review" /\ wpc' = "committed"
        /\ runs' = runs + 1 /\ runs < MaxRuns
        /\ items' = [i \in ItemId |->
             IF i[2] = runs + 1 THEN Parsed(found[i[1]]) ELSE items[i]]
    BY <1>3 DEF ParseCommit, queue, users
  <2>2. runs' \in 0 .. MaxRuns
    BY <2>1 DEF NfeType, JobType
  <2>3. ASSUME NEW i \in ItemId PROVE ItemOK(items'[i])
    <3>1. found[i[1]] \in Product \cup {NoProduct}
      BY DEF NfeType, JobType, ItemId
    <3>2. \A p \in Product \cup {NoProduct} : ItemOK(Parsed(p))
      BY DEF ItemOK, Parsed, Item
    <3>3. items'[i] = Parsed(found[i[1]]) \/ items'[i] = items[i]
      BY <2>1
    <3> QED
      BY <3>1, <3>2, <3>3 DEF NfeType, RowsType
  <2>4. items' \in [ItemId -> Item]
    <3>1. \A i \in ItemId : items'[i] \in Item
      BY <2>3 DEF ItemOK
    <3>2. items' = [i \in ItemId |-> items'[i]]
      BY <2>1
    <3> QED
      BY <3>1, <3>2
  <2> QED
    BY <2>1, <2>2, <2>3, <2>4 DEF NfeType, RowsType, JobType, UsersType
<1>4. CASE DbError
  <2>1. /\ UNCHANGED <<status, items, catalog, posted, deaths, runs, found, pc, ops, seen>>
        /\ tries' = tries + 1 /\ tries < MaxErrors /\ job' \in {"waiting", "failed"}
        /\ wpc' = "idle"
    BY <1>4 DEF DbError, users
  <2>2. tries' \in 0 .. MaxErrors
    BY <2>1 DEF NfeType, JobType
  <2> QED
    BY <2>1, <2>2 DEF NfeType, RowsType, JobType, UsersType
<1>5. CASE WorkerDies
  <2>1. /\ UNCHANGED <<status, items, catalog, posted, tries, runs, found, pc, ops, seen>>
        /\ deaths' = deaths + 1 /\ deaths < MaxDeaths /\ job' \in {"waiting", "failed"}
        /\ wpc' = "idle"
    BY <1>5 DEF WorkerDies, users
  <2>2. deaths' \in 0 .. MaxDeaths
    BY <2>1 DEF NfeType, JobType
  <2> QED
    BY <2>1, <2>2 DEF NfeType, RowsType, JobType, UsersType
<1> QED
  BY <1>1, <1>2, <1>3, <1>4, <1>5

(* What the operators' commits write.                                      *)
LEMMA LinkWrites ==
  ASSUME NfeType, NEW o \in Operator, LinkCommit(o)
  PROVE  /\ RowsType' /\ UNCHANGED <<status, catalog, posted>>
         /\ \A i \in ItemId : i \notin Chosen(o) => items'[i] = items[i]
         /\ \A i \in Chosen(o) : items'[i].status = "created"
<1>1. /\ pc[o] = "link" /\ UNCHANGED <<status, catalog, posted>>
      /\ items' = [i \in ItemId |-> IF i \in Chosen(o)
                                    THEN [product |-> seen[o][i], status |-> "created"]
                                    ELSE items[i]]
  BY DEF LinkCommit
<1>2. ASSUME NEW i \in ItemId
      PROVE  /\ items'[i] \in Item /\ ItemOK(items'[i])
             /\ i \notin Chosen(o) => items'[i] = items[i]
             /\ i \in Chosen(o) => items'[i].status = "created"
  <2>1. CASE i \in Chosen(o)
    <3>1. seen[o][i] \in Product
      BY <1>1, <2>1 DEF NfeType, UsersType, Chosen
    <3>2. items'[i] = [product |-> seen[o][i], status |-> "created"]
      BY <1>1, <2>1
    <3>3. items'[i] \in Item /\ items'[i].product = seen[o][i] /\ items'[i].status = "created"
      BY <3>1, <3>2 DEF Item
    <3>4. ItemOK(items'[i])
      BY <3>1, <3>3 DEF ItemOK
    <3> QED
      BY <2>1, <3>3, <3>4
  <2>2. CASE i \notin Chosen(o)
    BY <1>1, <2>2 DEF NfeType, RowsType
  <2> QED
    BY <2>1, <2>2
<1>3. items' = [i \in ItemId |-> items'[i]]
  BY <1>1
<1>4. items' \in [ItemId -> Item]
  BY <1>2, <1>3
<1>5. \A i \in Chosen(o) : items'[i].status = "created"
  BY <1>2 DEF Chosen
<1> QED
  BY <1>1, <1>2, <1>4, <1>5 DEF NfeType, RowsType

LEMMA BulkWrites ==
  ASSUME NfeType, NEW o \in Operator, BulkCommit(o)
  PROVE  /\ RowsType' /\ UNCHANGED <<status, posted>>
         /\ \A i \in ItemId : i \notin Chosen(o) => items'[i] = items[i]
         /\ \A i \in Chosen(o) : items'[i].status \in {"created", "matched"}
<1> DEFINE new == {LineCode[i[1]] : i \in {j \in ItemId : seen[o][j] = NewProduct}}
<1>1. PICK id \in Injection(new, Product \ Existing) :
        /\ catalog' = [p \in Product |-> IF \E c \in new : id[c] = p
                                        THEN CHOOSE c \in new : id[c] = p
                                        ELSE catalog[p]]
        /\ items' = [i \in ItemId |->
             CASE i \notin Chosen(o)       -> items[i]
               [] seen[o][i] = NewProduct -> [product |-> id[LineCode[i[1]]],
                                              status |-> "created"]
               [] OTHER                   -> [product |-> seen[o][i],
                                              status |-> "matched"]]
  BY DEF BulkCommit
<1>2. UNCHANGED <<status, posted>>
  BY DEF BulkCommit
<1>3. id \in [new -> Product \ Existing]
  BY DEF Injection, IsInjective
<1>4. new \subseteq Code
  BY DEF ItemId
<1>5. catalog' \in [Product -> Code \cup {NoProduct}]
  <2>1. ASSUME NEW p \in Product PROVE catalog'[p] \in Code \cup {NoProduct}
    <3>1. CASE \E c \in new : id[c] = p
      <4>1. catalog'[p] = CHOOSE c \in new : id[c] = p
        BY <1>1, <3>1
      <4>2. catalog'[p] \in new
        BY <3>1, <4>1
      <4> QED
        BY <1>4, <4>2
    <3>2. CASE ~ \E c \in new : id[c] = p
      BY <1>1, <3>2 DEF NfeType, RowsType
    <3> QED
      BY <3>1, <3>2
  <2>2. catalog' = [p \in Product |-> catalog'[p]]
    BY <1>1
  <2> QED
    BY <2>1, <2>2
<1>6. ASSUME NEW i \in ItemId
      PROVE  /\ items'[i] \in Item /\ ItemOK(items'[i])
             /\ i \notin Chosen(o) => items'[i] = items[i]
             /\ i \in Chosen(o) => items'[i].status \in {"created", "matched"}
  <2>1. CASE i \notin Chosen(o)
    <3>1. seen[o][i] # NewProduct
      BY <2>1 DEF Chosen
    <3>2. items'[i] = items[i]
      BY <1>1, <2>1, <3>1
    <3> QED
      BY <2>1, <3>2 DEF NfeType, RowsType
  <2>2. CASE i \in Chosen(o) /\ seen[o][i] = NewProduct
    <3>1. LineCode[i[1]] \in new
      BY <2>2
    <3>2. id[LineCode[i[1]]] \in Product
      BY <1>3, <3>1
    <3>3. items'[i] = [product |-> id[LineCode[i[1]]], status |-> "created"]
      BY <1>1, <2>2
    <3> HIDE DEF new
    <3>4. /\ items'[i] \in Item /\ items'[i].product = id[LineCode[i[1]]]
          /\ items'[i].status = "created"
      BY <3>2, <3>3 DEF Item
    <3>5. ItemOK(items'[i])
      BY <3>2, <3>4 DEF ItemOK
    <3> QED
      BY <2>2, <3>4, <3>5
  <2>3. CASE i \in Chosen(o) /\ seen[o][i] # NewProduct
    <3>1. seen[o][i] \in Product
      BY <2>3 DEF NfeType, UsersType, Chosen
    <3>2. items'[i] = [product |-> seen[o][i], status |-> "matched"]
      BY <1>1, <2>3
    <3>3. items'[i] \in Item /\ items'[i].product = seen[o][i] /\ items'[i].status = "matched"
      BY <3>1, <3>2 DEF Item
    <3>4. ItemOK(items'[i])
      BY <3>1, <3>3 DEF ItemOK
    <3> QED
      BY <2>3, <3>3, <3>4
  <2> QED
    BY <2>1, <2>2, <2>3
<1>7. items' = [i \in ItemId |-> items'[i]]
  BY <1>1
<1>8. items' \in [ItemId -> Item]
  BY <1>6, <1>7
<1>9. \A i \in Chosen(o) : items'[i].status \in {"created", "matched"}
  BY <1>6 DEF Chosen
<1> QED
  BY <1>2, <1>5, <1>6, <1>8, <1>9 DEF NfeType, RowsType

LEMMA ConfirmWrites ==
  ASSUME NfeType, NEW o \in Operator, ConfirmCommit(o)
  PROVE  /\ RowsType' /\ UNCHANGED <<items, catalog>> /\ status' = "confirmed"
         /\ \A i \in ItemId : seen[o][i] \in Product => posted'[i][seen[o][i]] > 0
<1>1. /\ UNCHANGED <<items, catalog>> /\ status' = "confirmed"
      /\ posted' = [i \in ItemId |-> [p \in Product |->
                      posted[i][p] + (IF seen[o][i] = p THEN 1 ELSE 0)]]
  BY DEF ConfirmCommit
<1>2. \A i \in ItemId : \A p \in Product : posted[i][p] \in Nat
  BY DEF NfeType, RowsType
<1>3. posted' \in [ItemId -> [Product -> Nat]]
  BY <1>1, <1>2
<1>4. \A i \in ItemId : seen[o][i] \in Product => posted'[i][seen[o][i]] > 0
  BY <1>1, <1>2
<1> QED
  BY <1>1, <1>3, <1>4 DEF NfeType, RowsType

(* What the operators read.                                                *)
LEMMA LinkReads ==
  ASSUME NfeType, NEW o \in Operator, LinkRead(o)
  PROVE  /\ UsersType' /\ o \in Linkers /\ status = "pending_review"
         /\ UNCHANGED <<status, items, catalog, posted, job, tries, deaths, runs, wpc, found>>
         /\ pc'[o] = "link" /\ \A u \in Operator : u # o => pc'[u] = pc[u] /\ seen'[u] = seen[u]
         /\ Chosen(o)' # {} /\ Chosen(o)' \subseteq Unmatched
<1>1. PICK i \in Unmatched, p \in Existing : Start(o, "link", [Nothing EXCEPT ![i] = p])
  BY DEF LinkRead, Linkable
<1> DEFINE read == [Nothing EXCEPT ![i] = p]
<1>2. i \in ItemId /\ p \in Product /\ p # NewProduct /\ p # NoProduct
  BY DEF Unmatched, Rows, Existing
<1>3. /\ read \in [ItemId -> Product \cup {NoProduct, NewProduct}]
      /\ \A j \in ItemId : read[j] # NewProduct
      /\ read[i] = p /\ \A j \in ItemId : j # i => read[j] = NoProduct
  BY <1>2 DEF Nothing
<1>4. Start(o, "link", read)
  BY <1>1
<1> HIDE DEF read
<1>5. /\ UsersType' /\ pc' = [pc EXCEPT ![o] = "link"] /\ seen' = [seen EXCEPT ![o] = read]
  BY <1>3, <1>4, StartType DEF NfeType
<1>6. /\ pc'[o] = "link" /\ seen'[o] = read
      /\ \A u \in Operator : u # o => pc'[u] = pc[u] /\ seen'[u] = seen[u]
  BY <1>5 DEF NfeType, UsersType
<1>7. Chosen(o)' = {i}
  BY <1>2, <1>3, <1>6 DEF Chosen
<1> QED
  BY <1>5, <1>6, <1>7 DEF LinkRead, queue, worker

LEMMA BulkReads ==
  ASSUME NfeType, NEW o \in Operator, BulkRead(o)
  PROVE  /\ UsersType' /\ o \in Linkers /\ status = "pending_review"
         /\ UNCHANGED <<status, items, catalog, posted, job, tries, deaths, runs, wpc, found>>
         /\ pc'[o] = "bulk" /\ \A u \in Operator : u # o => pc'[u] = pc[u] /\ seen'[u] = seen[u]
         /\ Chosen(o)' # {} /\ Chosen(o)' \subseteq Unmatched
<1>1. PICK match \in [Code -> Existing \cup {NewProduct}] :
        Start(o, "bulk", [i \in ItemId |->
          IF i \in Unmatched THEN match[LineCode[i[1]]] ELSE NoProduct])
  BY DEF BulkRead
<1> DEFINE read == [i \in ItemId |->
                      IF i \in Unmatched THEN match[LineCode[i[1]]] ELSE NoProduct]
<1>2. ASSUME NEW i \in ItemId
      PROVE  /\ read[i] \in Product \cup {NoProduct, NewProduct}
             /\ read[i] # NoProduct <=> i \in Unmatched
  <2>1. LineCode[i[1]] \in Code
    BY DEF ItemId
  <2>2. match[LineCode[i[1]]] \in Product \cup {NewProduct}
    BY <2>1 DEF Existing
  <2> QED
    BY <2>2
<1>3. read \in [ItemId -> Product \cup {NoProduct, NewProduct}]
  BY <1>2
<1>4. Start(o, "bulk", read) /\ Unmatched # {} /\ Unmatched \subseteq ItemId
  BY <1>1 DEF BulkRead, Unmatched, Rows
<1> HIDE DEF read
<1>5. /\ UsersType' /\ pc' = [pc EXCEPT ![o] = "bulk"] /\ seen' = [seen EXCEPT ![o] = read]
  BY <1>3, <1>4, StartType DEF NfeType
<1>6. /\ pc'[o] = "bulk" /\ seen'[o] = read
      /\ \A u \in Operator : u # o => pc'[u] = pc[u] /\ seen'[u] = seen[u]
  BY <1>5 DEF NfeType, UsersType
<1>7. Chosen(o)' = Unmatched
  BY <1>2, <1>4, <1>6 DEF Chosen
<1> QED
  BY <1>4, <1>5, <1>6, <1>7 DEF BulkRead, queue, worker

LEMMA ConfirmReads ==
  ASSUME NfeType, NEW o \in Operator, ConfirmRead(o)
  PROVE  /\ UsersType' /\ o \in Confirmers /\ status = "pending_review" /\ Unmatched = {}
         /\ UNCHANGED <<status, items, catalog, posted, job, tries, deaths, runs, wpc, found>>
         /\ pc'[o] = "confirm"
         /\ \A u \in Operator : u # o => pc'[u] = pc[u] /\ seen'[u] = seen[u]
         /\ \A i \in ItemId : seen'[o][i] = items[i].product
<1> DEFINE read == [i \in ItemId |-> items[i].product]
<1>1. read \in [ItemId -> Product \cup {NoProduct, NewProduct}]
  BY DEF NfeType, RowsType, Item
<1>2. Start(o, "confirm", read)
  BY DEF ConfirmRead
<1>3. \A i \in ItemId : read[i] = items[i].product
  OBVIOUS
<1> HIDE DEF read
<1>4. /\ UsersType' /\ pc' = [pc EXCEPT ![o] = "confirm"]
      /\ seen' = [seen EXCEPT ![o] = read]
  BY <1>1, <1>2, StartType DEF NfeType
<1>5. /\ pc'[o] = "confirm" /\ seen'[o] = read
      /\ \A u \in Operator : u # o => pc'[u] = pc[u] /\ seen'[u] = seen[u]
  BY <1>4 DEF NfeType, UsersType
<1> QED
  BY <1>3, <1>4, <1>5 DEF ConfirmRead, Confirmable, AllMatched, queue, worker

LEMMA OperatorStepType ==
  ASSUME NfeType, NEW o \in Operator,
         \/ LinkRead(o) \/ LinkCommit(o) \/ BulkRead(o) \/ BulkCommit(o)
         \/ ConfirmRead(o) \/ ConfirmCommit(o) \/ GiveUp(o)
  PROVE  NfeType'
<1>1. CASE LinkRead(o) \/ BulkRead(o) \/ ConfirmRead(o)
  <2>1. /\ UsersType'
        /\ UNCHANGED <<status, items, catalog, posted, job, tries, deaths, runs, wpc, found>>
    BY <1>1, LinkReads, BulkReads, ConfirmReads
  <2> QED
    BY <2>1 DEF NfeType, RowsType, JobType
<1>2. CASE LinkCommit(o) \/ BulkCommit(o) \/ ConfirmCommit(o) \/ GiveUp(o)
  <2>1. UsersType'
    BY <1>2, FinishType DEF NfeType, LinkCommit, BulkCommit, ConfirmCommit, GiveUp
  <2>2. JobType'
    BY <1>2 DEF NfeType, JobType, LinkCommit, BulkCommit, ConfirmCommit, GiveUp, queue, worker
  <2>3. RowsType'
    <3>1. CASE GiveUp(o)
      BY <3>1 DEF NfeType, RowsType, GiveUp
    <3> QED
      BY <1>2, <3>1, LinkWrites, BulkWrites, ConfirmWrites
  <2> QED
    BY <2>1, <2>2, <2>3 DEF NfeType
<1> QED
  BY <1>1, <1>2

LEMMA CreateWrites ==
  ASSUME NfeType, CreateProduct
  PROVE  /\ NfeType'
         /\ UNCHANGED <<status, items, posted, job, tries, deaths, runs, wpc, found, pc, ops, seen>>
<1>1. /\ UNCHANGED <<status, items, posted, job, tries, deaths, runs, wpc, found, pc, ops, seen>>
      /\ \E c \in Code, p \in Product \ Existing : catalog' = [catalog EXCEPT ![p] = c]
  BY DEF CreateProduct, queue, worker, users
<1>2. catalog' \in [Product -> Code \cup {NoProduct}]
  BY <1>1 DEF NfeType, RowsType
<1> QED
  BY <1>1, <1>2 DEF NfeType, RowsType, JobType, UsersType

LEMMA NfeTypeStep ==
  ASSUME NfeType, [Next]_vars PROVE NfeType'
<1>1. CASE UNCHANGED vars
  BY <1>1 DEF vars, NfeType, RowsType, JobType, UsersType
<1>2. CASE Next
  BY <1>2, JobStepType, CreateWrites, OperatorStepType DEF Next, Work
<1> QED
  BY <1>1, <1>2

LEMMA NfeTypeInvariant ==
  Spec => []NfeType
<1>1. Init => NfeType
  BY NfeTypeInitial
<1>2. NfeType /\ [Next]_vars => NfeType'
  BY NfeTypeStep
<1> QED
  BY <1>1, <1>2, PTL DEF Spec

(* The import, its items, the job and what each operator has read keep to  *)
(* their values; an item is unmatched exactly while it has no product,     *)
(* however many operators link at once and however often the file is read. *)
THEOREM NfeTypeCorrect == Spec => []TypeOK
<1>1. NfeType => TypeOK
  BY NfeTypesAgree
<1> QED
  BY <1>1, NfeTypeInvariant, PTL

--------------------------------------------------------------------------------
(* The order of things, with one operator that links and one that          *)
(* confirms, and a worker that does not die between its commit and the     *)
(* queue's hearing of it.                                                  *)

LEMMA NfeInitial ==
  Init => NfeInv
<1> SUFFICES ASSUME Init PROVE NfeInv
  OBVIOUS
<1>1. NfeType /\ Rows = {} /\ \A o \in Operator : pc[o] = "idle"
  BY NfeTypeInitial DEF Init, Rows
<1> QED
  BY <1>1 DEF Init, NfeInv, Pipeline, Roles, Linking, Confirming, Confirmed

(* Steps of the job and the catalog leave the operators alone.             *)
LEMMA JobStep ==
  ASSUME NfeInv, ~Redelivers,
         \/ Upload \/ Enqueue \/ StartJob \/ MatchItems \/ ParseCommit \/ ParseFails
         \/ Ack \/ DbError \/ WorkerDies \/ CreateProduct
  PROVE  NfeInv' /\ (StatusMove \/ UNCHANGED status)
<1>1. NfeType'
  BY JobStepType, CreateWrites DEF NfeInv
<1>2. UNCHANGED <<pc, seen, posted>>
  BY DEF Upload, Enqueue, StartJob, MatchItems, ParseCommit, ParseFails, Ack, DbError,
         WorkerDies, CreateProduct, users
<1>3. Roles'
  BY <1>2 DEF NfeInv, Roles
<1>4. CASE UNCHANGED <<items, status>>
  <2>1. Rows' = Rows /\ Unmatched' = Unmatched /\ \A o \in Operator : Chosen(o)' = Chosen(o)
    BY <1>2, <1>4 DEF Rows, Unmatched, Chosen
  <2>2. Linking' /\ Confirming' /\ Confirmed'
    BY <1>2, <1>4, <2>1 DEF NfeInv, Linking, Confirming, Confirmed
  <2>3. Pipeline'
    <3>1. /\ status = "none" => job' = "none"
          /\ wpc' # "idle" => job' = "active"
          /\ job' = "waiting" \/ wpc' \in {"reading", "matched"} => status = "pending_parse"
      BY <1>4
         DEF NfeInv, NfeType, JobType, Pipeline, Upload, Enqueue, StartJob, MatchItems,
             ParseCommit, ParseFails, Ack, DbError, WorkerDies, CreateProduct, queue, worker
    <3> QED
      BY <1>2, <1>4, <2>1, <3>1 DEF NfeInv, Pipeline
  <2> QED
    BY <1>1, <1>3, <1>4, <2>2, <2>3 DEF NfeInv
<1>5. CASE Upload
  <2>1. /\ status = "none" /\ status' = "pending_parse" /\ UNCHANGED <<items, job, wpc>>
    BY <1>5 DEF Upload, queue, worker
  <2>2. /\ Rows' = {} /\ job' = "none" /\ wpc' = "idle"
        /\ \A o \in Operator : pc'[o] = "idle"
    BY <1>2, <2>1 DEF NfeInv, Pipeline, Rows
  <2>3. Pipeline' /\ Linking' /\ Confirming' /\ Confirmed'
    BY <2>1, <2>2 DEF Pipeline, Linking, Confirming, Confirmed
  <2> QED
    BY <1>1, <1>3, <2>1, <2>3 DEF NfeInv, StatusMove
<1>6. CASE ParseFails
  <2>1. /\ wpc = "reading" /\ status' = "failed" /\ wpc' = "committed" /\ UNCHANGED <<items, job>>
    BY <1>6 DEF ParseFails, queue
  <2>2. status = "pending_parse" /\ job = "active"
    BY <2>1 DEF NfeInv, Pipeline
  <2>3. Rows' = {} /\ \A o \in Operator : pc'[o] = "idle"
    BY <1>2, <2>1, <2>2 DEF NfeInv, Pipeline, Rows
  <2>4. Pipeline' /\ Linking' /\ Confirming' /\ Confirmed'
    BY <2>1, <2>2, <2>3 DEF Pipeline, Linking, Confirming, Confirmed
  <2> QED
    BY <1>1, <1>3, <2>1, <2>2, <2>4 DEF NfeInv, StatusMove
<1>7. CASE ParseCommit
  <2>1. wpc = "matched" /\ status' = "pending_review" /\ wpc' = "committed" /\ UNCHANGED job
    BY <1>7 DEF ParseCommit, queue
  <2>2. status = "pending_parse" /\ job = "active" /\ \A o \in Operator : pc'[o] = "idle"
    BY <1>2, <2>1 DEF NfeInv, Pipeline
  <2>3. Pipeline' /\ Linking' /\ Confirming' /\ Confirmed'
    BY <2>1, <2>2 DEF NfeInv, Pipeline, Linking, Confirming, Confirmed
  <2> QED
    BY <1>1, <1>3, <2>1, <2>2, <2>3 DEF NfeInv, StatusMove
<1>8. \/ Upload \/ ParseFails \/ ParseCommit \/ UNCHANGED <<items, status>>
  BY DEF Enqueue, StartJob, MatchItems, Ack, DbError, WorkerDies, CreateProduct
<1> QED
  BY <1>4, <1>5, <1>6, <1>7, <1>8

(* Beginning an operation: the items stay as they are.                     *)
LEMMA ReadStep ==
  ASSUME NfeInv, NEW o \in Operator, LinkRead(o) \/ BulkRead(o) \/ ConfirmRead(o)
  PROVE  NfeInv' /\ UNCHANGED status
<1>1. /\ UNCHANGED <<status, items, posted, job, wpc>> /\ status = "pending_review"
      /\ \A u \in Operator : u # o => pc'[u] = pc[u] /\ seen'[u] = seen[u]
  BY LinkReads, BulkReads, ConfirmReads DEF NfeInv
<1>2. NfeType'
  BY OperatorStepType DEF NfeInv
<1>3. /\ Rows' = Rows /\ Unmatched' = Unmatched
      /\ \A u \in Operator : u # o => Chosen(u)' = Chosen(u)
  BY <1>1 DEF Rows, Unmatched, Chosen
<1>4. \/ pc'[o] \in {"link", "bulk"} /\ o \in Linkers
            /\ Chosen(o)' # {} /\ Chosen(o)' \subseteq Unmatched
      \/ pc'[o] = "confirm" /\ o \in Confirmers /\ Unmatched = {}
            /\ \A i \in ItemId : seen'[o][i] = items[i].product
  BY LinkReads, BulkReads, ConfirmReads DEF NfeInv
<1>5. Pipeline' /\ Confirmed'
  BY <1>1, <1>3 DEF NfeInv, Pipeline, Confirmed
<1>6. Roles'
  BY <1>1, <1>4 DEF NfeInv, Roles
<1>7. Linking'
  <2>1. ASSUME NEW u \in Operator, pc'[u] \in {"link", "bulk"}
        PROVE  Chosen(u)' # {} /\ Chosen(u)' \subseteq Unmatched'
    <3>1. CASE u = o
      BY <1>3, <1>4, <2>1, <3>1
    <3>2. CASE u # o
      BY <1>1, <1>3, <2>1, <3>2 DEF NfeInv, Linking
    <3> QED
      BY <3>1, <3>2
  <2> QED
    BY <2>1 DEF Linking
<1>8. Confirming'
  <2>1. ASSUME NEW u \in Operator, pc'[u] = "confirm"
        PROVE  Unmatched = {} /\ \A i \in ItemId : seen'[u][i] = items[i].product
    <3>1. CASE u = o
      BY <1>4, <2>1, <3>1
    <3>2. CASE u # o
      BY <1>1, <2>1, <3>2 DEF NfeInv, Confirming
    <3> QED
      BY <3>1, <3>2
  <2> QED
    BY <1>1, <1>3, <2>1 DEF Confirming
<1> QED
  BY <1>1, <1>2, <1>5, <1>6, <1>7, <1>8 DEF NfeInv

(* Ending one.  While a linker has items to write, none can be confirming, *)
(* and the import is not confirmed.                                        *)
LEMMA EndStep ==
  ASSUME NfeInv, OneOfEach, NEW o \in Operator,
         LinkCommit(o) \/ BulkCommit(o) \/ ConfirmCommit(o) \/ GiveUp(o)
  PROVE  NfeInv' /\ (StatusMove \/ UNCHANGED status)
<1>1. /\ pc[o] # "idle" /\ pc'[o] = "idle" /\ UNCHANGED <<job, wpc>>
      /\ \A u \in Operator : u # o => pc'[u] = pc[u] /\ seen'[u] = seen[u]
  <2>1. Finish(o) /\ pc[o] # "idle" /\ UNCHANGED <<job, wpc>>
    BY DEF LinkCommit, BulkCommit, ConfirmCommit, GiveUp, queue, worker
  <2> QED
    BY <2>1, FinishType DEF NfeInv, NfeType
<1>2. NfeType'
  BY OperatorStepType DEF NfeInv
<1>3. Roles'
  BY <1>1 DEF NfeInv, Roles
<1>4. status \in {"pending_review", "confirmed"}
  BY <1>1 DEF NfeInv, NfeType, RowsType, Pipeline
<1>5. \A u \in Operator : u # o => Chosen(u)' = Chosen(u)
  BY <1>1 DEF Chosen
<1>6. CASE GiveUp(o)
  <2>1. UNCHANGED <<status, items, posted>>
    BY <1>6 DEF GiveUp
  <2>2. Rows' = Rows /\ Unmatched' = Unmatched
    BY <2>1 DEF Rows, Unmatched
  <2>3. Pipeline' /\ Linking' /\ Confirming' /\ Confirmed'
    BY <1>1, <1>5, <2>1, <2>2
       DEF NfeInv, Pipeline, Linking, Confirming, Confirmed
  <2> QED
    BY <1>2, <1>3, <2>1, <2>3 DEF NfeInv
<1>7. CASE LinkCommit(o) \/ BulkCommit(o)
  <2>1. pc[o] \in {"link", "bulk"}
    BY <1>7 DEF LinkCommit, BulkCommit
  <2>2. o \in Linkers /\ Unmatched # {}
    BY <2>1 DEF NfeInv, Roles, Linking
  <2>3. UNCHANGED <<status, posted>>
    BY <1>7, LinkWrites, BulkWrites DEF NfeInv
  <2>4. \A u \in Operator : pc[u] # "confirm"
    BY <2>2 DEF NfeInv, Confirming
  <2>5. status # "confirmed"
    BY <2>2 DEF NfeInv, Confirmed
  <2>6. \A u \in Operator : pc'[u] = "idle"
    <3>1. ASSUME NEW u \in Operator, u # o PROVE pc'[u] = "idle"
      <4>1. pc[u] \notin {"link", "bulk"}
        BY <2>2, <3>1 DEF NfeInv, Roles, OneOfEach
      <4> QED
        BY <1>1, <2>4, <3>1, <4>1 DEF NfeInv, NfeType, UsersType
    <3> QED
      BY <1>1, <3>1
  <2>7. Pipeline' /\ Linking' /\ Confirming' /\ Confirmed'
    BY <1>1, <1>4, <2>3, <2>5, <2>6
       DEF NfeInv, Pipeline, Linking, Confirming, Confirmed
  <2> QED
    BY <1>2, <1>3, <2>3, <2>7 DEF NfeInv
<1>8. CASE ConfirmCommit(o)
  <2>1. /\ pc[o] = "confirm" /\ o \in Confirmers /\ status = "pending_review"
        /\ Unmatched = {} /\ \A i \in ItemId : seen[o][i] = items[i].product
    BY <1>8 DEF NfeInv, Roles, Confirming, ConfirmCommit
  <2>2. /\ UNCHANGED items /\ status' = "confirmed"
        /\ \A i \in ItemId : seen[o][i] \in Product => posted'[i][seen[o][i]] > 0
    BY <1>8, ConfirmWrites DEF NfeInv
  <2>3. Rows' = Rows /\ Unmatched' = {}
    BY <2>1, <2>2 DEF Rows, Unmatched
  <2>4. ASSUME NEW i \in Rows PROVE posted'[i][items[i].product] > 0
    <3>1. i \in ItemId /\ items[i] # NoItem /\ items[i].status # "unmatched"
      BY <2>1, <2>4 DEF Rows, Unmatched
    <3>2. items[i].product \in Product
      BY <3>1 DEF NfeInv, NfeType, RowsType, ItemOK, Item
    <3> QED
      BY <2>1, <2>2, <3>1, <3>2
  <2>5. \A u \in Operator : pc'[u] = "idle"
    <3>1. ASSUME NEW u \in Operator, u # o PROVE pc'[u] = "idle"
      <4>1. pc[u] # "confirm"
        BY <2>1, <3>1 DEF NfeInv, Roles, OneOfEach
      <4>2. pc[u] \notin {"link", "bulk"}
        BY <2>1, <3>1 DEF NfeInv, Linking
      <4> QED
        BY <1>1, <3>1, <4>1, <4>2 DEF NfeInv, NfeType, UsersType
    <3> QED
      BY <1>1, <3>1
  <2>6. Pipeline' /\ Linking' /\ Confirming' /\ Confirmed'
    BY <1>1, <2>1, <2>2, <2>3, <2>4, <2>5
       DEF NfeInv, Pipeline, Linking, Confirming, Confirmed
  <2> QED
    BY <1>2, <1>3, <2>1, <2>2, <2>6 DEF NfeInv, StatusMove
<1> QED
  BY <1>6, <1>7, <1>8

LEMMA NfeStep ==
  ASSUME NfeInv, ~Redelivers, OneOfEach, [Next]_vars
  PROVE  NfeInv' /\ (StatusMove \/ UNCHANGED status)
<1>1. CASE UNCHANGED vars
  <2>1. UNCHANGED <<status, items, posted, job, wpc, pc, seen>> /\ NfeType'
    BY <1>1, NfeTypeStep DEF vars, NfeInv
  <2>2. Rows' = Rows /\ Unmatched' = Unmatched /\ \A o \in Operator : Chosen(o)' = Chosen(o)
    BY <2>1 DEF Rows, Unmatched, Chosen
  <2>3. Pipeline' /\ Roles' /\ Linking' /\ Confirming' /\ Confirmed'
    BY <2>1, <2>2 DEF NfeInv, Pipeline, Roles, Linking, Confirming, Confirmed
  <2> QED
    BY <2>1, <2>3 DEF NfeInv
<1>2. CASE Next
  BY <1>2, JobStep, ReadStep, EndStep DEF Next, Work
<1> QED
  BY <1>1, <1>2

LEMMA NfeInvariant ==
  ASSUME ~Redelivers, OneOfEach
  PROVE  Spec => []NfeInv
<1>1. Init => NfeInv
  BY NfeInitial
<1>2. NfeInv /\ [Next]_vars => NfeInv'
  BY NfeStep
<1> QED
  BY <1>1, <1>2, PTL DEF Spec

(* The status of an import goes the way the API gives and never back, in   *)
(* spite of failed attempts, deaths in mid-job and links that commit late, *)
(* as long as one operator confirms, one links, and the worker does not    *)
(* die between its commit and the queue.                                   *)
THEOREM StatusNeverBack ==
  ASSUME ~Redelivers, OneOfEach
  PROVE  Spec => StatusOrder
<1>1. NfeInv /\ [Next]_vars => [StatusMove]_status
  BY NfeStep
<1> QED
  BY <1>1, NfeInvariant, PTL DEF Spec, StatusOrder

(* Under the same assumptions, each item of a confirmed import was entered *)
(* under the product it shows: confirmNfeImport posts what it read before  *)
(* it locked anything, and no link can have changed it since.              *)
THEOREM ShownIsPosted ==
  ASSUME ~Redelivers, OneOfEach
  PROVE  Spec => []PostedAsShown
<1>1. NfeInv => PostedAsShown
  <2>1. SUFFICES ASSUME NfeInv, status = "confirmed", NEW i \in Rows
                 PROVE  items[i].product # NoProduct /\ posted[i][items[i].product] > 0
    BY DEF PostedAsShown
  <2>2. Unmatched = {} /\ posted[i][items[i].product] > 0
    BY <2>1 DEF NfeInv, Confirmed
  <2>3. items[i].product # NoProduct
    BY <2>1, <2>2 DEF NfeInv, NfeType, RowsType, ItemOK, Rows, Unmatched
  <2> QED
    BY <2>2, <2>3
<1> QED
  BY <1>1, NfeInvariant, PTL

--------------------------------------------------------------------------------
(* What a note enters, with any number of operators that link, one that    *)
(* confirms and the same worker.  The file is read once, so that a line    *)
(* has one item; no link makes an item or takes one away; and the one      *)
(* confirmation posts each item it read under one product.                 *)

OneConfirmer == \A a, b \in Confirmers : a = b

ReadOnce ==
  /\ status = "none" => job = "none"
  /\ wpc # "idle" => job = "active"
  /\ job = "waiting" \/ wpc \in {"reading", "matched"} => status = "pending_parse"
  /\ status \in {"none", "pending_parse", "failed"} =>
       runs = 0 /\ \A o \in Operator : pc[o] = "idle"
  /\ status \in {"pending_review", "confirmed"} => runs = 1
  /\ \A i \in ItemId : i \in Rows <=> i[2] <= runs

LinksRows == \A o \in Operator : pc[o] \in {"link", "bulk"} => Chosen(o) \subseteq Rows

ConfirmsRows ==
  \A o \in Operator : pc[o] = "confirm" =>
    /\ o \in Confirmers /\ status = "pending_review"
    /\ \A i \in ItemId : IF i \in Rows THEN seen[o][i] \in Product ELSE seen[o][i] = NoProduct

Under(p) == [q \in Product |-> IF q = p THEN 1 ELSE 0]
Nowhere == [q \in Product |-> 0]

PostedOnce ==
  \A i \in ItemId :
    IF status = "confirmed" /\ i \in Rows THEN \E p \in Product : posted[i] = Under(p)
                                         ELSE posted[i] = Nowhere

EntryInv == NfeType /\ ReadOnce /\ LinksRows /\ ConfirmsRows /\ PostedOnce

LEMMA EntryInitial ==
  Init => EntryInv
<1> SUFFICES ASSUME Init PROVE EntryInv
  OBVIOUS
<1>1. NfeType /\ Rows = {} /\ \A o \in Operator : pc[o] = "idle"
  BY NfeTypeInitial DEF Init, Rows
<1>2. \A i \in ItemId : ~(i[2] <= 0)
  BY DEF ItemId
<1>3. ReadOnce
  BY <1>1, <1>2 DEF Init, ReadOnce
<1>4. PostedOnce
  BY <1>1 DEF Init, PostedOnce, Nowhere
<1> QED
  BY <1>1, <1>3, <1>4 DEF EntryInv, LinksRows, ConfirmsRows

LEMMA JobEnters ==
  ASSUME EntryInv, ~Redelivers,
         \/ Upload \/ Enqueue \/ StartJob \/ MatchItems \/ ParseCommit \/ ParseFails
         \/ Ack \/ DbError \/ WorkerDies \/ CreateProduct
  PROVE  EntryInv'
<1>1. NfeType'
  BY JobStepType, CreateWrites DEF EntryInv
<1>2. UNCHANGED <<pc, seen, posted>>
  BY DEF Upload, Enqueue, StartJob, MatchItems, ParseCommit, ParseFails, Ack, DbError,
         WorkerDies, CreateProduct, users
<1>3. CASE UNCHANGED <<items, status, runs>>
  <2>1. Rows' = Rows /\ \A o \in Operator : Chosen(o)' = Chosen(o)
    BY <1>2, <1>3 DEF Rows, Chosen
  <2>2. LinksRows' /\ ConfirmsRows' /\ PostedOnce'
    BY <1>2, <1>3, <2>1 DEF EntryInv, LinksRows, ConfirmsRows, PostedOnce
  <2>3. /\ status = "none" => job' = "none"
        /\ wpc' # "idle" => job' = "active"
        /\ job' = "waiting" \/ wpc' \in {"reading", "matched"} => status = "pending_parse"
    BY <1>3
       DEF EntryInv, NfeType, JobType, ReadOnce, Upload, Enqueue, StartJob, MatchItems,
           ParseCommit, ParseFails, Ack, DbError, WorkerDies, CreateProduct, queue, worker
  <2> QED
    BY <1>1, <1>2, <1>3, <2>1, <2>2, <2>3 DEF EntryInv, ReadOnce
<1>4. CASE Upload
  <2>1. /\ status = "none" /\ status' = "pending_parse" /\ UNCHANGED <<items, job, wpc, runs>>
    BY <1>4 DEF Upload, queue, worker
  <2>2. /\ Rows' = Rows /\ job' = "none" /\ wpc' = "idle"
        /\ \A o \in Operator : pc'[o] = "idle"
    BY <1>2, <2>1 DEF EntryInv, ReadOnce, Rows
  <2>3. PostedOnce'
    BY <1>2, <2>1, <2>2 DEF EntryInv, PostedOnce
  <2> QED
    BY <1>1, <2>1, <2>2, <2>3 DEF EntryInv, ReadOnce, LinksRows, ConfirmsRows
<1>5. CASE ParseFails
  <2>1. /\ wpc = "reading" /\ status' = "failed" /\ wpc' = "committed"
        /\ UNCHANGED <<items, job, runs>>
    BY <1>5 DEF ParseFails, queue
  <2>2. status = "pending_parse" /\ job = "active" /\ Rows' = Rows
        /\ \A o \in Operator : pc'[o] = "idle"
    BY <1>2, <2>1 DEF EntryInv, ReadOnce, Rows
  <2>3. PostedOnce'
    BY <1>2, <2>1, <2>2 DEF EntryInv, PostedOnce
  <2> QED
    BY <1>1, <2>1, <2>2, <2>3 DEF EntryInv, ReadOnce, LinksRows, ConfirmsRows
<1>6. CASE ParseCommit
  <2>1. /\ wpc = "matched" /\ status' = "pending_review" /\ wpc' = "committed"
        /\ runs' = runs + 1 /\ UNCHANGED job
        /\ items' = [i \in ItemId |->
             IF i[2] = runs + 1 THEN Parsed(found[i[1]]) ELSE items[i]]
    BY <1>6 DEF ParseCommit, queue
  <2>2. /\ status = "pending_parse" /\ job = "active" /\ runs = 0
        /\ \A o \in Operator : pc'[o] = "idle"
    BY <1>2, <2>1 DEF EntryInv, ReadOnce
  <2>3. \A i \in ItemId : i \in Rows' <=> i[2] <= 1
    <3> SUFFICES ASSUME NEW i \in ItemId PROVE items'[i] # NoItem <=> i[2] <= 1
      BY DEF Rows
    <3>1. i[2] \in Nat /\ i[2] >= 1
      BY DEF ItemId
    <3>2. CASE i[2] = 1
      <4>1. items'[i] = Parsed(found[i[1]])
        BY <2>1, <2>2, <3>2
      <4>2. items'[i].status # "absent"
        BY <4>1 DEF Parsed
      <4> QED
        BY <3>2, <4>2 DEF NoItem
    <3>3. CASE i[2] # 1
      <4>1. items'[i] = items[i] /\ ~(i[2] <= 1) /\ ~(i[2] <= runs)
        BY <2>1, <2>2, <3>1, <3>3
      <4> QED
        BY <4>1 DEF EntryInv, ReadOnce, Rows
    <3> QED
      BY <3>2, <3>3
  <2>4. PostedOnce'
    BY <1>2, <2>1, <2>2 DEF EntryInv, PostedOnce
  <2> QED
    BY <1>1, <2>1, <2>2, <2>3, <2>4 DEF EntryInv, ReadOnce, LinksRows, ConfirmsRows
<1>7. \/ Upload \/ ParseFails \/ ParseCommit \/ UNCHANGED <<items, status, runs>>
  BY DEF Enqueue, StartJob, MatchItems, Ack, DbError, WorkerDies, CreateProduct
<1> QED
  BY <1>3, <1>4, <1>5, <1>6, <1>7

LEMMA ReadEnters ==
  ASSUME EntryInv, NEW o \in Operator, LinkRead(o) \/ BulkRead(o) \/ ConfirmRead(o)
  PROVE  EntryInv'
<1>1. /\ UNCHANGED <<status, items, posted, job, wpc, runs>> /\ status = "pending_review"
      /\ \A u \in Operator : u # o => pc'[u] = pc[u] /\ seen'[u] = seen[u]
  BY LinkReads, BulkReads, ConfirmReads DEF EntryInv
<1>2. NfeType'
  BY OperatorStepType DEF EntryInv
<1>3. /\ Rows' = Rows /\ \A u \in Operator : u # o => Chosen(u)' = Chosen(u)
  BY <1>1 DEF Rows, Chosen
<1>4. \/ pc'[o] \in {"link", "bulk"} /\ Chosen(o)' \subseteq Rows
      \/ /\ pc'[o] = "confirm" /\ o \in Confirmers
         /\ \A i \in ItemId : IF i \in Rows THEN seen'[o][i] \in Product
                                           ELSE seen'[o][i] = NoProduct
  <2>1. CASE LinkRead(o) \/ BulkRead(o)
    <3>1. pc'[o] \in {"link", "bulk"} /\ Chosen(o)' \subseteq Unmatched
      BY <2>1, LinkReads, BulkReads DEF EntryInv
    <3>2. Unmatched \subseteq Rows
      BY DEF Unmatched
    <3> QED
      BY <3>1, <3>2
  <2>2. CASE ConfirmRead(o)
    <3>1. /\ pc'[o] = "confirm" /\ o \in Confirmers /\ Unmatched = {}
          /\ \A i \in ItemId : seen'[o][i] = items[i].product
      BY <2>2, ConfirmReads DEF EntryInv
    <3>2. ASSUME NEW i \in Rows PROVE items[i].product \in Product
      <4>1. i \in ItemId /\ items[i] # NoItem /\ items[i].status # "unmatched"
        BY <3>1, <3>2 DEF Rows, Unmatched
      <4> QED
        BY <4>1 DEF EntryInv, NfeType, RowsType, ItemOK, Item
    <3>3. ASSUME NEW i \in ItemId, i \notin Rows PROVE items[i].product = NoProduct
      BY <3>3 DEF Rows, NoItem
    <3> QED
      BY <3>1, <3>2, <3>3
  <2> QED
    BY <2>1, <2>2
<1>5. ReadOnce' /\ PostedOnce'
  BY <1>1, <1>3 DEF EntryInv, ReadOnce, PostedOnce
<1>6. LinksRows'
  <2>1. ASSUME NEW u \in Operator, pc'[u] \in {"link", "bulk"}
        PROVE  Chosen(u)' \subseteq Rows'
    <3>1. CASE u = o
      BY <1>3, <1>4, <2>1, <3>1
    <3>2. CASE u # o
      BY <1>1, <1>3, <2>1, <3>2 DEF EntryInv, LinksRows
    <3> QED
      BY <3>1, <3>2
  <2> QED
    BY <2>1 DEF LinksRows
<1>7. ConfirmsRows'
  <2>1. ASSUME NEW u \in Operator, pc'[u] = "confirm"
        PROVE  /\ u \in Confirmers
               /\ \A i \in ItemId : IF i \in Rows THEN seen'[u][i] \in Product
                                                 ELSE seen'[u][i] = NoProduct
    <3>1. CASE u = o
      BY <1>4, <2>1, <3>1
    <3>2. CASE u # o
      BY <1>1, <2>1, <3>2 DEF EntryInv, ConfirmsRows
    <3> QED
      BY <3>1, <3>2
  <2> QED
    BY <1>1, <1>3, <2>1 DEF ConfirmsRows
<1> QED
  BY <1>2, <1>5, <1>6, <1>7 DEF EntryInv

LEMMA EndEnters ==
  ASSUME EntryInv, OneConfirmer, NEW o \in Operator,
         LinkCommit(o) \/ BulkCommit(o) \/ ConfirmCommit(o) \/ GiveUp(o)
  PROVE  EntryInv'
<1>1. /\ pc[o] # "idle" /\ pc'[o] = "idle" /\ UNCHANGED <<job, wpc, runs>>
      /\ \A u \in Operator : u # o => pc'[u] = pc[u] /\ seen'[u] = seen[u]
  <2>1. Finish(o) /\ pc[o] # "idle" /\ UNCHANGED <<job, wpc, runs>>
    BY DEF LinkCommit, BulkCommit, ConfirmCommit, GiveUp, queue, worker
  <2> QED
    BY <2>1, FinishType DEF EntryInv, NfeType
<1>2. NfeType'
  BY OperatorStepType DEF EntryInv
<1>3. \A u \in Operator : u # o => Chosen(u)' = Chosen(u)
  BY <1>1 DEF Chosen
<1>4. Rows' = Rows
  <2>1. CASE GiveUp(o) \/ ConfirmCommit(o)
    BY <2>1 DEF GiveUp, ConfirmCommit, Rows
  <2>2. CASE LinkCommit(o) \/ BulkCommit(o)
    <3>1. Chosen(o) \subseteq Rows
      BY <2>2 DEF EntryInv, LinksRows, LinkCommit, BulkCommit
    <3>2. /\ \A i \in ItemId : i \notin Chosen(o) => items'[i] = items[i]
          /\ \A i \in Chosen(o) : items'[i].status \in {"created", "matched"}
      BY <2>2, LinkWrites, BulkWrites DEF EntryInv
    <3>3. \A i \in Chosen(o) : items'[i] # NoItem
      BY <3>2 DEF NoItem
    <3> QED
      BY <3>1, <3>2, <3>3 DEF Rows
  <2> QED
    BY <2>1, <2>2
<1>5. LinksRows'
  BY <1>1, <1>3, <1>4 DEF EntryInv, LinksRows
<1>6. status \in {"pending_review", "confirmed"} /\ runs = 1
  BY <1>1 DEF EntryInv, NfeType, RowsType, ReadOnce
<1>7. CASE UNCHANGED <<status, posted>>
  <2>1. ReadOnce'
    BY <1>1, <1>4, <1>6, <1>7 DEF EntryInv, ReadOnce
  <2>2. ConfirmsRows'
    BY <1>1, <1>4, <1>7 DEF EntryInv, ConfirmsRows
  <2>3. PostedOnce'
    BY <1>4, <1>7 DEF EntryInv, PostedOnce
  <2> QED
    BY <1>2, <1>5, <2>1, <2>2, <2>3 DEF EntryInv
<1>8. CASE ConfirmCommit(o)
  <2>1. /\ o \in Confirmers /\ status = "pending_review"
        /\ \A i \in ItemId : IF i \in Rows THEN seen[o][i] \in Product
                                          ELSE seen[o][i] = NoProduct
    BY <1>8 DEF EntryInv, ConfirmsRows, ConfirmCommit
  <2>2. /\ status' = "confirmed"
        /\ posted' = [i \in ItemId |-> [p \in Product |->
                        posted[i][p] + (IF seen[o][i] = p THEN 1 ELSE 0)]]
    BY <1>8 DEF ConfirmCommit
  <2>3. \A i \in ItemId : posted[i] = Nowhere
    BY <2>1 DEF EntryInv, PostedOnce
  <2>4. \A i \in ItemId : posted'[i] = [p \in Product |-> IF seen[o][i] = p THEN 1 ELSE 0]
    BY <2>2, <2>3 DEF Nowhere
  <2>5. ASSUME NEW i \in ItemId, i \in Rows PROVE \E p \in Product : posted'[i] = Under(p)
    <3>1. seen[o][i] \in Product
      BY <2>1, <2>5
    <3>2. posted'[i] = Under(seen[o][i])
      BY <2>4 DEF Under
    <3> QED
      BY <3>1, <3>2
  <2>6. ASSUME NEW i \in ItemId, i \notin Rows PROVE posted'[i] = Nowhere
    <3>1. seen[o][i] \notin Product
      BY <2>1, <2>6
    <3> QED
      BY <2>4, <3>1 DEF Nowhere
  <2>7. PostedOnce'
    BY <1>4, <2>2, <2>5, <2>6 DEF PostedOnce
  <2>8. \A u \in Operator : pc'[u] # "confirm"
    BY <1>1, <2>1 DEF EntryInv, ConfirmsRows, OneConfirmer
  <2>9. ConfirmsRows'
    BY <2>8 DEF ConfirmsRows
  <2>10. ReadOnce'
    BY <1>1, <1>4, <1>6, <2>1, <2>2 DEF EntryInv, ReadOnce
  <2> QED
    BY <1>2, <1>5, <2>7, <2>9, <2>10 DEF EntryInv
<1> QED
  BY <1>7, <1>8 DEF LinkCommit, BulkCommit, GiveUp

LEMMA EntryInvariant ==
  ASSUME ~Redelivers, OneConfirmer
  PROVE  Spec => []EntryInv
<1>1. Init => EntryInv
  BY EntryInitial
<1>2. EntryInv /\ UNCHANGED vars => EntryInv'
  <2> SUFFICES ASSUME EntryInv, UNCHANGED vars PROVE EntryInv'
    OBVIOUS
  <2>1. UNCHANGED <<status, items, posted, job, wpc, runs, pc, seen>> /\ NfeType'
    BY NfeTypeStep DEF vars, EntryInv
  <2>2. Rows' = Rows /\ \A o \in Operator : Chosen(o)' = Chosen(o)
    BY <2>1 DEF Rows, Chosen
  <2>3. ReadOnce' /\ LinksRows' /\ ConfirmsRows' /\ PostedOnce'
    BY <2>1, <2>2 DEF EntryInv, ReadOnce, LinksRows, ConfirmsRows, PostedOnce
  <2> QED
    BY <2>1, <2>3 DEF EntryInv
<1>3. EntryInv /\ Next => EntryInv'
  BY JobEnters, ReadEnters, EndEnters DEF Next, Work
<1> QED
  BY <1>1, <1>2, <1>3, PTL DEF Spec

(* A line's items: at most one of them is posted, and that under one       *)
(* product.                                                                *)
LEMMA UnitsOfItem ==
  ASSUME IsFiniteSet(Product), EntryInv, NEW i \in ItemId
  PROVE  Units[i] = IF status = "confirmed" /\ i \in Rows THEN 1 ELSE 0
<1>1. Units[i] = SumFunctionOnSet(posted[i], Product)
  BY DEF Units
<1>2. SumFunctionOnSet(Nowhere, Product) = 0
  BY SumOfZeros DEF Nowhere
<1>3. ASSUME NEW p \in Product PROVE SumFunctionOnSet(Under(p), Product) = 1
  <2>1. \A q \in Product : Under(p)[q] \in Int
    BY DEF Under
  <2>2. SumFunctionOnSet(Under(p), Product \ {p}) = 0
    <3>1. IsFiniteSet(Product \ {p})
      BY FS_RemoveElement
    <3>2. \A q \in Product \ {p} : Under(p)[q] = 0
      BY DEF Under
    <3> QED
      BY <3>1, <3>2, SumOfZeros
  <2>3. SumFunctionOnSet(Under(p), Product) = Under(p)[p] + 0
    BY <2>1, <2>2, SumRemove
  <2> QED
    BY <2>3 DEF Under
<1> QED
  BY <1>1, <1>2, <1>3 DEF EntryInv, PostedOnce

LEMMA EntriesOfLine ==
  ASSUME IsFiniteSet(Product), EntryInv, NEW l \in Line
  PROVE  Entries(l) = IF status = "confirmed" THEN 1 ELSE 0
<1> DEFINE own == {i \in ItemId : i[1] = l}
<1>1. IsFiniteSet(own)
  <2>0. MaxRuns \in Int
    BY DEF ConstantsAssumption
  <2>1. IsFiniteSet(1 .. MaxRuns)
    BY <2>0, FS_Interval
  <2>2. IsFiniteSet({l} \X (1 .. MaxRuns))
    BY <2>1, FS_Singleton, FS_Product
  <2>3. own \subseteq {l} \X (1 .. MaxRuns)
    BY DEF ItemId
  <2> HIDE DEF own
  <2> QED
    BY <2>2, <2>3, FS_Subset
<1>2. \A i \in own : Units[i] = IF status = "confirmed" /\ i[2] = 1 THEN 1 ELSE 0
  <2> SUFFICES ASSUME NEW i \in own
               PROVE  Units[i] = IF status = "confirmed" /\ i[2] = 1 THEN 1 ELSE 0
    OBVIOUS
  <2>1. i \in ItemId /\ i[2] \in Nat /\ i[2] >= 1
    BY DEF ItemId
  <2>2. status = "confirmed" => (i \in Rows <=> i[2] = 1)
    BY <2>1 DEF EntryInv, ReadOnce
  <2> QED
    BY <2>1, <2>2, UnitsOfItem
<1>3. CASE status # "confirmed"
  <2>1. \A i \in own : Units[i] = 0
    BY <1>2, <1>3
  <2>2. SumFunctionOnSet(Units, own) = 0
    <3> HIDE DEF own
    <3> QED
      BY <1>1, <2>1, SumOfZeros
  <2> QED
    BY <1>3, <2>2 DEF Entries
<1>4. CASE status = "confirmed"
  <2> DEFINE a == <<l, 1>>
  <2>1. a \in own
    <3>1. runs = 1 /\ runs \in 0 .. MaxRuns /\ MaxRuns \in Nat
      BY <1>4 DEF EntryInv, ReadOnce, NfeType, JobType
    <3>2. 1 \in 1 .. MaxRuns
      BY <3>1
    <3> QED
      BY <3>2 DEF ItemId
  <2>2. Units[a] = 1
    BY <1>2, <1>4, <2>1
  <2>3. \A i \in own \ {a} : Units[i] = 0
    <3>1. \A i \in own \ {a} : i[2] # 1
      BY DEF ItemId
    <3> QED
      BY <1>2, <3>1
  <2>4. \A i \in own : Units[i] \in Int
    BY <1>2
  <2> HIDE DEF own, a
  <2>5. IsFiniteSet(own \ {a})
    BY <1>1, FS_RemoveElement
  <2>6. SumFunctionOnSet(Units, own \ {a}) = 0
    BY <2>3, <2>5, SumOfZeros
  <2>7. SumFunctionOnSet(Units, own) = Units[a] + SumFunctionOnSet(Units, own \ {a})
    BY <1>1, <2>1, <2>4, SumRemove
  <2> QED
    BY <1>4, <2>2, <2>6, <2>7 DEF Entries, own
<1> QED
  BY <1>3, <1>4

(* A line of the note enters the stock once at most, however many          *)
(* operators link its items or create products for them meanwhile and      *)
(* however often the parse was retried, as long as one operator confirms   *)
(* and the worker does not die between its commit and the queue.           *)
THEOREM LinesEnterOnce ==
  ASSUME ~Redelivers, OneConfirmer, IsFiniteSet(Product)
  PROVE  Spec => []EntersOnce
<1>1. EntryInv => EntersOnce
  BY EntriesOfLine DEF EntersOnce
<1> QED
  BY <1>1, EntryInvariant, PTL

(* And once a note is confirmed, each of its lines has entered.            *)
THEOREM NoLineSkipped ==
  ASSUME ~Redelivers, OneConfirmer, IsFiniteSet(Product)
  PROVE  Spec => []ConfirmedWhole
<1>1. EntryInv => ConfirmedWhole
  BY EntriesOfLine DEF ConfirmedWhole
<1> QED
  BY <1>1, EntryInvariant, PTL

--------------------------------------------------------------------------------
(* The book of the stock, as the confirmations of the note have left it.   *)

OnHand == [p \in Product |-> SumFunctionOnSet([i \in ItemId |-> posted[i][p]], ItemId)]

Placed(f) ==
  [p \in Product |-> SumFunctionOnSet([l \in Line |-> IF f[l] = p THEN 1 ELSE 0], Line)]

LEMMA ItemsFinite ==
  ASSUME IsFiniteSet(Line)
  PROVE  IsFiniteSet(ItemId)
<1>1. MaxRuns \in Int
  BY DEF ConstantsAssumption
<1>2. IsFiniteSet(1 .. MaxRuns)
  BY <1>1, FS_Interval
<1> QED
  BY <1>2, FS_Product DEF ItemId

LEMMA NothingOnHand ==
  ASSUME IsFiniteSet(Line), \A i \in ItemId : posted[i] = Nowhere
  PROVE  OnHand = [p \in Product |-> 0]
<1> SUFFICES ASSUME NEW p \in Product
             PROVE  SumFunctionOnSet([i \in ItemId |-> posted[i][p]], ItemId) = 0
  BY DEF OnHand
<1> DEFINE g == [i \in ItemId |-> posted[i][p]]
<1>1. \A i \in ItemId : g[i] = 0
  BY DEF Nowhere
<1> HIDE DEF g
<1>2. SumFunctionOnSet(g, ItemId) = 0
  BY <1>1, ItemsFinite, SumOfZeros
<1> QED
  BY <1>2 DEF g

(* A confirmer holds a product for each line of the one parse, and nothing *)
(* of the note is in stock yet.                                            *)
LEMMA ConfirmHolds ==
  ASSUME EntryInv, NEW o \in Operator, ConfirmCommit(o)
  PROVE  /\ \A i \in ItemId : posted[i] = Nowhere
         /\ \A l \in Line : <<l, 1>> \in ItemId /\ seen[o][<<l, 1>>] \in Product
         /\ \A i \in ItemId : i[2] # 1 => seen[o][i] \notin Product
         /\ \A i \in ItemId, p \in Product :
              posted'[i][p] = IF seen[o][i] = p THEN 1 ELSE 0
<1>1. /\ status = "pending_review" /\ runs = 1
      /\ \A i \in ItemId : IF i \in Rows THEN seen[o][i] \in Product ELSE seen[o][i] = NoProduct
      /\ \A i \in ItemId : i \in Rows <=> i[2] <= 1
  BY DEF ConfirmCommit, EntryInv, ConfirmsRows, ReadOnce
<1>2. \A i \in ItemId : posted[i] = Nowhere
  BY <1>1 DEF EntryInv, PostedOnce
<1>3. \A i \in ItemId : i[2] \in Nat /\ i[2] >= 1
  BY DEF ItemId
<1>4. 1 \in 1 .. MaxRuns
  <2>1. MaxRuns \in Nat /\ 1 \in 0 .. MaxRuns
    BY <1>1 DEF ConstantsAssumption, EntryInv, NfeType, JobType
  <2> QED
    BY <2>1
<1>5. ASSUME NEW l \in Line
      PROVE  <<l, 1>> \in ItemId /\ seen[o][<<l, 1>>] \in Product
  <2>1. <<l, 1>> \in ItemId
    BY <1>4 DEF ItemId
  <2> QED
    BY <1>1, <2>1
<1>6. \A i \in ItemId : i[2] # 1 => seen[o][i] \notin Product
  BY <1>1, <1>3 DEF ConstantsAssumption
<1>7. \A i \in ItemId, p \in Product :
        posted'[i][p] = IF seen[o][i] = p THEN 1 ELSE 0
  BY <1>2 DEF ConfirmCommit, Nowhere
<1> QED
  BY <1>2, <1>5, <1>6, <1>7

LEMMA ConfirmPlaces ==
  ASSUME IsFiniteSet(Line), EntryInv, NEW o \in Operator, ConfirmCommit(o), NEW p \in Product
  PROVE  OnHand'[p] = Placed([l \in Line |-> seen[o][<<l, 1>>]])[p]
<1> DEFINE c == [l \in Line |-> <<l, 1>>]
           g == [i \in ItemId |-> posted'[i][p]]
           first == {c[l] : l \in Line}
           rest == ItemId \ first
           h == [l \in Line |-> g[c[l]]]
<1>1. \A l \in Line : c[l] \in ItemId /\ c[l] = <<l, 1>>
  BY ConfirmHolds
<1>2. \A i \in ItemId : g[i] = IF seen[o][i] = p THEN 1 ELSE 0
  BY ConfirmHolds
<1>3. \A i \in rest : g[i] = 0
  <2> SUFFICES ASSUME NEW i \in rest PROVE g[i] = 0
    OBVIOUS
  <2>1. i \in ItemId /\ i[1] \in Line /\ i = <<i[1], i[2]>>
    BY DEF ItemId
  <2>2. i[2] # 1
    BY <2>1
  <2>3. seen[o][i] # p
    BY <2>1, <2>2, ConfirmHolds
  <2> QED
    BY <1>2, <2>1, <2>3
<1>4. h = [l \in Line |-> IF [m \in Line |-> seen[o][<<m, 1>>]][l] = p THEN 1 ELSE 0]
  BY <1>1, <1>2
<1>5. OnHand'[p] = SumFunctionOnSet(g, ItemId)
  BY DEF OnHand
<1>6. first \subseteq ItemId /\ ItemId = first \cup rest /\ first \cap rest = {}
  BY <1>1
<1>7. \A l, m \in Line : c[l] = c[m] => l = m
  BY <1>1
<1>8. \A i \in ItemId : g[i] \in Int
  BY <1>2
<1> HIDE DEF c, g, rest
<1>9. IsFiniteSet(first) /\ IsFiniteSet(rest)
  <2>1. rest \subseteq ItemId
    BY <1>6
  <2> HIDE DEF first
  <2> QED
    BY <1>6, <2>1, ItemsFinite, FS_Subset
<1>10. SumFunctionOnSet(g, first) = SumFunctionOnSet(h, Line)
  <2>1. \A l \in Line : g[c[l]] \in Int
    BY <1>1, <1>8
  <2> QED
    BY <1>7, <2>1, SumOfImage
<1> HIDE DEF first, h
<1>11. SumFunctionOnSet(g, rest) = 0
  BY <1>3, <1>9, SumOfZeros
<1>12. SumFunctionOnSet(g, first \cup rest)
         = SumFunctionOnSet(g, first) + SumFunctionOnSet(g, rest)
  BY <1>6, <1>8, <1>9, SumOfUnion
<1>13. SumFunctionOnSet(g, first) \in Int
  BY <1>6, <1>8, <1>9, SumType
<1>14. OnHand'[p] = SumFunctionOnSet(h, Line)
  BY <1>5, <1>6, <1>10, <1>11, <1>12, <1>13
<1> QED
  BY <1>4, <1>14 DEF Placed

LEMMA PlacedNat ==
  ASSUME IsFiniteSet(Line), NEW f, NEW p \in Product
  PROVE  Placed(f)[p] \in Nat
<1> DEFINE h == [l \in Line |-> IF f[l] = p THEN 1 ELSE 0]
<1>1. \A l \in Line : h[l] \in Int /\ h[l] >= 0
  OBVIOUS
<1> HIDE DEF h
<1>2. SumFunctionOnSet(h, Line) \in Nat
  BY <1>1, SumNotNegative
<1> QED
  BY <1>2 DEF Placed, h

LEMMA ConfirmIsDeal ==
  ASSUME IsFiniteSet(Line), EntryInv, NEW o \in Operator, ConfirmCommit(o)
  PROVE  Book!Next
<1> DEFINE f == [l \in Line |-> seen[o][<<l, 1>>]]
           d == Placed(f)
<1>1. f \in [Line -> Product]
  BY ConfirmHolds
<1>2. OnHand = [p \in Product |-> 0]
  BY ConfirmHolds, NothingOnHand
<1>3. \A p \in Product : OnHand'[p] = d[p]
  BY ConfirmPlaces
<1> HIDE DEF f
<1>4. \A p \in Product : d[p] \in Nat
  BY PlacedNat
<1> HIDE DEF d
<1>5. \A p \in Product : OnHand[p] + d[p] >= 0
  BY <1>2, <1>4
<1>6. OnHand' = [p \in Product |-> OnHand[p] + d[p]]
  <2>1. OnHand' = [p \in Product |-> OnHand'[p]]
    BY DEF OnHand
  <2> QED
    BY <1>2, <1>3, <1>4, <2>1
<1>7. Book!Post(d)
  BY <1>5, <1>6 DEF Book!Post, OnHand
<1> QED
  BY <1>1, <1>7 DEF Book!Next, d, Placed

(* What the stock sees of an import, and of all that happens around it, is *)
(* one deal of its book: the confirmation enters every line of the note in *)
(* one step, each under one product, and nothing else enters anything.     *)
THEOREM ImportIsOneDeal ==
  ASSUME ~Redelivers, OneConfirmer, IsFiniteSet(Line)
  PROVE  Spec => NoteIsOneDeal
<1>1. Init => Book!Init
  <2> SUFFICES ASSUME Init PROVE OnHand = [p \in Product |-> 0]
    BY DEF Book!Init, OnHand
  <2>1. \A i \in ItemId : posted[i] = Nowhere
    BY DEF Init, Nowhere
  <2> QED
    BY <2>1, NothingOnHand
<1>2. EntryInv /\ [Next]_vars => Book!Next \/ UNCHANGED OnHand
  <2> SUFFICES ASSUME EntryInv, [Next]_vars, ~UNCHANGED posted PROVE Book!Next
    BY DEF OnHand
  <2>1. PICK o \in Operator : ConfirmCommit(o)
    BY DEF Next, vars, Upload, Enqueue, Work, StartJob, MatchItems, ParseCommit, Ack,
           ParseFails, DbError, WorkerDies, CreateProduct, LinkRead, LinkCommit, BulkRead,
           BulkCommit, ConfirmRead, GiveUp
  <2> QED
    BY <2>1, ConfirmIsDeal
<1> QED
  BY <1>1, <1>2, EntryInvariant, PTL DEF Spec, NoteIsOneDeal, Book!Spec, OnHand
================================================================================

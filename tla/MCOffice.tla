-------------------------------- MODULE MCOffice --------------------------------
(***************************************************************************)
(* The parts of the system that surround the stock, side by side: they     *)
(* share no state, so that a behaviour is one of a single part (its scene) *)
(* while the others rest in one of their initial states.                   *)
(***************************************************************************)
EXTENDS Accounts, Catalog, Worker, Gateway, Screens, LotPicker, Paging, Reports, TLC

CONSTANTS
  ana, bia, caio, dora, w1, w2, n1, q1, q2, g1,     \* Accounts
  k1, k2, s1, e1, e2, small, large,                 \* Catalog
  t1, t2, a1,                                       \* Worker
  pa, pb, sa, sb,                                   \* LotPicker
  ga, gb, b1, b2                                    \* Reports

VARIABLE scene

MCRoom == (small :> [products |-> 1, stores |-> 1, users |-> 2])
       @@ (large :> [products |-> 2, stores |-> 2, users |-> 2])
MCFile == <<[sku |-> s1, code |-> NoCode], [sku |-> NoCode, code |-> e1]>>
MCPrice == (ga :> 4) @@ (gb :> 1)
MCStocked == {<<ga, b1>>, <<ga, b2>>, <<gb, b1>>}

Scenes == {"accounts", "catalog", "worker", "gateway", "screens", "lots", "pages", "reports"}
officeVars == <<scene, accVars, catVars, workVars, gatVars, scrVars, lotVars, pagVars, repVars>>

(* A worker that found no Redis when it started is up and waits; a page    *)
(* without lists reads nothing: where they rest, their fairness asks for   *)
(* no step.                                                                *)
WorkRests ==
  /\ followed = "scan" /\ now = 1 /\ process = "up" /\ booted = TRUE /\ errors = MaxErrors
  /\ delayed = {} /\ run = NoRun /\ broken = {} /\ telling = {}
  /\ told = [t \in Tenant |-> [a \in Alert |-> 0]]
  /\ stops = 0 /\ changes = 0 /\ ended = "never" /\ owed = {}

(* The part that plays starts in any of its initial states.                *)
OfficeInit ==
  /\ scene \in Scenes
  /\ AccInit /\ (scene = "accounts" \/ pin = NoPin)
  /\ CatInit /\ (scene = "catalog" \/ plan = small)
  /\ IF scene = "worker" THEN WorkInit ELSE WorkRests
  /\ GatInit /\ (scene = "gateway" \/ provider = "vindi")
  /\ ScrInit /\ (scene = "screens" \/ page = LoginPage)
  /\ LotInit /\ (scene = "lots" \/ place = "sale")
  /\ PagInit /\ (scene = "pages" \/ (list = "sales" /\ narrow = {}))
  /\ RepInit

AccPlays == scene = "accounts" /\ AccNext
CatPlays == scene = "catalog" /\ CatNext
WorkPlays == scene = "worker" /\ WorkNext
GatPlays == scene = "gateway" /\ GatNext
ScrPlays == scene = "screens" /\ ScrNext
LotPlays == scene = "lots" /\ LotNext
PagPlays == scene = "pages" /\ PagNext
RepPlays == scene = "reports" /\ RepNext

OfficeNext ==
  /\ UNCHANGED scene
  /\ AccPlays \/ (scene # "accounts" /\ UNCHANGED accVars)
  /\ CatPlays \/ (scene # "catalog" /\ UNCHANGED catVars)
  /\ WorkPlays \/ (scene # "worker" /\ UNCHANGED workVars)
  /\ GatPlays \/ (scene # "gateway" /\ UNCHANGED gatVars)
  /\ ScrPlays \/ (scene # "screens" /\ UNCHANGED scrVars)
  /\ LotPlays \/ (scene # "lots" /\ UNCHANGED lotVars)
  /\ PagPlays \/ (scene # "pages" /\ UNCHANGED pagVars)
  /\ RepPlays \/ (scene # "reports" /\ UNCHANGED repVars)

OfficeSpec ==
  /\ OfficeInit /\ [][OfficeNext]_officeVars
  /\ WorkFair /\ ScrFair

(* Every part is in a state of its type.                                   *)
OfficeTypeOK ==
  /\ AccTypeOK /\ CatTypeOK /\ WorkTypeOK /\ GatTypeOK
  /\ ScrTypeOK /\ LotTypeOK /\ PagTypeOK /\ RepTypeOK
================================================================================

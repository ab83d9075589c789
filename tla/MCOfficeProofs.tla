----------------------------- MODULE MCOfficeProofs -----------------------------
(***************************************************************************)
(* Proofs about the parts around the stock side by side (MCOffice): the    *)
(* composition behaves in each of its parts as the part's own              *)
(* specification says, so that what is proved of a part alone holds of     *)
(* every behaviour that the composition has, for any values of the         *)
(* constants of all parts.                                                 *)
(***************************************************************************)
EXTENDS MCOffice, OfficeProofs, CatalogProofs, WebProofs

(* The scene is set once; the other parts stand still.                     *)
LEMMA OnePlays ==
  ASSUME [OfficeNext]_officeVars
  PROVE  /\ [AccNext]_accVars /\ [CatNext]_catVars /\ [WorkNext]_workVars
         /\ [GatNext]_gatVars /\ [ScrNext]_scrVars /\ [LotNext]_lotVars
         /\ [PagNext]_pagVars /\ [RepNext]_repVars
         /\ scene' = scene
BY DEF OfficeNext, officeVars, AccPlays, CatPlays, WorkPlays, GatPlays, ScrPlays,
       LotPlays, PagPlays, RepPlays

(* Whichever part the scene is, the composition implements the             *)
(* specification of every part but the worker, which rests in a state of   *)
(* its own while another plays.                                            *)
THEOREM EachPartPlays ==
  OfficeSpec => AccSpec /\ CatSpec /\ GatSpec /\ ScrSpec /\ LotSpec /\ PagSpec /\ RepSpec
<1>1. OfficeInit => /\ AccInit /\ CatInit /\ GatInit /\ ScrInit
                    /\ LotInit /\ PagInit /\ RepInit
  BY DEF OfficeInit
<1>2. [OfficeNext]_officeVars =>
        /\ [AccNext]_accVars /\ [CatNext]_catVars /\ [GatNext]_gatVars /\ [ScrNext]_scrVars
        /\ [LotNext]_lotVars /\ [PagNext]_pagVars /\ [RepNext]_repVars
  BY OnePlays
<1> QED
  BY <1>1, <1>2, PTL
  DEF OfficeSpec, AccSpec, CatSpec, GatSpec, ScrSpec, LotSpec, PagSpec, RepSpec

(* In its own scene the worker is the worker.                              *)
THEOREM WorkerPlays == OfficeSpec => (scene = "worker" => WorkSpec)
<1>1. OfficeInit /\ scene = "worker" => WorkInit
  BY DEF OfficeInit
<1>2. [OfficeNext]_officeVars => [WorkNext]_workVars
  BY OnePlays
<1> QED
  BY <1>1, <1>2, PTL DEF OfficeSpec, WorkSpec

--------------------------------------------------------------------------------
(* The worker, playing or at rest.                                         *)

LEMMA RestsWell ==
  ASSUME WorkRests
  PROVE  WorkInv /\ WorkTypeOK /\ TriesLeft
<1>1. WorkType
  BY WorkAssumption DEF WorkRests, WorkType, NoRun, Run, Note, Job
<1>2. AttemptsCostErrors /\ OwedIsAhead
  BY DEF WorkRests, AttemptsCostErrors, OwedIsAhead, NoRun
<1>3. run \in Runs /\ run.state = "none"
  BY RunEnds DEF WorkRests
<1>4. booted \in BOOLEAN
  BY Zenon DEF WorkRests
<1>5. WorkTypeOK /\ TriesLeft
  BY <1>3, <1>4, WorkAssumption DEF WorkRests, WorkTypeOK, TriesLeft, Runs, Job
<1> QED
  BY <1>1, <1>2, <1>5 DEF WorkInv

LEMMA WorkerBegins ==
  OfficeInit => WorkInv /\ WorkTypeOK /\ TriesLeft
<1>1. OfficeInit => WorkInit \/ WorkRests
  BY DEF OfficeInit
<1> QED
  BY <1>1, RestsWell, WorkInitial, WorkTypeInitial

LEMMA WorkerInvariant ==
  OfficeSpec => [](WorkInv /\ WorkTypeOK)
<1>1. [OfficeNext]_officeVars => [WorkNext]_workVars
  BY OnePlays
<1> QED
  BY <1>1, WorkerBegins, WorkStep, WorkTypeStep, PTL DEF OfficeSpec

--------------------------------------------------------------------------------
(* Every part is in a state of its type, whichever one plays: what the     *)
(* requests, jobs, pages and the provider hold is well formed at every     *)
(* step of every one of them.                                              *)
THEOREM OfficeTypeCorrect == OfficeSpec => []OfficeTypeOK
<1>1. (/\ AccTypeOK /\ CatTypeOK /\ WorkTypeOK /\ GatTypeOK
       /\ ScrTypeOK /\ LotTypeOK /\ PagTypeOK /\ RepTypeOK) => OfficeTypeOK
  BY DEF OfficeTypeOK
<1> QED
  BY <1>1, EachPartPlays, WorkerInvariant, AccTypeCorrect, CatTypeCorrect, GatTypeCorrect,
     ScrTypeCorrect, LotTypeCorrect, PagTypeCorrect, RepTypeCorrect, PTL

(* All that is claimed of the parts' states holds of them together.        *)
OfficeSafe ==
  /\ UnlockEarned /\ TriesCounted
  /\ WithinPlan /\ LabelsScan /\ RowsOnce
  /\ NoStrayAgreement /\ PixHasAddress
  /\ WrittenOnce /\ ShowsOwnWrite
  /\ LotOfItem /\ EachRowOnce /\ ReportsAgree

(* The safety properties of the parts carry over to the composition, each  *)
(* by the theorem of its part.                                             *)
THEOREM PartsStaySafe == OfficeSpec => []OfficeSafe
<1>1. (/\ UnlockEarned /\ TriesCounted /\ WithinPlan /\ LabelsScan /\ RowsOnce
       /\ NoStrayAgreement /\ PixHasAddress /\ WrittenOnce /\ ShowsOwnWrite
       /\ LotOfItem /\ EachRowOnce /\ ReportsAgree) => OfficeSafe
  BY DEF OfficeSafe
<1> QED
  BY <1>1, EachPartPlays, UnlocksAreEarned, TriesAreCounted, LimitsHold, LabelsKeepScanning,
     RowsEnterOnce, NoAgreementStrays, PixAddressed, DraftsWrittenOnce, OwnWriteShows,
     LotFollowsItem, EachRowSeenOnce, DashboardAgrees, PTL

(* So do the properties of their steps: an invitation that was used is     *)
(* spent, and a daily job that ends has come to every tenant.              *)
THEOREM PartsStepSafely == OfficeSpec => InviteSpent /\ ChargeReaches /\ ScanReaches
<1>1. OfficeSpec => InviteSpent
  BY EachPartPlays, InvitesAreSpent, PTL
<1>2. ASSUME WorkInv, run.todo = {}, run.state = "active", followed = "scan"
      PROVE  owed = {}
  BY <1>2 DEF WorkInv, OwedIsAhead
<1>3. WorkInv /\ [OfficeNext]_officeVars
        => [followed = "charge" /\ Ends => run.todo = {} \/ GaveUp]_workVars
  BY OnePlays, EndsHow
<1>4. WorkInv /\ [OfficeNext]_officeVars
        => [followed = "scan" /\ Ends => owed = {} \/ broken # {} \/ GaveUp]_workVars
  BY <1>2, OnePlays, EndsHow
<1> QED
  BY <1>1, <1>3, <1>4, WorkerInvariant, PTL DEF OfficeSpec, ChargeReaches, ScanReaches
================================================================================

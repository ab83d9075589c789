-------------------------------- MODULE Worker --------------------------------
(***************************************************************************)
(* The worker process and its two daily jobs (worker/index.ts):            *)
(*                                                                         *)
(*   - "charge" bills the tenants that are due (billing/monthly-charge.ts) *)
(*   - "scan" tells them of lots that expire and of low stock              *)
(*     (stock/expiry-scan.ts).                                             *)
(*                                                                         *)
(* Both go through the active tenants, each in a transaction of its own.   *)
(* The process is deployed anew, killed and started again; its jobs are    *)
(* tried again after an error and handed on after a death.  The two jobs   *)
(* have queues of their own and share nothing but the process, so that a   *)
(* behaviour follows one of them.  What a charge does to a subscription is *)
(* in Billing.                                                             *)
(***************************************************************************)
EXTENDS Integers, FiniteSets

CONSTANTS
  Tenant,
  Alert,        \* types of notification: expiry, low_stock
  Tries,        \* DEFAULT_JOB_OPTIONS.attempts
  Daily,        \* from one occurrence of a job to the next
  Recent,       \* how long a notification is not repeated
  Horizon,      \* the end of time (bound)
  MaxStops,     \* deploys and deaths of the process (bound)
  MaxErrors,    \* errors that pass (bound)
  MaxChanges    \* changes of what there is to tell, and of tenants (bound)

ASSUME WorkAssumption ==
  /\ {Tries, Daily, Recent, Horizon, MaxStops, MaxErrors, MaxChanges} \subseteq Nat
  /\ 0 < Tries /\ 0 < Recent /\ Recent < Daily

VARIABLES
  followed,   \* the one that is followed
  now,
  process,    \* up, draining (SIGTERM) or down
  booted,     \* whether this process has added its repeatable jobs
  delayed,    \* its occurrences that wait for their time
  run,        \* its occurrence that has come
  broken,     \* tenants that fail whenever they are tried
  telling,    \* [tenant, of]: what there is to tell whom
  told,       \* when each was told last, 0 if never
  stops, errors, changes,
  ended,      \* history: how the last occurrence ended
  owed        \* history: of what there was to tell when it came, what it has not

notices == <<told, owed>>
workVars == <<followed, now, process, booted, delayed, run, broken, telling, notices,
              stops, errors, changes, ended>>
faults == <<stops, errors, changes>>

Job == {"charge", "scan"}
NoRun == [state |-> "none", tries |-> 0, stalls |-> 0, todo |-> {}]

WorkInit ==
  /\ followed \in Job
  /\ now = 1 /\ process = "down" /\ booted = FALSE
  /\ delayed = {}
  /\ run = NoRun
  /\ broken = {}
  /\ telling = [tenant : Tenant, of : Alert]
  /\ told = [t \in Tenant |-> [a \in Alert |-> 0]]
  /\ stops = 0 /\ errors = 0 /\ changes = 0
  /\ ended = "never" /\ owed = {}

--------------------------------------------------------------------------------
(* The process.                                                            *)

Boot ==
  /\ process = "down"
  /\ process' = "up" /\ booted' = FALSE
  /\ UNCHANGED <<followed, now, delayed, run, broken, telling, notices, faults, ended>>

(* The next time of day, computed from now: what was missed is not made up *)
NextTime == Daily * (now \div Daily + 1)

(* scheduleRepeatableJobs: an occurrence that is there already stays one.  *)
Schedule ==
  /\ process # "down" /\ ~booted
  /\ booted' = TRUE
  /\ delayed' = delayed \cup {NextTime}
  /\ UNCHANGED <<followed, now, process, run, broken, telling, notices, faults, ended>>

(* Redis does not answer: this process does not try again.                 *)
ScheduleFails ==
  /\ process # "down" /\ ~booted /\ errors < MaxErrors
  /\ booted' = TRUE /\ errors' = errors + 1
  /\ UNCHANGED <<followed, now, process, delayed, run, broken, telling, notices, stops, changes, ended>>

(* SIGTERM: Worker.close() takes no more jobs and waits for those it has.  *)
Shutdown ==
  /\ process = "up" /\ stops < MaxStops
  /\ process' = "draining" /\ stops' = stops + 1
  /\ UNCHANGED <<followed, now, booted, delayed, run, broken, telling, notices, errors, changes, ended>>

Drained == run.state # "active"

Exit ==
  /\ process = "draining" /\ Drained
  /\ process' = "down"
  /\ UNCHANGED <<followed, now, booted, delayed, run, broken, telling, notices, faults, ended>>

(* SIGKILL after stop_grace_period, or a crash.                            *)
Orphaned(r) == IF r.state = "active" THEN [r EXCEPT !.state = "orphan"] ELSE r

Killed ==
  /\ \/ process = "draining" /\ ~Drained /\ UNCHANGED stops
     \/ process = "up" /\ stops < MaxStops /\ stops' = stops + 1
  /\ process' = "down"
  /\ run' = Orphaned(run)
  /\ UNCHANGED <<followed, now, booted, delayed, broken, telling, notices, errors, changes, ended>>

--------------------------------------------------------------------------------
(* The queue.  Each of them gives its worker one job at a time.            *)

Retried(r) == [r EXCEPT !.state = "active", !.todo = Tenant] \* mutated form
Active(r) == [r EXCEPT !.state = "active", !.tries = @ + 1, !.todo = Tenant]

(* alreadyNotifiedRecently                                                 *)
Rested(t, a) == told[t][a] = 0 \/ told[t][a] < now - Recent

(* Taking an occurrence makes the next one.                                *)
Take ==
  /\ process = "up" /\ run.state = "none"
  /\ \E due \in delayed :
       /\ due <= now /\ \A other \in delayed : due <= other
       /\ delayed' = (delayed \ {due}) \cup {NextTime}
  /\ run' = Active(NoRun)
  /\ owed' = {it \in telling : Rested(it.tenant, it.of)}
  /\ UNCHANGED <<followed, now, process, booted, broken, telling, told, faults, ended>>

(* After the backoff an attempt that threw starts over.                    *)
TakeAgain ==
  /\ process = "up" /\ run.state = "waiting"
  /\ run' = Active(run)
  /\ UNCHANGED <<followed, now, process, booted, delayed, broken, telling, notices, faults, ended>>

EndAs(how) ==
  /\ run' = NoRun
  /\ ended' = how

(* A job whose process died is handed on once, and that is no attempt.     *)
Stalled ==
  /\ process = "up" /\ run.state = "orphan"
  /\ IF run.stalls = 0
       THEN /\ run' = [run EXCEPT !.state = "waiting", !.tries = @ - 1, !.stalls = 1]
            /\ UNCHANGED ended
       ELSE EndAs("stalled")
  /\ UNCHANGED <<followed, now, process, booted, delayed, broken, telling, notices, faults>>

Finish ==
  /\ process # "down" /\ run.state = "active" /\ run.todo = {}
  /\ EndAs("completed")
  /\ UNCHANGED <<followed, now, process, booted, delayed, broken, telling, notices, faults>>

--------------------------------------------------------------------------------
(* The processors.                                                         *)

Visits(t) == process # "down" /\ run.state = "active" /\ t \in run.todo
Handled(t) == run' = [run EXCEPT !.todo = @ \ {t}]

(* scanOneTenant, one transaction.                                         *)
Scan(t) ==
  /\ followed = "scan" /\ Visits(t) /\ t \notin broken
  /\ told' = [told EXCEPT ![t] = [a \in Alert |->
       IF [tenant |-> t, of |-> a] \in telling /\ Rested(t, a) THEN now ELSE @[a]]]
  /\ owed' = {it \in owed : told'[it.tenant][it.of] # now}
  /\ Handled(t)
  /\ UNCHANGED <<followed, now, process, booted, delayed, broken, telling, faults, ended>>

(* generateChargeForTenant                                                 *)
Charge(t) ==
  /\ followed = "charge" /\ Visits(t) /\ t \notin broken
  /\ Handled(t)
  /\ UNCHANGED <<followed, now, process, booted, delayed, broken, telling, notices, faults, ended>>

Throws(t) ==
  \/ t \in broken /\ UNCHANGED errors
  \/ errors < MaxErrors /\ errors' = errors + 1

(* generateMonthlyCharges goes on with the next tenant; an error of the    *)
(* scan, or of the list of tenants, ends the attempt.                      *)
OneFailsAll == FALSE                                       \* mutated form
Isolates == followed = "charge"

TenantFails(t) ==
  /\ Visits(t) /\ Isolates
  /\ Throws(t)
  /\ Handled(t)
  /\ UNCHANGED <<followed, now, process, booted, delayed, broken, telling, notices, stops, changes, ended>>

EndlessTries(tries) == TRUE                                \* mutated form
OneTry(tries) == FALSE                                     \* mutated form
TriesAgain(tries) == tries < Tries

AttemptFails ==
  /\ process # "down" /\ run.state = "active"
  /\ \/ run.todo = Tenant /\ errors < MaxErrors /\ errors' = errors + 1
     \/ ~Isolates /\ \E t \in run.todo : Throws(t)
  /\ IF TriesAgain(run.tries)
       THEN run' = [run EXCEPT !.state = "waiting"] /\ UNCHANGED ended
       ELSE EndAs("failed")
  /\ UNCHANGED <<followed, now, process, booted, delayed, broken, telling, notices, stops, changes>>

--------------------------------------------------------------------------------
(* The tenants: lots come near their date and are sold, stock falls and is *)
(* replaced; data the gateway refuses, more lots than a transaction has    *)
(* time for.                                                               *)

Changes == changes < MaxChanges /\ changes' = changes + 1

StockChanges(t, a) ==
  /\ followed = "scan" /\ Changes
  /\ LET it == [tenant |-> t, of |-> a]
     IN /\ telling' = IF it \in telling THEN telling \ {it} ELSE telling \cup {it}
        /\ owed' = owed \ {it}
  /\ UNCHANGED <<followed, now, process, booted, delayed, run, broken, told, stops, errors, ended>>

Breaks(t) ==
  /\ Changes /\ broken = {}
  /\ broken' = {t}
  /\ UNCHANGED <<followed, now, process, booted, delayed, run, telling, notices, stops, errors, ended>>

WorkTick ==
  /\ now < Horizon /\ now' = now + 1
  /\ UNCHANGED <<followed, process, booted, delayed, run, broken, telling, notices, faults, ended>>

WorkNext ==
  \/ Boot \/ Schedule \/ ScheduleFails \/ Shutdown \/ Exit \/ Killed \/ WorkTick
  \/ Take \/ TakeAgain \/ Stalled \/ Finish \/ AttemptFails
  \/ \E t \in Tenant : Scan(t) \/ Charge(t) \/ TenantFails(t) \/ Breaks(t)
  \/ \E t \in Tenant, a \in Alert : StockChanges(t, a)

(* Docker starts the process again and stops one that does not drain;      *)
(* a process that is up goes on with what it has and takes what there is.  *)
(* A visit comes back, with an answer or an error.                         *)
Visit == AttemptFails \/ \E t \in Tenant : Scan(t) \/ Charge(t) \/ TenantFails(t)

WorkFair ==
  /\ WF_workVars(Boot)
  /\ WF_workVars((Schedule \/ ScheduleFails))
  /\ WF_workVars((Exit \/ (process = "draining" /\ Killed)))
  /\ WF_workVars((Take \/ TakeAgain))
  /\ WF_workVars(Stalled)
  /\ WF_workVars(Visit)
  /\ WF_workVars(Finish)

WorkSpec == WorkInit /\ [][WorkNext]_workVars /\ WorkFair

--------------------------------------------------------------------------------
WorkTypeOK ==
  /\ followed \in Job /\ now \in Nat /\ process \in {"up", "draining", "down"} /\ booted \in BOOLEAN
  /\ delayed \subseteq Nat
  /\ run \in [state : {"none", "active", "waiting", "orphan"}, tries : 0 .. Tries,
             stalls : {0, 1}, todo : SUBSET Tenant]
  /\ broken \subseteq Tenant
  /\ telling \subseteq [tenant : Tenant, of : Alert]
  /\ told \in [Tenant -> [Alert -> Nat]]
  /\ stops \in 0 .. MaxStops /\ errors \in 0 .. MaxErrors /\ changes \in 0 .. MaxChanges
  /\ ended \in {"never", "completed", "failed", "stalled"}

Ends == run.state # "none" /\ run'.state = "none"
GaveUp == errors' >= Tries \/ ended' = "stalled"

(* A tenant whose charge fails does not keep the others from theirs        *)
(* (monthly-charge.ts:15-22): a charge job that ends has come to each of   *)
(* them, unless every attempt found the database out of reach or two       *)
(* processes died under the job.                                           *)
ChargeReaches ==
  [][followed = "charge" /\ Ends => run.todo = {} \/ GaveUp]_workVars

(* A scan that ends has told all there was to tell when it came and still  *)
(* is, however often it started over after errors that pass and a death    *)
(* (queues/index.ts:38-43): only a tenant that fails every attempt and a   *)
(* second death keep it from that (expiry-scan.ts:17-19).                  *)
ScanReaches ==
  [][followed = "scan" /\ Ends => owed = {} \/ broken # {} \/ GaveUp]_workVars

(* A job that has come does not stay: it completes or fails for good,      *)
(* whatever process dies under it.                                         *)
JobsEnd == []<>(run.state = "none")
================================================================================

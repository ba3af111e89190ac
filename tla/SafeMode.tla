------------------------------ MODULE SafeMode ------------------------------
(***************************************************************************)
(* The circuit breaker around LLM calls                                    *)
(* (src/daemon/src/runtime/safe_mode.rs), the chat:llm calls behind it     *)
(* (src/daemon/src/syscalls/llm/chat.rs, cfg_for_actor in llm/mod.rs) and  *)
(* the retry harness they go through (runtime/llm_harness.rs).             *)
(*                                                                         *)
(* Every FAILURE_THRESHOLD failures in a row turn safe mode on and spawn a *)
(* recovery task: it probes models until one answers, publishes it as the  *)
(* override, turns safe mode off, resets the tracker and wakes the callers *)
(* that parked, one step each.  A call that fails in safe mode parks and   *)
(* tries again, ATTEMPTS times at most.                                    *)
(*                                                                         *)
(* Models are taken for (provider, model) pairs.  A scan is one step here: *)
(* what answers does not change while it probes.  The attempts of the      *)
(* harness within one try are in module LlmCall; here a try ends well,     *)
(* with an error, or cancelled.                                            *)
(***************************************************************************)
EXTENDS Naturals, Sequences

CONSTANTS Callers,           (* chat:llm calls, at once and over time       *)
          Models,            (* models of the configured providers          *)
          NoModel,           (* None                                        *)
          candidates,        (* per provider, in the order of the config:   *)
                             (* the models a scan knows, in its order       *)
          Configured,        (* what cfg_for_actor has in its config files  *)
          FAILURE_THRESHOLD, (* failures in a row (3)                       *)
          ATTEMPTS,          (* tries of a call (4)                         *)
          MaxEpochs,         (* bound: recoveries ever spawned              *)
          MaxOutages         (* bound: changes of which models answer       *)

ASSUME SafeModeAssumption ==
  /\ candidates \in Seq(Seq(Models))
  /\ Configured \in Models /\ NoModel \notin Models
  /\ FAILURE_THRESHOLD \in Nat \ {0} /\ ATTEMPTS \in Nat \ {0}
  /\ MaxEpochs \in Nat /\ MaxOutages \in Nat

Epochs == 1 .. MaxEpochs

VARIABLES
  active,       (* ACTIVE                                                   *)
  consecutive,  (* FailureTracker::consecutive                              *)
  spawned,      (* FailureTracker::recovery_spawned                         *)
  epoch,        (* FailureTracker::epoch                                    *)
  override,     (* SafeModeState: the fallback model and its epoch          *)
  rec,          (* per epoch: where its recovery task is                    *)
  excluded,     (* per epoch: the model of its failure context              *)
  winner,       (* per epoch: the model its scan has found                  *)
  pc,           (* per call: where it is                                    *)
  try,          (* per call: tries begun                                    *)
  cfg,          (* per call: the model of its try, and the override's epoch *)
  cancelled,    (* calls whose token is cancelled                           *)
  wokenBy,      (* history, per call: the recovery that last woke it        *)
  healthy,      (* models that answer                                       *)
  outages       (* changes of healthy so far                                *)

trackVars == <<active, consecutive, spawned, epoch>>

recVars == <<override, rec, excluded, winner>>

callVars == <<pc, try, cfg, cancelled, wokenBy>>

envVars == <<healthy, outages>>

vars == <<trackVars, recVars, callVars, envVars>>

NoOverride == [model |-> NoModel, epoch |-> 0]

Init ==
  /\ active = FALSE
  /\ consecutive = 0
  /\ spawned = FALSE
  /\ epoch = 0
  /\ override = NoOverride
  /\ rec = [e \in Epochs |-> "none"]
  /\ excluded = [e \in Epochs |-> NoModel]
  /\ winner = [e \in Epochs |-> NoModel]
  /\ pc = [c \in Callers |-> "idle"]
  /\ try = [c \in Callers |-> 0]
  /\ cfg = [c \in Callers |-> NoOverride]
  /\ cancelled = {}
  /\ wokenBy = [c \in Callers |-> 0]
  /\ healthy \in SUBSET Models
  /\ outages = 0

-----------------------------------------------------------------------------
(* A call.                                                                 *)

Goes(c, from, to) == pc[c] = from /\ pc' = [pc EXCEPT ![c] = to]

\* The head of the loop: check_cancelled, then cfg_for_actor, which prefers
\* the override; or the error of the last try when the tries are used up.
Try(c) ==
  /\ \/ /\ try[c] < ATTEMPTS /\ c \notin cancelled
        /\ pc[c] \in {"idle", "retry"} /\ pc' = [pc EXCEPT ![c] = "calling"]
        /\ try' = [try EXCEPT ![c] = @ + 1]
        /\ cfg' = [cfg EXCEPT ![c] = IF override.model # NoModel THEN override
                                     ELSE [model |-> Configured, epoch |-> 0]]
     \/ /\ try[c] = ATTEMPTS \/ c \in cancelled
        /\ pc[c] \in {"idle", "retry"} /\ pc' = [pc EXCEPT ![c] = "ended"]
        /\ UNCHANGED <<try, cfg>>
  /\ UNCHANGED <<trackVars, recVars, cancelled, wokenBy, envVars>>

\* report_success.
CallOk(c) ==
  /\ cfg[c].model \in healthy
  /\ Goes(c, "calling", "ended")
  /\ consecutive' = 0
  /\ UNCHANGED <<active, spawned, epoch, recVars, try, cfg, cancelled, wokenBy, envVars>>

\* Under the tracker's mutex.  A call cancelled in the harness reports too.
report_failure(c) ==
  /\ consecutive' = consecutive + 1
  /\ IF consecutive' >= FAILURE_THRESHOLD /\ ~spawned
     THEN /\ epoch < MaxEpochs
          /\ spawned' = TRUE
          /\ epoch' = epoch + 1
          /\ active' = TRUE
          /\ rec' = [rec EXCEPT ![epoch'] = "scan"]
          /\ excluded' = [excluded EXCEPT ![epoch'] = cfg[c].model]
     ELSE UNCHANGED <<spawned, epoch, active, rec, excluded>>

CallFails(c) ==
  /\ cfg[c].model \notin healthy \/ c \in cancelled
  /\ Goes(c, "calling", "failed")
  /\ report_failure(c)
  /\ UNCHANGED <<override, winner, try, cfg, cancelled, wokenBy, envVars>>

\* is_active, after report_failure has let the mutex go.
IsActive(c) ==
  /\ \/ active /\ Goes(c, "failed", "parking")
     \/ ~active /\ Goes(c, "failed", "ended")
  /\ UNCHANGED <<trackVars, recVars, try, cfg, cancelled, wokenBy, envVars>>

\* The first poll of Notify::notified: from here on a notification counts.
Park(c) ==
  /\ Goes(c, "parking", "parked")
  /\ UNCHANGED <<trackVars, recVars, try, cfg, cancelled, wokenBy, envVars>>

ParkCancelled(c) ==
  /\ c \in cancelled
  /\ Goes(c, "parked", "retry")
  /\ UNCHANGED <<trackVars, recVars, try, cfg, cancelled, wokenBy, envVars>>

\* The caller's token; the dispatcher may drop the handler where it is before
\* the handler sees it.
Cancel(c) ==
  /\ c \notin cancelled /\ pc[c] # "ended"
  /\ cancelled' = cancelled \union {c}
  /\ pc' \in {pc, [pc EXCEPT ![c] = "ended"]}
  /\ UNCHANGED <<trackVars, recVars, try, cfg, wokenBy, envVars>>

-----------------------------------------------------------------------------
(* run_recovery.                                                           *)

RecGoes(e, from, to) == rec[e] = from /\ rec' = [rec EXCEPT ![e] = to]

\* build_candidate_list: the models of a provider but for the one that failed.
Candidates(e, p) == {i \in 1 .. Len(candidates[p]) : candidates[p][i] # excluded[e]}

\* build_provider_order: the provider of the failure comes first, or last if the
\* failure was the provider's.
Before(e, q, p, failedFirst) ==
  LET Failed(r) == \E i \in 1 .. Len(candidates[r]) : candidates[r][i] = excluded[e]
  IN IF Failed(q) = Failed(p) THEN q < p ELSE Failed(q) = failedFirst

\* The candidate of a provider that is found: the first that answers.  A probe
\* that times out, or fails with what counts as the provider's error, ends the
\* scan of that provider; the models in `down` fail so.
probe_model_health(e, p, down) ==
  {candidates[p][i] : i \in {i \in Candidates(e, p) :
     /\ candidates[p][i] \in healthy
     /\ \A j \in Candidates(e, p) : j < i => candidates[p][j] \notin healthy \cup down}}

\* scan_for_healthy_model: provider by provider, until one model answers.
ScanFinds(e) ==
  /\ RecGoes(e, "scan", "publish")
  /\ \E down \in SUBSET (Models \ healthy), failedFirst \in BOOLEAN, p \in DOMAIN candidates :
       /\ \A q \in DOMAIN candidates :
            Before(e, q, p, failedFirst) => probe_model_health(e, q, down) = {}
       /\ \E m \in probe_model_health(e, p, down) : winner' = [winner EXCEPT ![e] = m]
  /\ UNCHANGED <<trackVars, override, excluded, callVars, envVars>>

\* None is found: again after RETRY_DELAY, with the same context.
ScanFails(e) ==
  /\ RecGoes(e, "scan", "sleep")
  /\ \E down \in SUBSET (Models \ healthy) :
       \A p \in DOMAIN candidates : probe_model_health(e, p, down) = {}
  /\ UNCHANGED <<trackVars, override, excluded, winner, callVars, envVars>>

\* Mutant: scans again only when one more call has failed.
RescanOnFailure(e) ==
  /\ consecutive > FAILURE_THRESHOLD
  /\ RecGoes(e, "sleep", "scan")
  /\ UNCHANGED <<trackVars, override, excluded, winner, callVars, envVars>>

Rescan(e) ==
  /\ RecGoes(e, "sleep", "scan")
  /\ UNCHANGED <<trackVars, override, excluded, winner, callVars, envVars>>

\* Mutant: an override that is there is kept.
PublishOnce(e) ==
  /\ RecGoes(e, "publish", "off")
  /\ override' = IF override.model = NoModel THEN [model |-> winner[e], epoch |-> e]
                 ELSE override
  /\ UNCHANGED <<trackVars, excluded, winner, callVars, envVars>>

\* The watch channel gets the override.
Publish(e) ==
  /\ RecGoes(e, "publish", "off")
  /\ override' = [model |-> winner[e], epoch |-> e]
  /\ UNCHANGED <<trackVars, excluded, winner, callVars, envVars>>

\* ACTIVE is stored without the tracker's mutex.
Deactivate(e) ==
  /\ RecGoes(e, "off", "reset")
  /\ active' = FALSE
  /\ UNCHANGED <<consecutive, spawned, epoch, override, excluded, winner, callVars, envVars>>

\* Mutant: the reset forgets recovery_spawned.
ResetCountOnly(e) ==
  /\ RecGoes(e, "reset", "notify")
  /\ consecutive' = 0
  /\ UNCHANGED <<active, spawned, epoch, override, excluded, winner, callVars, envVars>>

ResetTracker(e) ==
  /\ RecGoes(e, "reset", "notify")
  /\ consecutive' = 0
  /\ spawned' = FALSE
  /\ UNCHANGED <<active, epoch, override, excluded, winner, callVars, envVars>>

\* notify_waiters wakes the futures that were polled, and nobody else.
NotifyWaiters(e) ==
  /\ RecGoes(e, "notify", "done")
  /\ pc' = [c \in Callers |-> IF pc[c] = "parked" THEN "retry" ELSE pc[c]]
  /\ wokenBy' = [c \in Callers |-> IF pc[c] = "parked" THEN e ELSE wokenBy[c]]
  /\ UNCHANGED <<trackVars, override, excluded, winner, try, cfg, cancelled, envVars>>

-----------------------------------------------------------------------------
(* External: which models answer changes.                                  *)

Outage ==
  /\ outages < MaxOutages
  /\ outages' = outages + 1
  /\ healthy' \in SUBSET Models
  /\ UNCHANGED <<trackVars, recVars, callVars>>

Call(c) == Try(c) \/ CallOk(c) \/ CallFails(c) \/ IsActive(c) \/ Park(c) \/ ParkCancelled(c)

Recover(e) ==
  \/ ScanFinds(e) \/ ScanFails(e) \/ Rescan(e) \/ Publish(e) \/ Deactivate(e)
  \/ ResetTracker(e) \/ NotifyWaiters(e)

Next ==
  \/ \E c \in Callers : Call(c) \/ Cancel(c)
  \/ \E e \in Epochs : Recover(e)
  \/ Outage

\* Tokio polls what is ready; a call that is begun goes on; probes and LLM
\* calls have timeouts.  Nobody has to make a call or cancel one.
Fairness ==
  /\ \A c \in Callers : WF_vars(pc[c] # "idle" /\ Call(c))
  /\ \A e \in Epochs : WF_vars(Recover(e))

Spec == Init /\ [][Next]_vars /\ Fairness

-----------------------------------------------------------------------------
(* Properties.                                                             *)

(* Every variable has values of its type; a call makes ATTEMPTS tries at   *)
(* most.                                                                   *)
TypeOK ==
  /\ active \in BOOLEAN
  /\ consecutive \in Nat
  /\ spawned \in BOOLEAN
  /\ epoch \in 0 .. MaxEpochs
  /\ override \in [model : Models \union {NoModel}, epoch : 0 .. MaxEpochs]
  /\ rec \in [Epochs -> {"none", "scan", "sleep", "publish", "off", "reset", "notify", "done"}]
  /\ excluded \in [Epochs -> Models \union {NoModel}]
  /\ winner \in [Epochs -> Models \union {NoModel}]
  /\ pc \in [Callers -> {"idle", "calling", "failed", "parking", "parked", "retry", "ended"}]
  /\ try \in [Callers -> 0 .. ATTEMPTS]
  /\ cfg \in [Callers -> [model : Models \union {NoModel}, epoch : 0 .. MaxEpochs]]
  /\ cancelled \subseteq Callers
  /\ wokenBy \in [Callers -> 0 .. MaxEpochs]
  /\ healthy \subseteq Models
  /\ outages \in 0 .. MaxOutages

\* Recoveries that have yet to turn safe mode off, and to re-arm the tracker.
Recovering == {e \in Epochs : rec[e] \in {"scan", "sleep", "publish", "off"}}

Unarmed == {e \in Epochs : rec[e] \in {"scan", "sleep", "publish", "off", "reset"}}

(* Safe mode is on just as long as one recovery is at work, and never two; *)
(* the tracker is disarmed just as long as a recovery is there to re-arm   *)
(* it.  So callers never park without anybody to wake them, and a second   *)
(* outage is always detected, although flag, tracker and override change   *)
(* in separate steps and failures go on being reported meanwhile.          *)
OneRecovery ==
  /\ active <=> Recovering # {}
  /\ spawned <=> Unarmed # {}
  /\ \A e, f \in Unarmed : e = f

(* A call that a recovery has woken tries the model which that recovery    *)
(* has found, or a later one: never again what it failed with, even if     *)
(* another outage begins meanwhile.                                        *)
ResumedUsesFallback ==
  \A c \in Callers : pc[c] = "calling" => cfg[c].epoch >= wokenBy[c]

\* The first model that a scan of a provider probes answers.
SomeFirstAnswers(e) ==
  \E p \in DOMAIN candidates : \E i \in Candidates(e, p) :
    /\ candidates[p][i] \in healthy
    /\ \A j \in Candidates(e, p) : i <= j

(* Safe mode ends if from some time on the first model answers that some   *)
(* provider is asked for, however often the scan has to begin again.  That *)
(* another one answers is not enough: behind an error that counts as the   *)
(* provider's it is never probed.                                          *)
RecoveryEnds ==
  \A e \in Epochs : <>[]SomeFirstAnswers(e) => (rec[e] = "scan" ~> rec[e] = "done")
=============================================================================

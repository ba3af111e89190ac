--------------------------- MODULE ServicesProofs ---------------------------
(***************************************************************************)
(* Proofs about the parts of MCServices, for every value of its constants. *)
(***************************************************************************)
EXTENDS MCServices, SieveProofs, TLAPS

-----------------------------------------------------------------------------
(* Safe mode.                                                              *)

\* The recovery at work, if there is one, is that of the last epoch.
LastAtWork == \A e \in Unarmed : e = epoch

FlagFollows == active <=> Recovering # {}

SpawnedFollows == spawned <=> Unarmed # {}

\* What a recovery has found is a model, and from its publication on the
\* override is that recovery's or a later one's.
OverrideInv ==
  /\ override.epoch <= epoch
  /\ override.model = NoModel => override.epoch = 0
  /\ \A e \in Epochs : rec[e] = "publish" => winner[e] \in Models
  /\ \A e \in Epochs : rec[e] \in {"off", "reset", "notify"} => e <= override.epoch

WokenInv == \A c \in Callers : wokenBy[c] <= override.epoch

AtWork ==
  /\ LastAtWork
  /\ FlagFollows
  /\ SpawnedFollows

Woken ==
  /\ WokenInv
  /\ ResumedUsesFallback

IInv ==
  /\ TypeOK
  /\ AtWork
  /\ OverrideInv
  /\ Woken

(* The disjuncts of Next, one by one.                                      *)
LEMMA NextCases ==
  Next <=> \/ \E c \in Callers : Try(c)
           \/ \E c \in Callers : CallOk(c)
           \/ \E c \in Callers : CallFails(c)
           \/ \E c \in Callers : IsActive(c)
           \/ \E c \in Callers : Park(c)
           \/ \E c \in Callers : ParkCancelled(c)
           \/ \E c \in Callers : Cancel(c)
           \/ \E e \in Epochs : ScanFinds(e)
           \/ \E e \in Epochs : ScanFails(e)
           \/ \E e \in Epochs : Rescan(e)
           \/ \E e \in Epochs : Publish(e)
           \/ \E e \in Epochs : Deactivate(e)
           \/ \E e \in Epochs : ResetTracker(e)
           \/ \E e \in Epochs : NotifyWaiters(e)
           \/ Outage
  BY DEF Next, Call, Recover

(* Every step keeps the types. *)
LEMMA TypeStep ==
  ASSUME TypeOK, Next
  PROVE  TypeOK'
<1> USE SafeModeAssumption DEF Epochs
<1>1. ASSUME NEW c \in Callers, Try(c) PROVE TypeOK'
  <2>1. CASE pc' = [pc EXCEPT ![c] = "ended"] /\ UNCHANGED <<try, cfg>>
    BY <1>1, <2>1 DEF Try, TypeOK, trackVars, recVars, envVars
  <2>2. CASE try[c] < ATTEMPTS /\ pc' = [pc EXCEPT ![c] = "calling"] /\ try' = [try EXCEPT ![c] = @ + 1]
    <3>1. cfg' \in [Callers -> [model : Models \union {NoModel}, epoch : 0 .. MaxEpochs]]
      <4>1. [model |-> Configured, epoch |-> 0] \in [model : Models \union {NoModel}, epoch : 0 .. MaxEpochs]
        OBVIOUS
      <4>2. QED  BY <1>1, <2>2, <4>1 DEF Try, TypeOK
    <3>2. try' \in [Callers -> 0 .. ATTEMPTS]
      BY <2>2 DEF TypeOK
    <3>3. QED  BY <1>1, <2>2, <3>1, <3>2 DEF Try, TypeOK, trackVars, recVars, envVars
  <2>3. QED  BY <1>1, <2>1, <2>2 DEF Try
<1>2. ASSUME NEW c \in Callers, CallOk(c) PROVE TypeOK'
  <2>1. pc' \in [Callers -> {"idle", "calling", "failed", "parking", "parked", "retry", "ended"}]
    BY <1>2 DEF CallOk, TypeOK, Goes
  <2>2. QED  BY <1>2, <2>1 DEF CallOk, TypeOK, recVars, envVars
<1>3. ASSUME NEW c \in Callers, CallFails(c) PROVE TypeOK'
  <2>1. pc' \in [Callers -> {"idle", "calling", "failed", "parking", "parked", "retry", "ended"}]
    BY <1>3 DEF CallFails, TypeOK, Goes
  <2>2. consecutive' \in Nat
    BY <1>3 DEF CallFails, report_failure, TypeOK
  <2>3. CASE UNCHANGED <<spawned, epoch, active, rec, excluded>>
    BY <1>3, <2>1, <2>2, <2>3 DEF CallFails, TypeOK, envVars
  <2>4. CASE epoch < MaxEpochs /\ spawned' = TRUE /\ epoch' = epoch + 1 /\ active' = TRUE
             /\ rec' = [rec EXCEPT ![epoch'] = "scan"]
             /\ excluded' = [excluded EXCEPT ![epoch'] = cfg[c].model]
    <3>1. epoch' \in 0 .. MaxEpochs  BY <2>4 DEF TypeOK
    <3>2. excluded' \in [Epochs -> Models \union {NoModel}]
      BY <2>4 DEF TypeOK
    <3>3. rec' \in [Epochs -> {"none", "scan", "sleep", "publish", "off", "reset", "notify", "done"}]
      BY <2>4 DEF TypeOK
    <3>4. QED  BY <1>3, <2>1, <2>2, <2>4, <3>1, <3>2, <3>3 DEF CallFails, TypeOK, envVars
  <2>5. QED  BY <1>3, <2>3, <2>4 DEF CallFails, report_failure
<1>4. ASSUME NEW c \in Callers, IsActive(c) PROVE TypeOK'
  BY <1>4 DEF IsActive, TypeOK, Goes, RecGoes, trackVars, recVars, callVars, envVars, NoOverride
<1>5. ASSUME NEW c \in Callers, Park(c) PROVE TypeOK'
  BY <1>5 DEF Park, TypeOK, Goes, RecGoes, trackVars, recVars, callVars, envVars, NoOverride
<1>6. ASSUME NEW c \in Callers, ParkCancelled(c) PROVE TypeOK'
  BY <1>6 DEF ParkCancelled, TypeOK, Goes, RecGoes, trackVars, recVars, callVars, envVars, NoOverride
<1>7. ASSUME NEW c \in Callers, Cancel(c) PROVE TypeOK'
  BY <1>7 DEF Cancel, TypeOK, Goes, RecGoes, trackVars, recVars, callVars, envVars, NoOverride
<1>8. ASSUME NEW e \in Epochs, ScanFinds(e) PROVE TypeOK'
  <2>1. PICK m \in healthy : winner' = [winner EXCEPT ![e] = m]
    BY <1>8 DEF ScanFinds, probe_model_health
  <2>2. m \in Models
    BY DEF TypeOK
  <2>3. QED  BY <1>8, <2>1, <2>2 DEF ScanFinds, RecGoes, TypeOK, trackVars, callVars, envVars
<1>9. ASSUME NEW e \in Epochs, ScanFails(e) PROVE TypeOK'
  BY <1>9 DEF ScanFails, TypeOK, Goes, RecGoes, trackVars, recVars, callVars, envVars, NoOverride
<1>10. ASSUME NEW e \in Epochs, Rescan(e) PROVE TypeOK'
  BY <1>10 DEF Rescan, TypeOK, Goes, RecGoes, trackVars, recVars, callVars, envVars, NoOverride
<1>11. ASSUME NEW e \in Epochs, Publish(e) PROVE TypeOK'
  BY <1>11 DEF Publish, TypeOK, Goes, RecGoes, trackVars, recVars, callVars, envVars, NoOverride
<1>12. ASSUME NEW e \in Epochs, Deactivate(e) PROVE TypeOK'
  BY <1>12 DEF Deactivate, TypeOK, Goes, RecGoes, trackVars, recVars, callVars, envVars, NoOverride
<1>13. ASSUME NEW e \in Epochs, ResetTracker(e) PROVE TypeOK'
  BY <1>13 DEF ResetTracker, TypeOK, Goes, RecGoes, trackVars, recVars, callVars, envVars, NoOverride
<1>14. ASSUME NEW e \in Epochs, NotifyWaiters(e) PROVE TypeOK'
  BY <1>14 DEF NotifyWaiters, TypeOK, Goes, RecGoes, trackVars, recVars, callVars, envVars, NoOverride
<1>15. ASSUME Outage PROVE TypeOK'
  BY <1>15 DEF Outage, TypeOK, Goes, RecGoes, trackVars, recVars, callVars, envVars, NoOverride
<1>16. QED
  BY <1>1, <1>2, <1>3, <1>4, <1>5, <1>6, <1>7, <1>8, <1>9, <1>10, <1>11, <1>12, <1>13, <1>14, <1>15, NextCases

(* Every step keeps flag, tracker and recovery in agreement. *)
LEMMA AtWorkStep ==
  ASSUME TypeOK, AtWork, Next
  PROVE  AtWork'
<1> USE SafeModeAssumption DEF Epochs
<1>1. ASSUME NEW c \in Callers, Try(c) PROVE AtWork'
  BY <1>1 DEF Try, AtWork, LastAtWork, FlagFollows, SpawnedFollows, Unarmed, Recovering, trackVars, recVars
<1>2. ASSUME NEW c \in Callers, CallOk(c) PROVE AtWork'
  BY <1>2 DEF CallOk, AtWork, LastAtWork, FlagFollows, SpawnedFollows, Unarmed, Recovering, trackVars, recVars
<1>3. ASSUME NEW c \in Callers, CallFails(c) PROVE AtWork'
  <2>1. CASE UNCHANGED <<spawned, epoch, active, rec, excluded>>
    BY <2>1 DEF AtWork, LastAtWork, FlagFollows, SpawnedFollows, Unarmed, Recovering
  <2>2. CASE ~spawned /\ epoch < MaxEpochs /\ spawned' = TRUE /\ epoch' = epoch + 1
             /\ active' = TRUE /\ rec' = [rec EXCEPT ![epoch'] = "scan"]
    <3>1. Unarmed = {}
      BY <2>2 DEF AtWork, SpawnedFollows
    <3>2. epoch' \in Epochs
      BY <2>2 DEF TypeOK
    <3>3. Unarmed' = {epoch'} /\ Recovering' = {epoch'}
      BY <2>2, <3>1, <3>2 DEF Unarmed, Recovering, TypeOK
    <3>4. FlagFollows' /\ SpawnedFollows'
      BY <2>2, <3>3, Zenon DEF FlagFollows, SpawnedFollows
    <3>5. QED  BY <3>3, <3>4 DEF AtWork, LastAtWork
  <2>3. QED  BY <1>3, <2>1, <2>2 DEF CallFails, report_failure
<1>4. ASSUME NEW c \in Callers, IsActive(c) PROVE AtWork'
  BY <1>4 DEF IsActive, AtWork, LastAtWork, FlagFollows, SpawnedFollows, Unarmed, Recovering, trackVars, recVars
<1>5. ASSUME NEW c \in Callers, Park(c) PROVE AtWork'
  BY <1>5 DEF Park, AtWork, LastAtWork, FlagFollows, SpawnedFollows, Unarmed, Recovering, trackVars, recVars
<1>6. ASSUME NEW c \in Callers, ParkCancelled(c) PROVE AtWork'
  BY <1>6 DEF ParkCancelled, AtWork, LastAtWork, FlagFollows, SpawnedFollows, Unarmed, Recovering, trackVars, recVars
<1>7. ASSUME NEW c \in Callers, Cancel(c) PROVE AtWork'
  BY <1>7 DEF Cancel, AtWork, LastAtWork, FlagFollows, SpawnedFollows, Unarmed, Recovering, trackVars, recVars
<1>8. ASSUME NEW e \in Epochs, ScanFinds(e) PROVE AtWork'
  <2>1. Unarmed' = Unarmed /\ Recovering' = Recovering
    BY <1>8 DEF ScanFinds, RecGoes, Unarmed, Recovering, TypeOK
  <2>2. QED  BY <1>8, <2>1 DEF ScanFinds, AtWork, LastAtWork, FlagFollows, SpawnedFollows, trackVars
<1>9. ASSUME NEW e \in Epochs, ScanFails(e) PROVE AtWork'
  <2>1. Unarmed' = Unarmed /\ Recovering' = Recovering
    BY <1>9 DEF ScanFails, RecGoes, Unarmed, Recovering, TypeOK
  <2>2. QED  BY <1>9, <2>1 DEF ScanFails, AtWork, LastAtWork, FlagFollows, SpawnedFollows, trackVars
<1>10. ASSUME NEW e \in Epochs, Rescan(e) PROVE AtWork'
  <2>1. Unarmed' = Unarmed /\ Recovering' = Recovering
    BY <1>10 DEF Rescan, RecGoes, Unarmed, Recovering, TypeOK
  <2>2. QED  BY <1>10, <2>1 DEF Rescan, AtWork, LastAtWork, FlagFollows, SpawnedFollows, trackVars
<1>11. ASSUME NEW e \in Epochs, Publish(e) PROVE AtWork'
  <2>1. Unarmed' = Unarmed /\ Recovering' = Recovering
    BY <1>11 DEF Publish, RecGoes, Unarmed, Recovering, TypeOK
  <2>2. QED  BY <1>11, <2>1 DEF Publish, AtWork, LastAtWork, FlagFollows, SpawnedFollows, trackVars
<1>12. ASSUME NEW e \in Epochs, Deactivate(e) PROVE AtWork'
  <2>1. rec[e] = "off" /\ rec' = [rec EXCEPT ![e] = "reset"] /\ UNCHANGED <<spawned, epoch>>
    BY <1>12 DEF Deactivate, RecGoes
  <2>2. Recovering \subseteq {e}
    BY <2>1 DEF AtWork, LastAtWork, Unarmed, Recovering
  <2>3. Unarmed' = Unarmed /\ Recovering' = {}
    BY <2>1, <2>2 DEF Unarmed, Recovering, TypeOK
  <2>4. active' = FALSE
    BY <1>12 DEF Deactivate
  <2>5. FlagFollows'
    BY <2>3, <2>4, Zenon DEF FlagFollows
  <2>6. QED  BY <2>1, <2>3, <2>5 DEF AtWork, LastAtWork, SpawnedFollows
<1>13. ASSUME NEW e \in Epochs, ResetTracker(e) PROVE AtWork'
  <2>1. rec[e] = "reset" /\ rec' = [rec EXCEPT ![e] = "notify"] /\ UNCHANGED <<active, epoch>>
    BY <1>13 DEF ResetTracker, RecGoes
  <2>2. Unarmed \subseteq {e}
    BY <2>1 DEF AtWork, LastAtWork, Unarmed
  <2>3. Unarmed' = {} /\ Recovering' = Recovering
    BY <2>1, <2>2 DEF Unarmed, Recovering, TypeOK
  <2>4. spawned' = FALSE
    BY <1>13 DEF ResetTracker
  <2>5. SpawnedFollows'
    BY <2>3, <2>4, Zenon DEF SpawnedFollows
  <2>6. QED  BY <2>1, <2>3, <2>5 DEF AtWork, LastAtWork, FlagFollows
<1>14. ASSUME NEW e \in Epochs, NotifyWaiters(e) PROVE AtWork'
  <2>1. Unarmed' = Unarmed /\ Recovering' = Recovering
    BY <1>14 DEF NotifyWaiters, RecGoes, Unarmed, Recovering, TypeOK
  <2>2. QED  BY <1>14, <2>1 DEF NotifyWaiters, AtWork, LastAtWork, FlagFollows, SpawnedFollows, trackVars
<1>15. ASSUME Outage PROVE AtWork'
  BY <1>15 DEF Outage, AtWork, LastAtWork, FlagFollows, SpawnedFollows, Unarmed, Recovering, trackVars, recVars
<1>16. QED
  BY <1>1, <1>2, <1>3, <1>4, <1>5, <1>6, <1>7, <1>8, <1>9, <1>10, <1>11, <1>12, <1>13, <1>14, <1>15, NextCases

(* Every step keeps the override that of the last recovery to publish.  *)
LEMMA OverrideStep ==
  ASSUME TypeOK, AtWork, OverrideInv, Next
  PROVE  OverrideInv'
<1> USE SafeModeAssumption DEF Epochs
<1>1. ASSUME NEW c \in Callers, Try(c) PROVE OverrideInv'
  BY <1>1 DEF Try, OverrideInv, trackVars, recVars
<1>2. ASSUME NEW c \in Callers, CallOk(c) PROVE OverrideInv'
  BY <1>2 DEF CallOk, OverrideInv, trackVars, recVars
<1>3. ASSUME NEW c \in Callers, CallFails(c) PROVE OverrideInv'
  <2>1. CASE UNCHANGED <<spawned, epoch, active, rec, excluded>>
    BY <1>3, <2>1 DEF CallFails, OverrideInv
  <2>2. CASE epoch' = epoch + 1 /\ rec' = [rec EXCEPT ![epoch'] = "scan"]
    BY <1>3, <2>2 DEF CallFails, OverrideInv, TypeOK
  <2>3. QED  BY <1>3, <2>1, <2>2 DEF CallFails, report_failure
<1>4. ASSUME NEW c \in Callers, IsActive(c) PROVE OverrideInv'
  BY <1>4 DEF IsActive, OverrideInv, trackVars, recVars
<1>5. ASSUME NEW c \in Callers, Park(c) PROVE OverrideInv'
  BY <1>5 DEF Park, OverrideInv, trackVars, recVars
<1>6. ASSUME NEW c \in Callers, ParkCancelled(c) PROVE OverrideInv'
  BY <1>6 DEF ParkCancelled, OverrideInv, trackVars, recVars
<1>7. ASSUME NEW c \in Callers, Cancel(c) PROVE OverrideInv'
  BY <1>7 DEF Cancel, OverrideInv, trackVars, recVars
<1>8. ASSUME NEW e \in Epochs, ScanFinds(e) PROVE OverrideInv'
  <2>1. PICK m \in healthy : winner' = [winner EXCEPT ![e] = m]
    BY <1>8 DEF ScanFinds, probe_model_health
  <2>2. m \in Models
    BY DEF TypeOK
  <2>3. QED  BY <1>8, <2>1, <2>2 DEF ScanFinds, RecGoes, OverrideInv, TypeOK, trackVars
<1>9. ASSUME NEW e \in Epochs, ScanFails(e) PROVE OverrideInv'
  BY <1>9 DEF ScanFails, RecGoes, OverrideInv, TypeOK, trackVars
<1>10. ASSUME NEW e \in Epochs, Rescan(e) PROVE OverrideInv'
  BY <1>10 DEF Rescan, RecGoes, OverrideInv, TypeOK, trackVars
<1>11. ASSUME NEW e \in Epochs, Publish(e) PROVE OverrideInv'
  <2>1. rec[e] = "publish" /\ rec' = [rec EXCEPT ![e] = "off"] /\ override' = [model |-> winner[e], epoch |-> e]
        /\ UNCHANGED <<epoch, winner>>
    BY <1>11 DEF Publish, RecGoes, trackVars
  <2>2. e = epoch
    BY <2>1 DEF AtWork, LastAtWork, Unarmed
  <2>3. winner[e] \in Models
    BY <2>1 DEF OverrideInv
  <2>4. ASSUME NEW f \in Epochs, rec'[f] \in {"off", "reset", "notify"} PROVE f <= override'.epoch
    <3>1. CASE f = e  BY <2>1, <3>1
    <3>2. CASE f # e
      <4>1. rec[f] \in {"off", "reset", "notify"}
        BY <2>1, <2>4, <3>2 DEF TypeOK
      <4>2. f <= override.epoch /\ override.epoch <= epoch
        BY <4>1 DEF OverrideInv
      <4>3. QED  BY <2>1, <2>2, <4>2 DEF TypeOK
    <3>3. QED  BY <3>1, <3>2
  <2>5. QED  BY <2>1, <2>2, <2>3, <2>4 DEF OverrideInv, TypeOK
<1>12. ASSUME NEW e \in Epochs, Deactivate(e) PROVE OverrideInv'
  BY <1>12 DEF Deactivate, RecGoes, OverrideInv, TypeOK, trackVars
<1>13. ASSUME NEW e \in Epochs, ResetTracker(e) PROVE OverrideInv'
  BY <1>13 DEF ResetTracker, RecGoes, OverrideInv, TypeOK, trackVars
<1>14. ASSUME NEW e \in Epochs, NotifyWaiters(e) PROVE OverrideInv'
  BY <1>14 DEF NotifyWaiters, RecGoes, OverrideInv, TypeOK, trackVars
<1>15. ASSUME Outage PROVE OverrideInv'
  BY <1>15 DEF Outage, OverrideInv, trackVars, recVars
<1>16. QED
  BY <1>1, <1>2, <1>3, <1>4, <1>5, <1>6, <1>7, <1>8, <1>9, <1>10, <1>11, <1>12, <1>13, <1>14, <1>15, NextCases

(* Every step keeps callers from going back to what failed.  *)
LEMMA WokenStep ==
  ASSUME TypeOK, AtWork, OverrideInv, Woken, Next
  PROVE  Woken'
<1> USE SafeModeAssumption DEF Epochs
<1>1. ASSUME NEW c \in Callers, Try(c) PROVE Woken'
  <2>1. CASE pc' = [pc EXCEPT ![c] = "ended"] /\ UNCHANGED <<try, cfg>>
    BY <1>1, <2>1 DEF Try, Woken, WokenInv, ResumedUsesFallback, recVars, TypeOK
  <2>2. CASE pc' = [pc EXCEPT ![c] = "calling"]
             /\ cfg' = [cfg EXCEPT ![c] = IF override.model # NoModel THEN override
                                          ELSE [model |-> Configured, epoch |-> 0]]
    <3>1. cfg'[c].epoch >= wokenBy[c]
      <4>1. wokenBy[c] <= override.epoch
        BY DEF Woken, WokenInv
      <4>2. CASE override.model # NoModel
        BY <2>2, <4>1, <4>2 DEF TypeOK
      <4>3. CASE override.model = NoModel
        <5>1. override.epoch = 0
          BY <4>3 DEF OverrideInv
        <5>2. cfg'[c].epoch = 0
          BY <2>2, <4>3 DEF TypeOK
        <5>3. QED  BY <4>1, <5>1, <5>2 DEF TypeOK
      <4>4. QED  BY <4>2, <4>3
    <3>2. UNCHANGED <<wokenBy, override>>
      BY <1>1 DEF Try, recVars
    <3>3. ASSUME NEW d \in Callers, pc'[d] = "calling" PROVE cfg'[d].epoch >= wokenBy'[d]
      <4>1. CASE d = c  BY <3>1, <3>2, <4>1
      <4>2. CASE d # c
        BY <2>2, <3>2, <3>3, <4>2 DEF Woken, ResumedUsesFallback, TypeOK
      <4>3. QED  BY <4>1, <4>2
    <3>4. QED  BY <3>2, <3>3 DEF Woken, WokenInv, ResumedUsesFallback
  <2>3. QED  BY <1>1, <2>1, <2>2 DEF Try
<1>2. ASSUME NEW c \in Callers, CallOk(c) PROVE Woken'
  <2>1. pc' = [pc EXCEPT ![c] = "ended"] /\ UNCHANGED <<override, cfg, wokenBy>>
    BY <1>2 DEF CallOk, Goes, recVars
  <2>2. QED  BY <2>1 DEF Woken, WokenInv, ResumedUsesFallback, TypeOK
<1>3. ASSUME NEW c \in Callers, CallFails(c) PROVE Woken'
  <2>1. pc' = [pc EXCEPT ![c] = "failed"] /\ UNCHANGED <<override, cfg, wokenBy>>
    BY <1>3 DEF CallFails, Goes
  <2>2. QED  BY <2>1 DEF Woken, WokenInv, ResumedUsesFallback, TypeOK
<1>4. ASSUME NEW c \in Callers, IsActive(c) PROVE Woken'
  BY <1>4 DEF IsActive, Woken, WokenInv, ResumedUsesFallback, Goes, RecGoes, trackVars, recVars, callVars, envVars, TypeOK
<1>5. ASSUME NEW c \in Callers, Park(c) PROVE Woken'
  BY <1>5 DEF Park, Woken, WokenInv, ResumedUsesFallback, Goes, RecGoes, trackVars, recVars, callVars, envVars, TypeOK
<1>6. ASSUME NEW c \in Callers, ParkCancelled(c) PROVE Woken'
  BY <1>6 DEF ParkCancelled, Woken, WokenInv, ResumedUsesFallback, Goes, RecGoes, trackVars, recVars, callVars, envVars, TypeOK
<1>7. ASSUME NEW c \in Callers, Cancel(c) PROVE Woken'
  BY <1>7 DEF Cancel, Woken, WokenInv, ResumedUsesFallback, Goes, RecGoes, trackVars, recVars, callVars, envVars, TypeOK
<1>8. ASSUME NEW e \in Epochs, ScanFinds(e) PROVE Woken'
  BY <1>8 DEF ScanFinds, Woken, WokenInv, ResumedUsesFallback, Goes, RecGoes, trackVars, recVars, callVars, envVars, TypeOK
<1>9. ASSUME NEW e \in Epochs, ScanFails(e) PROVE Woken'
  BY <1>9 DEF ScanFails, Woken, WokenInv, ResumedUsesFallback, Goes, RecGoes, trackVars, recVars, callVars, envVars, TypeOK
<1>10. ASSUME NEW e \in Epochs, Rescan(e) PROVE Woken'
  BY <1>10 DEF Rescan, Woken, WokenInv, ResumedUsesFallback, Goes, RecGoes, trackVars, recVars, callVars, envVars, TypeOK
<1>11. ASSUME NEW e \in Epochs, Publish(e) PROVE Woken'
  <2>1. e = epoch /\ override' = [model |-> winner[e], epoch |-> e] /\ UNCHANGED <<pc, cfg, wokenBy>>
    BY <1>11 DEF Publish, RecGoes, AtWork, LastAtWork, Unarmed, callVars
  <2>2. override.epoch <= epoch
    BY DEF OverrideInv
  <2>3. ASSUME NEW c \in Callers PROVE wokenBy[c] <= override'.epoch
    <3>1. wokenBy[c] <= override.epoch
      BY DEF Woken, WokenInv
    <3>2. QED  BY <2>1, <2>2, <3>1 DEF TypeOK
  <2>4. QED  BY <2>1, <2>3 DEF Woken, WokenInv, ResumedUsesFallback
<1>12. ASSUME NEW e \in Epochs, Deactivate(e) PROVE Woken'
  BY <1>12 DEF Deactivate, Woken, WokenInv, ResumedUsesFallback, Goes, RecGoes, trackVars, recVars, callVars, envVars, TypeOK
<1>13. ASSUME NEW e \in Epochs, ResetTracker(e) PROVE Woken'
  BY <1>13 DEF ResetTracker, Woken, WokenInv, ResumedUsesFallback, Goes, RecGoes, trackVars, recVars, callVars, envVars, TypeOK
<1>14. ASSUME NEW e \in Epochs, NotifyWaiters(e) PROVE Woken'
  <2>1. e <= override.epoch
    BY <1>14 DEF NotifyWaiters, RecGoes, OverrideInv
  <2>2. UNCHANGED <<cfg, override>>
    BY <1>14 DEF NotifyWaiters
  <2>3. ASSUME NEW c \in Callers
        PROVE  /\ wokenBy'[c] <= override'.epoch
               /\ pc'[c] = "calling" => cfg'[c].epoch >= wokenBy'[c]
    <3>1. CASE pc[c] = "parked"
      BY <1>14, <2>1, <2>2, <3>1 DEF NotifyWaiters
    <3>2. CASE pc[c] # "parked"
      BY <1>14, <2>2, <3>2 DEF NotifyWaiters, Woken, WokenInv, ResumedUsesFallback
    <3>3. QED  BY <3>1, <3>2
  <2>4. QED  BY <2>3 DEF Woken, WokenInv, ResumedUsesFallback
<1>15. ASSUME Outage PROVE Woken'
  BY <1>15 DEF Outage, Woken, WokenInv, ResumedUsesFallback, Goes, RecGoes, trackVars, recVars, callVars, envVars, TypeOK
<1>16. QED
  BY <1>1, <1>2, <1>3, <1>4, <1>5, <1>6, <1>7, <1>8, <1>9, <1>10, <1>11, <1>12, <1>13, <1>14, <1>15, NextCases

LEMMA InitIInv == Init => IInv
<1> USE SafeModeAssumption DEF Epochs
<1> SUFFICES ASSUME Init PROVE IInv
  OBVIOUS
<1>1. TypeOK
  <2>1. NoOverride \in [model : Models \union {NoModel}, epoch : 0 .. MaxEpochs]
    BY DEF NoOverride
  <2>2. pc \in [Callers -> {"idle", "calling", "failed", "parking", "parked", "retry", "ended"}]
    BY DEF Init
  <2>3. rec \in [Epochs -> {"none", "scan", "sleep", "publish", "off", "reset", "notify", "done"}]
    BY DEF Init
  <2>4. cfg \in [Callers -> [model : Models \union {NoModel}, epoch : 0 .. MaxEpochs]]
    BY <2>1 DEF Init
  <2>5. override \in [model : Models \union {NoModel}, epoch : 0 .. MaxEpochs]
    BY <2>1 DEF Init
  <2>6. try \in [Callers -> 0 .. ATTEMPTS] /\ wokenBy \in [Callers -> 0 .. MaxEpochs]
    BY DEF Init
  <2>7. healthy \subseteq Models /\ cancelled \subseteq Callers
    BY DEF Init
  <2>8. active \in BOOLEAN /\ spawned \in BOOLEAN
    BY Zenon DEF Init
  <2>9. consecutive \in Nat /\ epoch \in 0 .. MaxEpochs /\ outages \in 0 .. MaxOutages
    BY DEF Init
  <2>10. /\ excluded \in [Epochs -> Models \union {NoModel}]
        /\ winner \in [Epochs -> Models \union {NoModel}]
    BY DEF Init
  <2>11. QED  BY <2>2, <2>3, <2>4, <2>5, <2>6, <2>7, <2>10, <2>8, <2>9 DEF TypeOK
<1>2. Unarmed = {} /\ Recovering = {}
  BY DEF Init, Unarmed, Recovering
<1>3. AtWork
  <2>1. FlagFollows /\ SpawnedFollows
    BY <1>2, Zenon DEF Init, FlagFollows, SpawnedFollows
  <2>2. QED  BY <1>2, <2>1 DEF AtWork, LastAtWork
<1>4. OverrideInv
  BY DEF Init, OverrideInv, NoOverride
<1>5. Woken
  BY DEF Init, Woken, WokenInv, ResumedUsesFallback, NoOverride
<1>6. QED  BY <1>1, <1>3, <1>4, <1>5 DEF IInv

LEMMA StepIInv == IInv /\ [Next]_vars => IInv'
<1> SUFFICES ASSUME IInv, [Next]_vars PROVE IInv'
  OBVIOUS
<1>1. CASE Next
  BY <1>1, TypeStep, AtWorkStep, OverrideStep, WokenStep DEF IInv
<1>2. CASE UNCHANGED vars
  BY <1>2 DEF vars, trackVars, recVars, callVars, envVars, IInv, TypeOK, AtWork, LastAtWork,
              FlagFollows, SpawnedFollows, Unarmed, Recovering, OverrideInv, Woken, WokenInv,
              ResumedUsesFallback
<1>3. QED  BY <1>1, <1>2

LEMMA Invariance == Spec => []IInv
  BY InitIInv, StepIInv, PTL DEF Spec

(* Every variable of the circuit breaker keeps its type: no call makes a   *)
(* fifth try, no recovery is started past the last epoch.                  *)
THEOREM SafeModeTypeCorrect == Spec => []TypeOK
  BY Invariance, PTL DEF IInv

(* Whatever callers fail, succeed or are cancelled while a recovery is at  *)
(* work, there is one, and flag and tracker say so.                        *)
THEOREM SafeModeHasOneRecovery == Spec => []OneRecovery
<1>1. IInv => OneRecovery
  BY DEF IInv, AtWork, LastAtWork, FlagFollows, SpawnedFollows, OneRecovery
<1>2. QED  BY <1>1, Invariance, PTL

(* A caller that a recovery woke never tries what it had failed with.      *)
THEOREM WokenCallersUseFallback == Spec => []ResumedUsesFallback
  BY Invariance, PTL DEF IInv, Woken

-----------------------------------------------------------------------------
(* One part takes a step, and the others stay as they are.                 *)

LEMMA PartSteps ==
  ASSUME [ServicesNext]_<<which, vars, otherVars>>
  PROVE  /\ [Mind!MindNext]_mindVars /\ [Child!ExecNext]_execVars /\ [Llm!LlmNext]_llmVars
         /\ [Ems!EntNext]_entVars /\ [Prompt!HeadNext]_hpVars /\ [Vfs!FilesNext]_fsVars
BY DEF ServicesNext, otherVars

-----------------------------------------------------------------------------
(* The mind.                                                               *)

MindTyped ==
  /\ now \in Nat /\ tick \in Nat /\ last_ts \in Nat
  /\ ticks \in Seq(Nat)
  /\ \A x \in made \cup recorded : x.ts \in Nat

\* What counts as reviewed when no cycle runs, and what will when one ends.
Reviewed == IF mind = "thinking" THEN tick ELSE last_ts

\* The frames the mind can be shown at all.
Heard(x) == Mind!Scope(x) /\ x.kind.item

\* Between two wakes and in a cycle alike, what is recorded and not newer than
\* what counts as reviewed was shown, or is excused.
MindInv ==
  /\ MindTyped
  /\ \A x \in recorded : Heard(x) /\ x.ts <= Reviewed => x.frame \in shown \cup excused

LEMMA MindTypedStep ==
  ASSUME MindTyped, [Mind!MindNext]_mindVars
  PROVE  MindTyped'
<1> USE DEF MindTyped, Mind!clockVars, Mind!cycleVars, Mind!activityVars
<1>1. CASE UNCHANGED mindVars
  BY <1>1 DEF mindVars
<1>2. CASE Mind!Tick
  <2>1. now' \in Nat /\ UNCHANGED <<tick, last_ts, made, recorded>>
    BY <1>2 DEF Mind!Tick
  <2>2. ticks' = Append(ticks, now') \/ ticks' = ticks
    BY <1>2 DEF Mind!Tick
  <2>3. ticks' \in Seq(Nat)
    <3>1. ticks \in Seq(Nat)
      OBVIOUS
    <3> HIDE DEF MindTyped
    <3> QED BY <2>1, <2>2, <3>1
  <2> QED BY <2>1, <2>3
<1>3. CASE Mind!Record
  <2>1. PICK y \in made :
          /\ made' = made \ {y}
          /\ recorded' = recorded \cup {[frame |-> y.frame, ts |-> y.ts, kind |-> y.kind,
                                         seq |-> Mind!NextSeq]}
    BY <1>3 DEF Mind!Record
  <2>2. \A x \in made' \cup recorded' : x.ts \in Nat
    BY <2>1
  <2> QED BY <1>3, <2>2 DEF Mind!Record
<1>4. CASE Mind!SkipTick
  BY <1>4 DEF Mind!SkipTick, Mind!Received
<1>5. CASE Mind!Wake
  BY <1>5 DEF Mind!Wake, Mind!Received, Mind!Gather
<1>6. CASE Mind!Answer
  BY <1>6 DEF Mind!Answer, Mind!EndsCycle
<1>7. CASE Mind!Gone
  BY <1>7 DEF Mind!Gone
<1>8. ASSUME NEW f \in MindFrames, NEW kind \in MindKinds, Mind!Emit(f, kind)
      PROVE  MindTyped'
  BY <1>8 DEF Mind!Emit
<1> QED BY <1>1, <1>2, <1>3, <1>4, <1>5, <1>6, <1>7, <1>8 DEF Mind!MindNext

LEMMA MindStep ==
  ASSUME MindInv, [Mind!MindNext]_mindVars
  PROVE  MindInv'
<1>0. MindTyped /\ MindTyped'
  BY MindTypedStep DEF MindInv
<1>1. SUFFICES ASSUME NEW x \in recorded', Heard(x), x.ts <= Reviewed'
               PROVE  x.frame \in shown' \cup excused'
  BY <1>0 DEF MindInv, Heard, Mind!Scope
<1> USE DEF Mind!clockVars, Mind!cycleVars, Mind!activityVars
<1>2. CASE UNCHANGED <<recorded, shown, excused, mind, tick, last_ts>>
  BY <1>1, <1>2 DEF MindInv, Reviewed
<1>3. CASE Mind!Record
  <2>1. PICK y \in made :
          /\ recorded' = recorded \cup {[frame |-> y.frame, ts |-> y.ts, kind |-> y.kind,
                                         seq |-> Mind!NextSeq]}
          /\ excused' = IF y.ts <= (IF mind = "thinking" THEN tick ELSE last_ts)
                        THEN excused \cup {y.frame} ELSE excused
    BY <1>3 DEF Mind!Record
  <2>2. UNCHANGED <<mind, tick, last_ts, shown>>
    BY <1>3 DEF Mind!Record
  <2>3. excused \subseteq excused' /\ (y.ts <= Reviewed => y.frame \in excused')
    BY <2>1 DEF Reviewed
  <2>4. CASE x.frame = y.frame /\ x.ts = y.ts
    BY <2>2, <2>3, <2>4, <1>1 DEF Reviewed
  <2>5. CASE x \in recorded
    BY <2>1, <2>2, <2>3, <2>5, <1>1 DEF MindInv, Reviewed
  <2> QED BY <2>1, <2>4, <2>5
<1>4. CASE Mind!Wake
  <2> DEFINE new == {y \in recorded : Mind!Scope(y) /\ (last_ts = 0 \/ y.ts > last_ts)}
             page == Mind!Page(new)
  <2>1. /\ shown' = shown \cup {y.frame : y \in {z \in page : z.kind.item}}
        /\ excused' = excused \cup {y.frame : y \in new \ page}
    BY <1>4 DEF Mind!Wake, Mind!Gather
  <2>2. x \in recorded /\ mind = "waiting"
    BY <1>4 DEF Mind!Wake
  <2>3. CASE x \in new
    <3>1. x.kind.item
      BY <1>1 DEF Heard
    <3> HIDE DEF new, page
    <3> QED BY <2>1, <2>3, <3>1
  <2>4. CASE x \notin new
    <3>1. x.ts \in Nat /\ last_ts \in Nat
      BY <2>2, <1>0 DEF MindTyped
    <3>2. Mind!Scope(x)
      BY <1>1 DEF Heard
    <3>3. x.ts <= last_ts
      BY <2>2, <2>4, <3>1, <3>2
    <3>4. x.frame \in shown \cup excused
      BY <1>1, <2>2, <3>3 DEF MindInv, Reviewed
    <3> QED BY <2>1, <3>4
  <2> QED BY <2>3, <2>4
<1>5. CASE Mind!Answer
  <2>1. /\ UNCHANGED <<recorded, shown, excused, tick>> /\ mind = "thinking"
        /\ \/ mind' = mind /\ last_ts' = last_ts
           \/ mind' = "waiting" /\ last_ts' = tick
    BY <1>5 DEF Mind!Answer, Mind!EndsCycle
  <2>2. Reviewed' = Reviewed
    BY <2>1 DEF Reviewed
  <2> QED BY <1>1, <2>1, <2>2 DEF MindInv
<1>6. CASE Mind!Gone
  BY <1>1, <1>6 DEF Mind!Gone, MindInv, Reviewed
<1>7. CASE \/ Mind!Tick \/ Mind!SkipTick
           \/ \E f \in MindFrames, kind \in MindKinds : Mind!Emit(f, kind)
  <2>1. UNCHANGED <<recorded, shown, excused, mind, tick, last_ts>>
    BY <1>7 DEF Mind!Tick, Mind!SkipTick, Mind!Emit
  <2> QED BY <2>1, <1>2
<1> QED
  BY <1>2, <1>3, <1>4, <1>5, <1>6, <1>7 DEF Mind!MindNext, mindVars

\* Nothing of "#main" escapes the mind between two wakes: a frame not newer
\* than what counts as reviewed was shown to it as new, whenever it was made and
\* however old the ticks are that wake the mind; but for those that the writer
\* recorded late and those past the limit (mind/service.rs, mind/bundle.rs).
THEOREM MindSeesActivity == ServicesSpec => []ActivityIsShown
<1>1. ServicesInit => MindInv
  BY DEF ServicesInit, Mind!MindInit, MindInv, MindTyped, Reviewed
<1>2. MindInv /\ [ServicesNext]_<<which, vars, otherVars>> => MindInv'
  BY PartSteps, MindStep
<1>3. MindInv => ActivityIsShown
  BY DEF MindInv, ActivityIsShown, Mind!ActivityIsShown, Reviewed, Heard
<1> QED BY <1>1, <1>2, <1>3, PTL DEF ServicesSpec

-----------------------------------------------------------------------------
(* The child process.                                                      *)

ExecTyped ==
  /\ pipe \in [stdin : Nat, stdout : Nat]
  /\ written \in Nat /\ captured \in Nat
  /\ truncated \in BOOLEAN

\* What was written is captured, in the pipe, or dropped after max_stdout.
OutputAccounted ==
  /\ captured <= max_stdout
  /\ ~truncated => captured + pipe.stdout = written
  /\ truncated => captured = max_stdout /\ captured + pipe.stdout < written

\* An answer is given when all who write have ended and the pipe is empty, and
\* what an ended call has captured does not change.
AnsweredAtEnd == reply = "ok" => at = "ended" /\ pipe.stdout = 0

ExecInv == ExecTyped /\ OutputAccounted /\ AnsweredAtEnd

\* What touches neither the pipe of stdout nor the answer.
LEMMA ExecAside ==
  ASSUME ExecInv, UNCHANGED <<written, captured, truncated>>,
         pipe' \in [stdin : Nat, stdout : Nat], pipe'.stdout = pipe.stdout,
         \/ at' = at /\ reply' = reply
         \/ at # "ended" /\ reply' = reply
         \/ reply' # "ok"
  PROVE  ExecInv'
BY DEF ExecInv, ExecTyped, OutputAccounted, AnsweredAtEnd

LEMMA ExecStep ==
  ASSUME ExecInv, ServicesAssumption, [Child!ExecNext]_execVars
  PROVE  ExecInv'
<1>0. /\ pipe \in [stdin : Nat, stdout : Nat] /\ written \in Nat /\ captured \in Nat
      /\ truncated \in BOOLEAN /\ max_stdout \in Nat /\ captured <= max_stdout
  BY DEF ExecInv, ExecTyped, OutputAccounted, ServicesAssumption
<1> DEFINE Aside ==
      /\ UNCHANGED <<written, captured, truncated>>
      /\ pipe' \in [stdin : Nat, stdout : Nat] /\ pipe'.stdout = pipe.stdout
      /\ \/ at' = at /\ reply' = reply
         \/ at # "ended" /\ reply' = reply
         \/ reply' # "ok"
<1>1. ASSUME Aside PROVE ExecInv'
  BY <1>1, ExecAside
<1>2. CASE Child!Capture
  <2>1. /\ at' = at /\ reply' = reply /\ written' = written
        /\ at \in {"wait", "drain"} /\ pipe.stdout > 0
        /\ pipe' = [pipe EXCEPT !.stdout = @ - 1]
        /\ captured' = IF captured < max_stdout THEN captured + 1 ELSE captured
        /\ truncated' = (truncated \/ captured >= max_stdout)
    BY <1>2 DEF Child!Capture, Child!Keeps
  <2>2. pipe' \in [stdin : Nat, stdout : Nat] /\ pipe'.stdout = pipe.stdout - 1
    BY <2>1, <1>0
  <2>3. CASE captured < max_stdout
    <3>1. ~truncated /\ captured + pipe.stdout = written
      BY <2>3, <1>0 DEF ExecInv, OutputAccounted
    <3>2. ~truncated' /\ captured' = captured + 1
      BY <2>1, <2>3, <3>1, <1>0
    <3>3. OutputAccounted'
      <4>1. /\ pipe.stdout \in Nat /\ pipe'.stdout = pipe.stdout - 1
            /\ written' = written
        BY <1>0, <2>1, <2>2
      <4>2. captured' + pipe'.stdout = written'
        BY <1>0, <3>1, <3>2, <4>1
      <4>3. captured' <= max_stdout
        BY <1>0, <2>3, <3>2, ServicesAssumption
      <4> QED BY <3>2, <4>2, <4>3 DEF OutputAccounted
    <3>4. ExecTyped'
      BY <3>2, <2>1, <2>2, <1>0 DEF ExecTyped
    <3> QED BY <3>3, <3>4, <2>1 DEF ExecInv, AnsweredAtEnd
  <2>4. CASE ~(captured < max_stdout)
    <3>0. captured >= max_stdout /\ captured' = captured /\ captured = max_stdout
      BY <2>1, <2>4, <1>0
    <3>5. truncated'
      BY <3>0, <2>1, Zenon
    <3>1. truncated' /\ captured' = captured /\ captured = max_stdout
      BY <3>0, <3>5
    <3>2. captured + pipe'.stdout < written
      BY <2>1, <2>2, <3>1, <1>0 DEF ExecInv, OutputAccounted
    <3>3. OutputAccounted'
      BY <3>1, <3>2, <2>1 DEF OutputAccounted
    <3>4. ExecTyped'
      BY <3>1, <2>1, <2>2, <1>0 DEF ExecTyped
    <3> QED BY <3>3, <3>4, <2>1 DEF ExecInv, AnsweredAtEnd
  <2> QED BY <2>3, <2>4
<1>3. CASE Child!Writes
  <2>1. /\ UNCHANGED <<at, captured, truncated, reply>> /\ at # "ended"
        /\ pipe' = [pipe EXCEPT !.stdout = @ + 1] /\ written' = written + 1
    BY <1>3 DEF Child!Writes
  <2>2. pipe' \in [stdin : Nat, stdout : Nat] /\ pipe'.stdout = pipe.stdout + 1
    BY <2>1, <1>0
  <2>3. ExecTyped'
    BY <2>1, <2>2, <1>0 DEF ExecTyped
  <2>4. OutputAccounted'
    <3>1. CASE truncated
      BY <3>1, <2>1, <2>2, <1>0 DEF ExecInv, OutputAccounted
    <3>2. CASE ~truncated
      BY <3>2, <2>1, <2>2, <1>0 DEF ExecInv, OutputAccounted
    <3> QED BY <3>1, <3>2
  <2> QED BY <2>1, <2>3, <2>4 DEF ExecInv, AnsweredAtEnd
<1>4. CASE Child!Answer
  <2>1. UNCHANGED <<pipe, written, captured, truncated>> /\ at' = "ended" /\ pipe.stdout = 0
    BY <1>4 DEF Child!Answer, Child!Ends, Child!Drained
  <2> QED BY <2>1 DEF ExecInv, ExecTyped, OutputAccounted, AnsweredAtEnd
<1>5. CASE Child!WriteStdin
  <2>1. at = "stdin" /\ UNCHANGED <<written, captured, truncated>>
        /\ (reply' = reply \/ reply' = "error")
        /\ (pipe' = pipe \/ pipe' = [pipe EXCEPT !.stdin = @ + 1])
    BY <1>5 DEF Child!WriteStdin, Child!Ends
  <2> QED BY <2>1, <1>0, <1>1
<1>6. CASE Child!Reads
  BY <1>6, <1>0, <1>1 DEF Child!Reads
<1>7. CASE \/ \E s \in {"cancel", "child_cancel", "timeout", "deadline"} : Child!Raise(s)
           \/ Child!DispatcherDrops \/ Child!Refuse \/ Child!Spawn \/ Child!Wait
           \/ Child!Forks \/ Child!Exits
  <2>1. UNCHANGED <<pipe, written, captured, truncated>>
    BY <1>7 DEF Child!Raise, Child!DispatcherDrops, Child!Refuse, Child!Spawn, Child!Wait,
                Child!Forks, Child!Exits
  <2>2. \/ at' = at /\ reply' = reply
        \/ at # "ended" /\ reply' = reply
        \/ reply' # "ok"
    BY <1>7 DEF Child!Raise, Child!DispatcherDrops, Child!Refuse, Child!Spawn, Child!Wait,
                Child!Forks, Child!Exits, Child!Ends
  <2> QED BY <2>1, <2>2, <1>0, <1>1
<1>8. CASE UNCHANGED execVars
  BY <1>8, <1>0, <1>1 DEF execVars
<1> QED
  BY <1>2, <1>3, <1>4, <1>5, <1>6, <1>7, <1>8 DEF Child!ExecNext

\* A call of exec:run that succeeds answers with all that the child and those
\* it started wrote, or as much as is kept, and says whether that is less,
\* whatever signals are raised on the way (hal/process.rs, spawn_capture_task).
THEOREM ExecOutputIsWhole == ServicesSpec => []OutputIsWhole
<1>1. ServicesInit => ExecInv
  <2> SUFFICES ASSUME ServicesInit PROVE ExecInv
    OBVIOUS
  <2>1. /\ at = "checks" /\ pipe = [stdin |-> 0, stdout |-> 0] /\ written = 0 /\ captured = 0
        /\ truncated = FALSE /\ reply = "none"
    BY DEF ServicesInit, Child!ExecInit
  <2> QED
    <3>1. ExecTyped
      BY <2>1 DEF ExecTyped
    <3>2. OutputAccounted
      BY <2>1, ServicesAssumption DEF ServicesAssumption, OutputAccounted
    <3> QED BY <2>1, <3>1, <3>2 DEF ExecInv, AnsweredAtEnd
<1>2. ExecInv /\ [ServicesNext]_<<which, vars, otherVars>> => ExecInv'
  BY PartSteps, ExecStep, ServicesAssumption
<1>3. ExecInv => OutputIsWhole
  <2> SUFFICES ASSUME ExecInv, reply = "ok"
               PROVE  /\ captured = IF written <= max_stdout THEN written ELSE max_stdout
                      /\ truncated <=> written > max_stdout
    BY DEF OutputIsWhole, Child!OutputIsWhole
  <2>1. /\ pipe.stdout = 0 /\ written \in Nat /\ captured \in Nat /\ max_stdout \in Nat
        /\ captured <= max_stdout
    BY ServicesAssumption DEF ServicesAssumption, ExecInv, ExecTyped, OutputAccounted, AnsweredAtEnd
  <2>2. CASE truncated
    <3>1. captured = max_stdout /\ written > max_stdout
      BY <2>1, <2>2 DEF ExecInv, OutputAccounted
    <3> QED BY <3>1, <2>1, <2>2
  <2>3. CASE ~truncated
    <3>1. captured = written
      BY <2>1, <2>3 DEF ExecInv, OutputAccounted
    <3> QED BY <3>1, <2>1, <2>3
  <2> QED BY <2>2, <2>3
<1> QED BY <1>1, <1>2, <1>3, PTL DEF ServicesSpec

-----------------------------------------------------------------------------
(* The entity store.                                                       *)

EntTyped ==
  /\ entTable \in [Ids -> EntRows \cup {None}]
  /\ entDoc \in [Ids -> EntDocs \cup {None}]
  /\ entLegacy \in [Ids -> Ems!Kinds \cup {None}]
  /\ \A i \in Ids : entTable[i] = None <=> entDoc[i] = None

\* Before migration 2 is recorded there is nothing in the new table, and after
\* it nothing in the old ones.
Migration ==
  \/ entVersion = 1 /\ \A i \in Ids : entTable[i] = None
  \/ entVersion = 2 /\ \A i \in Ids : entLegacy[i] = None

\* A row stands for the object its id was given, unless the data column was
\* written as if it were a key.
RowStandsFor(row, doc) ==
  /\ row = None <=> doc = None
  /\ row # None => row.kind = doc.kind /\ \A k \in Ems!Keys : Ems!col_ref(row, k) = doc.val[k]

Documented == \A i \in Ids \ entRaw : RowStandsFor(entTable[i], entDoc[i])

EntInv == EntTyped /\ Migration /\ Documented

IsObject(obj) ==
  /\ DOMAIN obj \subseteq Ems!Keys \cup {"data"}
  /\ \A k \in DOMAIN obj : obj[k] \in EntValues

LEMMA ObjectsAre == \A obj \in Ems!Objects : IsObject(obj)
<1> SUFFICES ASSUME NEW obj \in Ems!Objects PROVE IsObject(obj)
  OBVIOUS
<1>1. PICK K \in SUBSET (Ems!Keys \cup {"data"}) : obj \in [K -> Values \cup {Null}]
  BY DEF Ems!Objects
<1>2. DOMAIN obj = K
  BY <1>1
<1>3. \A k \in K : obj[k] \in Values \cup {Null}
  BY <1>1
<1>4. Values \cup {Null} \subseteq EntValues
  BY DEF EntValues
<1> QED BY <1>2, <1>3, <1>4 DEF IsObject

LEMMA StatusIsObject ==
  \A s \in {"running", "removed", "promoted"} : IsObject([status |-> s])
<1> SUFFICES ASSUME NEW s \in {"running", "removed", "promoted"} PROVE IsObject([status |-> s])
  OBVIOUS
<1>1. "status" \in Ems!Keys /\ s \in EntValues
  BY DEF Ems!Keys, Ems!FixedColumns, EntValues
<1>2. DOMAIN [status |-> s] = {"status"} /\ [status |-> s]["status"] = s
  OBVIOUS
<1> QED BY <1>1, <1>2 DEF IsObject

LEMMA WantIsObject == \A v \in Values : IsObject([prompt |-> v, context |-> v])
<1> SUFFICES ASSUME NEW v \in Values PROVE IsObject([prompt |-> v, context |-> v])
  OBVIOUS
<1> DEFINE obj == [prompt |-> v, context |-> v]
<1>1. "prompt" \in Ems!Keys /\ "context" \in Ems!Keys /\ v \in EntValues
  BY DEF Ems!Keys, Ems!FixedColumns, Ems!Extras, EntValues
<1>2. DOMAIN obj = {"prompt", "context"} /\ obj["prompt"] = v /\ obj["context"] = v
  OBVIOUS
<1> HIDE DEF obj
<1>3. IsObject(obj)
  BY <1>1, <1>2 DEF IsObject
<1> QED BY <1>3 DEF obj

LEMMA MergedType ==
  ASSUME NEW D, NEW fields \in [D -> EntValues], NEW obj, IsObject(obj)
  PROVE  /\ Ems!Merged(fields, obj) \in [D -> EntValues]
         /\ \A k \in D : Ems!Merged(fields, obj)[k] =
                           IF k \in DOMAIN obj THEN obj[k] ELSE fields[k]
BY DEF Ems!Merged, IsObject

\* The extras of a row, and what a merge makes of them.
Extra(data, k) == IF k \in DOMAIN data THEN data[k] ELSE Null

LEMMA DataType ==
  ASSUME NEW data \in EntData
  PROVE  \A k \in DOMAIN data \cap Ems!Extras : data[k] \in EntValues
<1>1. CASE data = Ems!Text
  BY <1>1 DEF Ems!Text, Ems!Extras
<1>2. CASE \E K \in SUBSET Ems!Extras : data \in [K -> EntValues]
  BY <1>2
<1> QED BY <1>1, <1>2 DEF EntData

LEMMA PatchType ==
  ASSUME NEW data \in EntData, NEW obj, IsObject(obj)
  PROVE  /\ Ems!json_patch(data, obj) \in EntData
         /\ \A k \in Ems!Extras : Extra(Ems!json_patch(data, obj), k) =
              IF k \in DOMAIN obj THEN obj[k] ELSE Extra(data, k)
<1> DEFINE K == {k \in (DOMAIN data \cup DOMAIN obj) \cap Ems!Extras :
                    k \in DOMAIN obj => obj[k] # Null}
           new == Ems!json_patch(data, obj)
<1>1. new = [k \in K |-> IF k \in DOMAIN obj THEN obj[k] ELSE data[k]]
  BY DEF Ems!json_patch
<1>2. \A k \in K : (IF k \in DOMAIN obj THEN obj[k] ELSE data[k]) \in EntValues
  BY DataType DEF IsObject
<1>3. K \in SUBSET Ems!Extras /\ new \in [K -> EntValues]
  BY <1>1, <1>2
<1>4. new \in EntData
  BY <1>3 DEF EntData
<1>5. ASSUME NEW k \in Ems!Extras
      PROVE  Extra(new, k) = IF k \in DOMAIN obj THEN obj[k] ELSE Extra(data, k)
  <2>1. DOMAIN new = K
    BY <1>1
  <2>2. CASE k \in K
    BY <1>1, <2>1, <2>2 DEF Extra
  <2>3. CASE k \notin K
    BY <2>1, <2>3 DEF Extra
  <2> QED BY <2>2, <2>3
<1> QED BY <1>4, <1>5

LEMMA NewDataType ==
  ASSUME NEW data \in EntData, NEW obj, IsObject(obj)
  PROVE  /\ Ems!NewData(data, obj) \in EntData
         /\ \A k \in Ems!Extras : Extra(Ems!NewData(data, obj), k) =
              IF k \in DOMAIN obj THEN obj[k] ELSE Extra(data, k)
<1>1. CASE DOMAIN obj \cap Ems!Extras = {}
  BY <1>1 DEF Ems!NewData
<1>2. CASE DOMAIN obj \cap Ems!Extras # {}
  BY <1>2, PatchType DEF Ems!NewData
<1> QED BY <1>1, <1>2

LEMMA ColRef ==
  ASSUME NEW row, NEW k \in Ems!Keys
  PROVE  Ems!col_ref(row, k) = IF k \in Ems!FixedColumns THEN row.column[k] ELSE Extra(row.data, k)
BY DEF Ems!col_ref, Extra

LEMMA KeysAre ==
  /\ Ems!Keys = Ems!FixedColumns \cup Ems!Extras
  /\ Ems!FixedColumns \cap Ems!Extras = {}
BY DEF Ems!Keys, Ems!FixedColumns, Ems!Extras

LEMMA DefaultType ==
  /\ Ems!Default \in [Ems!FixedColumns -> EntValues]
  /\ Null \in EntValues
<1>1. "pending" \in EntValues /\ "" \in EntValues /\ Null \in EntValues
  BY DEF EntValues
<1>2. Ems!FixedColumns = {"status", "prompt"}
  BY DEF Ems!FixedColumns
<1>3. DOMAIN Ems!Default = {"status", "prompt"}
  BY DEF Ems!Default
<1>4. Ems!Default["status"] = "pending" /\ Ems!Default["prompt"] = ""
  BY DEF Ems!Default
<1>5. Ems!Default = [k \in DOMAIN Ems!Default |-> Ems!Default[k]]
  BY DEF Ems!Default
<1>6. \A k \in DOMAIN Ems!Default : Ems!Default[k] \in EntValues
  BY <1>1, <1>3, <1>4
<1>7. \A f : f = [k \in DOMAIN f |-> f[k]] /\ (\A k \in DOMAIN f : f[k] \in EntValues)
            => f \in [DOMAIN f -> EntValues]
  OBVIOUS
<1>8. Ems!Default \in [DOMAIN Ems!Default -> EntValues]
  BY <1>5, <1>6, <1>7
<1> QED BY <1>1, <1>2, <1>3, <1>8

\* The row of a new entity stands for the object it is made of.
LEMMA NewRow ==
  ASSUME NEW kind \in Ems!Kinds, NEW obj, IsObject(obj), ServicesAssumption,
         NEW column \in [Ems!FixedColumns -> EntValues], NEW data \in EntData,
         \A k \in Ems!FixedColumns :
           column[k] = IF k \in DOMAIN obj THEN obj[k] ELSE Ems!Default[k]
  PROVE  LET row == [kind |-> kind, column |-> column, data |-> data]
             doc == [kind |-> kind,
                     val  |-> [k \in Ems!Keys |->
                                 IF k \in DOMAIN obj THEN obj[k]
                                 ELSE IF k \in Ems!FixedColumns THEN Ems!Default[k] ELSE Null]]
         IN  /\ row \in EntRows /\ doc \in EntDocs
             /\ (\A k \in Ems!Extras :
                   Extra(data, k) = IF k \in DOMAIN obj THEN obj[k] ELSE Null)
                => RowStandsFor(row, doc)
<1> DEFINE row == [kind |-> kind, column |-> column, data |-> data]
           val == [k \in Ems!Keys |-> IF k \in DOMAIN obj THEN obj[k]
                                      ELSE IF k \in Ems!FixedColumns THEN Ems!Default[k] ELSE Null]
           doc == [kind |-> kind, val |-> val]
<1>2. row \in EntRows
  BY DEF EntRows
<1>3. val \in [Ems!Keys -> EntValues]
  <2> SUFFICES ASSUME NEW k \in Ems!Keys PROVE val[k] \in EntValues
    OBVIOUS
  <2>1. CASE k \in DOMAIN obj
    BY <2>1 DEF IsObject
  <2>2. CASE k \notin DOMAIN obj
    BY <2>2, DefaultType
  <2> QED BY <2>1, <2>2
<1>4. doc \in EntDocs
  BY <1>3 DEF EntDocs
<1>6. row # None /\ doc # None
  BY <1>2, <1>4, ServicesAssumption DEF ServicesAssumption
<1>7. ASSUME \A k \in Ems!Extras : Extra(data, k) = IF k \in DOMAIN obj THEN obj[k] ELSE Null
      PROVE  RowStandsFor(row, doc)
  <2>1. row.kind = doc.kind /\ row.column = column /\ row.data = data /\ doc.val = val
    OBVIOUS
  <2>2. ASSUME NEW k \in Ems!Keys PROVE Ems!col_ref(row, k) = doc.val[k]
    <3>1. val[k] = IF k \in DOMAIN obj THEN obj[k]
                   ELSE IF k \in Ems!FixedColumns THEN Ems!Default[k] ELSE Null
      OBVIOUS
    <3> HIDE DEF row, doc, val
    <3>2. CASE k \in Ems!FixedColumns
      BY <2>1, <3>1, <3>2, ColRef
    <3>3. CASE k \in Ems!Extras /\ k \notin Ems!FixedColumns
      BY <2>1, <3>1, <3>3, <1>7, ColRef
    <3> QED BY <3>2, <3>3, KeysAre
  <2> QED BY <2>1, <2>2, <1>6 DEF RowStandsFor
<1> QED BY <1>2, <1>4, <1>7

\* A row into which an object is merged stands for the object that has it merged.
LEMMA MergedRow ==
  ASSUME NEW old \in EntRows, NEW was \in EntDocs, NEW obj, IsObject(obj), ServicesAssumption,
         NEW data \in EntData
  PROVE  LET row == [kind |-> old.kind, column |-> Ems!Merged(old.column, obj), data |-> data]
             doc == [was EXCEPT !.val = Ems!Merged(@, obj)]
         IN  /\ row \in EntRows /\ doc \in EntDocs
             /\ /\ RowStandsFor(old, was)
                /\ \A k \in Ems!Extras :
                     Extra(data, k) = IF k \in DOMAIN obj THEN obj[k] ELSE Extra(old.data, k)
                => RowStandsFor(row, doc)
<1> DEFINE column == Ems!Merged(old.column, obj)
           row == [kind |-> old.kind, column |-> column, data |-> data]
           val == Ems!Merged(was.val, obj)
           doc == [was EXCEPT !.val = val]
<1>1. old.kind \in Ems!Kinds /\ old.column \in [Ems!FixedColumns -> EntValues]
  BY DEF EntRows
<1>2. was.kind \in Ems!Kinds /\ was.val \in [Ems!Keys -> EntValues]
  BY DEF EntDocs
<1>3. /\ column \in [Ems!FixedColumns -> EntValues]
      /\ \A k \in Ems!FixedColumns :
           column[k] = IF k \in DOMAIN obj THEN obj[k] ELSE old.column[k]
  BY <1>1, MergedType
<1>4. /\ val \in [Ems!Keys -> EntValues]
      /\ \A k \in Ems!Keys : val[k] = IF k \in DOMAIN obj THEN obj[k] ELSE was.val[k]
  BY <1>2, MergedType
<1>5. row \in EntRows
  BY <1>1, <1>3 DEF EntRows
<1>6. doc = [kind |-> was.kind, val |-> val] /\ doc \in EntDocs
  BY <1>2, <1>4 DEF EntDocs
<1>7. row # None /\ doc # None /\ old # None
  BY <1>5, <1>6, ServicesAssumption DEF ServicesAssumption
<1>8. ASSUME RowStandsFor(old, was),
             \A k \in Ems!Extras :
               Extra(data, k) = IF k \in DOMAIN obj THEN obj[k] ELSE Extra(old.data, k)
      PROVE  RowStandsFor(row, doc)
  <2>1. old.kind = was.kind /\ \A k \in Ems!Keys : Ems!col_ref(old, k) = was.val[k]
    BY <1>7, <1>8 DEF RowStandsFor
  <2>2. /\ row.kind = old.kind /\ row.column = column /\ row.data = data
        /\ doc.kind = was.kind /\ doc.val = val
    BY <1>6
  <2>3. ASSUME NEW k \in Ems!Keys PROVE Ems!col_ref(row, k) = doc.val[k]
    <3> HIDE DEF row, doc, column, val
    <3>1. Ems!col_ref(old, k) = was.val[k] /\ val[k] = IF k \in DOMAIN obj THEN obj[k] ELSE was.val[k]
      BY <2>1, <1>4
    <3>2. CASE k \in Ems!FixedColumns
      BY <3>1, <3>2, <2>2, <1>3, ColRef
    <3>3. CASE k \in Ems!Extras /\ k \notin Ems!FixedColumns
      BY <3>1, <3>3, <2>2, <1>8, ColRef
    <3> QED BY <3>2, <3>3, KeysAre
  <2> QED BY <2>1, <2>2, <2>3, <1>7 DEF RowStandsFor
<1> QED BY <1>5, <1>6, <1>8

LEMMA InsertKeeps ==
  ASSUME EntInv, ServicesAssumption, entVersion = 2, UNCHANGED <<entLegacy, entVersion>>,
         NEW i \in Ids, NEW kind \in Ems!Kinds, NEW obj, IsObject(obj),
         Ems!InsertRow(i, kind, obj)
  PROVE  EntInv'
<1> DEFINE column == Ems!Merged(Ems!Default, obj)
           data == IF "data" \in DOMAIN obj THEN Ems!Text
                   ELSE Ems!Restrict(obj, DOMAIN obj \cap Ems!Extras)
           row == [kind |-> kind, column |-> column, data |-> data]
           doc == [kind |-> kind,
                   val  |-> [k \in Ems!Keys |->
                               IF k \in DOMAIN obj THEN obj[k]
                               ELSE IF k \in Ems!FixedColumns THEN Ems!Default[k] ELSE Null]]
<1>1. /\ entTable' = [entTable EXCEPT ![i] = row] /\ entDoc' = [entDoc EXCEPT ![i] = doc]
      /\ entRaw' = IF "data" \in DOMAIN obj THEN entRaw \cup {i} ELSE entRaw
  BY DEF Ems!InsertRow
<1>2. /\ column \in [Ems!FixedColumns -> EntValues]
      /\ \A k \in Ems!FixedColumns :
           column[k] = IF k \in DOMAIN obj THEN obj[k] ELSE Ems!Default[k]
  <2>1. Ems!Default \in [Ems!FixedColumns -> EntValues]
    BY DefaultType
  <2> QED BY <2>1, MergedType
<1>3. /\ data \in EntData
      /\ "data" \notin DOMAIN obj =>
           \A k \in Ems!Extras : Extra(data, k) = IF k \in DOMAIN obj THEN obj[k] ELSE Null
  <2>1. CASE "data" \in DOMAIN obj
    BY <2>1 DEF EntData
  <2>2. CASE "data" \notin DOMAIN obj
    <3> DEFINE K == DOMAIN obj \cap Ems!Extras
    <3>1. data = [k \in K |-> obj[k]]
      BY <2>2 DEF Ems!Restrict
    <3>2. K \in SUBSET Ems!Extras /\ data \in [K -> EntValues]
      BY <3>1 DEF IsObject
    <3>3. data \in EntData
      BY <3>2 DEF EntData
    <3>4. \A k \in Ems!Extras : Extra(data, k) = IF k \in DOMAIN obj THEN obj[k] ELSE Null
      BY <3>1 DEF Extra
    <3> QED BY <3>3, <3>4
  <2> QED BY <2>1, <2>2
<1>4. /\ row \in EntRows /\ doc \in EntDocs
      /\ "data" \notin DOMAIN obj => RowStandsFor(row, doc)
  <2> HIDE DEF column, data
  <2> QED BY <1>2, <1>3, NewRow
<1> HIDE DEF column, data, row, doc
<1>5. row # None /\ doc # None
  BY <1>4, ServicesAssumption DEF ServicesAssumption
<1>6. EntTyped'
  BY <1>1, <1>4, <1>5 DEF EntInv, EntTyped
<1>7. Migration'
  BY DEF EntInv, Migration
<1>8. Documented'
  BY <1>1, <1>4 DEF EntInv, EntTyped, Documented
<1> QED BY <1>6, <1>7, <1>8 DEF EntInv

LEMMA UpdateKeeps ==
  ASSUME EntInv, ServicesAssumption, entVersion = 2, UNCHANGED <<entLegacy, entVersion>>,
         NEW rows \in SUBSET {i \in Ids : entTable[i] # None}, NEW obj, IsObject(obj),
         Ems!UpdateRows(rows, obj)
  PROVE  EntInv'
<1> DEFINE raw == "data" \in DOMAIN obj /\ DOMAIN obj \cap Ems!Extras = {}
           data(i) == IF raw THEN Ems!Text ELSE Ems!NewData(entTable[i].data, obj)
           row(i) == [kind |-> entTable[i].kind, column |-> Ems!Merged(entTable[i].column, obj),
                      data |-> data(i)]
           doc(i) == [entDoc[i] EXCEPT !.val = Ems!Merged(@, obj)]
<1>1. /\ entTable' = [i \in Ids |-> IF i \notin rows THEN entTable[i] ELSE row(i)]
      /\ entDoc' = [i \in Ids |-> IF i \notin rows THEN entDoc[i] ELSE doc(i)]
      /\ entRaw' = IF raw THEN entRaw \cup rows ELSE entRaw
  BY DEF Ems!UpdateRows
<1>2. ASSUME NEW i \in rows
      PROVE  /\ row(i) \in EntRows /\ doc(i) \in EntDocs
             /\ ~raw /\ i \notin entRaw => RowStandsFor(row(i), doc(i))
  <2>1. entTable[i] \in EntRows /\ entDoc[i] \in EntDocs
    BY DEF EntInv, EntTyped
  <2>2. entTable[i].data \in EntData
    BY <2>1 DEF EntRows
  <2>3. /\ data(i) \in EntData
        /\ ~raw => \A k \in Ems!Extras :
             Extra(data(i), k) = IF k \in DOMAIN obj THEN obj[k] ELSE Extra(entTable[i].data, k)
    <3>1. CASE raw
      BY <3>1 DEF EntData
    <3>2. CASE ~raw
      BY <3>2, <2>2, NewDataType
    <3> QED BY <3>1, <3>2
  <2>4. i \notin entRaw => RowStandsFor(entTable[i], entDoc[i])
    BY DEF EntInv, Documented
  <2> HIDE DEF data, raw
  <2> QED BY <2>1, <2>3, <2>4, MergedRow
<1> HIDE DEF raw, row, doc
<1>3. \A i \in rows : row(i) # None /\ doc(i) # None
  BY <1>2, ServicesAssumption DEF ServicesAssumption
<1>4. EntTyped'
  <2>1. entTable' \in [Ids -> EntRows \cup {None}] /\ entDoc' \in [Ids -> EntDocs \cup {None}]
    BY <1>1, <1>2 DEF EntInv, EntTyped
  <2>2. \A i \in Ids : entTable'[i] = None <=> entDoc'[i] = None
    BY <1>1, <1>3 DEF EntInv, EntTyped
  <2> QED BY <2>1, <2>2 DEF EntInv, EntTyped
<1>5. Migration'
  BY DEF EntInv, Migration
<1>6. Documented'
  BY <1>1, <1>2 DEF EntInv, Documented
<1> QED BY <1>4, <1>5, <1>6 DEF EntInv

LEMMA CopiedKeeps ==
  ASSUME EntInv, ServicesAssumption, entVersion = 1, entVersion' = 2, entTable' = Ems!Copied,
         entLegacy' = [i \in Ids |-> None], entRaw' = entRaw,
         entDoc' = [i \in Ids |->
           IF entLegacy[i] = None THEN None
           ELSE [kind |-> entLegacy[i],
                 val  |-> [k \in Ems!Keys |-> IF k \in Ems!FixedColumns THEN Ems!Default[k] ELSE Null]]]
  PROVE  /\ EntInv'
         /\ \A i \in Ids : entLegacy[i] # None => entTable'[i] # None
<1> DEFINE row(i) == [kind |-> entLegacy[i], column |-> Ems!Default, data |-> <<>>]
           val == [k \in Ems!Keys |-> IF k \in Ems!FixedColumns THEN Ems!Default[k] ELSE Null]
           doc(i) == [kind |-> entLegacy[i], val |-> val]
<1>1. <<>> \in EntData /\ \A k \in Ems!Extras : Extra(<<>>, k) = Null
  <2>1. DOMAIN <<>> = {} /\ <<>> \in [{} -> EntValues]
    OBVIOUS
  <2> QED BY <2>1 DEF EntData, Extra
<1>2. ASSUME NEW i \in Ids, entLegacy[i] # None
      PROVE  row(i) \in EntRows /\ doc(i) \in EntDocs /\ RowStandsFor(row(i), doc(i))
  <2>1. entLegacy[i] \in Ems!Kinds
    BY <1>2 DEF EntInv, EntTyped
  <2>2. Ems!Default \in [Ems!FixedColumns -> EntValues] /\ val \in [Ems!Keys -> EntValues]
    BY DefaultType
  <2>3. row(i) \in EntRows /\ doc(i) \in EntDocs
    BY <1>1, <2>1, <2>2 DEF EntRows, EntDocs
  <2>4. row(i) # None /\ doc(i) # None
    BY <2>3, ServicesAssumption DEF ServicesAssumption
  <2>5. ASSUME NEW k \in Ems!Keys PROVE Ems!col_ref(row(i), k) = doc(i).val[k]
    <3>1. /\ row(i).column = Ems!Default /\ row(i).data = <<>>
          /\ doc(i).val[k] = IF k \in Ems!FixedColumns THEN Ems!Default[k] ELSE Null
      OBVIOUS
    <3> HIDE DEF row, doc
    <3> QED BY <3>1, <1>1, ColRef, KeysAre
  <2> QED BY <2>3, <2>4, <2>5 DEF RowStandsFor
<1>3. entTable' = [i \in Ids |-> IF entLegacy[i] = None THEN None ELSE row(i)]
  BY DEF Ems!Copied
<1>4. entDoc' = [i \in Ids |-> IF entLegacy[i] = None THEN None ELSE doc(i)]
  OBVIOUS
<1> HIDE DEF row, doc
<1>5. \A i \in Ids : entLegacy[i] # None => row(i) # None /\ doc(i) # None
  BY <1>2, ServicesAssumption DEF ServicesAssumption
<1>6. EntTyped'
  <2>1. \A i \in Ids : entLegacy[i] # None => row(i) \in EntRows /\ doc(i) \in EntDocs
    BY <1>2
  <2>2. entTable' \in [Ids -> EntRows \cup {None}]
    BY <1>3, <2>1
  <2>3. entDoc' \in [Ids -> EntDocs \cup {None}]
    BY <1>4, <2>1
  <2>4. \A i \in Ids : entTable'[i] = None <=> entDoc'[i] = None
    BY <1>3, <1>4, <1>5
  <2> QED BY <2>2, <2>3, <2>4 DEF EntTyped
<1>7. Migration'
  BY DEF Migration
<1>8. Documented'
  <2> SUFFICES ASSUME NEW i \in Ids PROVE RowStandsFor(entTable'[i], entDoc'[i])
    BY DEF Documented
  <2>1. CASE entLegacy[i] = None
    BY <2>1, <1>3, <1>4 DEF RowStandsFor
  <2>2. CASE entLegacy[i] # None
    BY <2>2, <1>2, <1>3, <1>4
  <2> QED BY <2>1, <2>2
<1> QED BY <1>3, <1>5, <1>6, <1>7, <1>8 DEF EntInv

LEMMA DeleteKeeps ==
  ASSUME EntInv, entVersion = 2, Ems!Delete
  PROVE  EntInv'
<1>1. PICK i \in Ids : /\ entTable' = [entTable EXCEPT ![i] = None]
                       /\ entDoc' = [entDoc EXCEPT ![i] = None]
                       /\ entRaw' = entRaw \ {i}
  BY DEF Ems!Delete
<1>2. UNCHANGED <<entLegacy, entVersion>>
  BY DEF Ems!Delete
<1>3. EntTyped'
  BY <1>1, <1>2 DEF EntInv, EntTyped
<1>4. Migration'
  BY <1>2 DEF EntInv, Migration
<1>5. Documented'
  <2> SUFFICES ASSUME NEW j \in Ids, j \notin entRaw' PROVE RowStandsFor(entTable'[j], entDoc'[j])
    BY DEF Documented
  <2>1. CASE j = i
    BY <2>1, <1>1 DEF EntInv, EntTyped, RowStandsFor
  <2>2. CASE j # i
    BY <2>2, <1>1 DEF EntInv, EntTyped, Documented
  <2> QED BY <2>1, <2>2
<1> QED BY <1>3, <1>4, <1>5 DEF EntInv

\* A row that is selected is in the table.
LEMMA SelectedAre ==
  \A kind, where : /\ Ems!Rows(kind) \subseteq {i \in Ids : entTable[i] # None}
                   /\ Ems!Selected(kind, where) \subseteq {i \in Ids : entTable[i] # None}
BY DEF Ems!Selected, Ems!Rows

LEMMA EntStep ==
  ASSUME EntInv, ServicesAssumption, [Ems!EntNext]_entVars
  PROVE  EntInv'
<1>1. CASE Ems!Migrate
  <2>1. CASE entVersion' = 2 /\ entTable' = Ems!Copied
    <3>1. /\ entVersion = 1 /\ entLegacy' = [i \in Ids |-> None] /\ entRaw' = entRaw
          /\ entDoc' = [i \in Ids |->
               IF entLegacy[i] = None THEN None
               ELSE [kind |-> entLegacy[i],
                     val  |-> [k \in Ems!Keys |-> IF k \in Ems!FixedColumns THEN Ems!Default[k]
                                                  ELSE Null]]]
      BY <1>1, <2>1 DEF Ems!Migrate
    <3> QED BY <2>1, <3>1, CopiedKeeps
  <2>2. CASE entVersion' = 1 /\ UNCHANGED <<entTable, entLegacy, entVersion>>
    <3>1. entDoc' = entDoc /\ entRaw' = entRaw
      BY <1>1, <2>2 DEF Ems!Migrate
    <3> QED BY <2>2, <3>1 DEF EntInv, EntTyped, Migration, Documented
  <2> QED BY <1>1, <2>1, <2>2 DEF Ems!Migrate
<1>2. CASE UNCHANGED <<entTable, entLegacy, entVersion, entDoc, entRaw>>
  BY <1>2 DEF EntInv, EntTyped, Migration, Documented
<1>3. CASE Ems!Crash
  BY <1>2, <1>3 DEF Ems!Crash
<1>4. CASE Ems!Insert
  <2>1. PICK i \in Ids, kind \in Ems!Kinds, obj \in Ems!Objects : Ems!InsertRow(i, kind, obj)
    BY <1>4 DEF Ems!Insert
  <2>2. entVersion = 2 /\ UNCHANGED <<entLegacy, entVersion>>
    BY <1>4 DEF Ems!Insert, Ems!Writes
  <2> QED BY <2>1, <2>2, InsertKeeps, ObjectsAre
<1>5. CASE Ems!WantCreate
  <2>1. PICK i \in Ids, v \in Values :
          Ems!InsertRow(i, "want", [prompt |-> v, context |-> v])
    BY <1>5 DEF Ems!WantCreate
  <2>2. entVersion = 2 /\ UNCHANGED <<entLegacy, entVersion>> /\ "want" \in Ems!Kinds
    BY <1>5 DEF Ems!WantCreate, Ems!Writes, Ems!Kinds
  <2>3. IsObject([prompt |-> v, context |-> v])
    BY WantIsObject
  <2> QED BY <2>1, <2>2, <2>3, InsertKeeps
<1>6. CASE Ems!Update
  <2>1. PICK kind \in Ems!Kinds, c \in Ems!Conditions, obj \in Ems!Objects :
          Ems!UpdateRows(Ems!Selected(kind, {c}), obj)
    BY <1>6 DEF Ems!Update
  <2>2. entVersion = 2 /\ UNCHANGED <<entLegacy, entVersion>>
    BY <1>6 DEF Ems!Update, Ems!Writes
  <2> QED BY <2>1, <2>2, SelectedAre, UpdateKeeps, ObjectsAre
<1>7. CASE Ems!Delete
  BY <1>7, DeleteKeeps DEF Ems!Delete, Ems!Writes
<1>8. CASE Ems!Claim
  <2> DEFINE where == {[key |-> "status", op |-> "eq", val |-> "pending"],
                       [key |-> "reply_to", op |-> "eq", val |-> Null]}
  <2>1. PICK i \in Ems!Selected("need", where) :
          Ems!UpdateRows({i}, [status |-> "running"])
    BY <1>8 DEF Ems!Claim
  <2>2. entVersion = 2 /\ UNCHANGED <<entLegacy, entVersion>>
    BY <1>8 DEF Ems!Claim, Ems!Writes
  <2>3. {i} \in SUBSET {j \in Ids : entTable[j] # None}
    BY <2>1, SelectedAre
  <2> QED BY <2>1, <2>2, <2>3, UpdateKeeps, StatusIsObject
<1>9. CASE Ems!WantRemove
  <2>1. PICK i \in Ids : Ems!Pending(i) /\ Ems!UpdateRows({i}, [status |-> "removed"])
    BY <1>9 DEF Ems!WantRemove
  <2>2. entVersion = 2 /\ UNCHANGED <<entLegacy, entVersion>>
    BY <1>9 DEF Ems!WantRemove, Ems!Writes
  <2>3. {i} \in SUBSET {j \in Ids : entTable[j] # None}
    BY <2>1, SelectedAre DEF Ems!Pending
  <2> QED BY <2>1, <2>2, <2>3, UpdateKeeps, StatusIsObject
<1>10. CASE Ems!WantPromote
  <2>1. CASE UNCHANGED <<entTable, entLegacy, entVersion, entTx, entDoc, entRaw, entCount>>
    BY <2>1, <1>2
  <2>2. CASE \E i \in entPromoting :
               Ems!UpdateRows(Ems!Rows("want") \cap {i}, [status |-> "promoted"])
    <3>1. PICK i \in entPromoting :
            Ems!UpdateRows(Ems!Rows("want") \cap {i}, [status |-> "promoted"])
      BY <2>2
    <3>2. entVersion = 2 /\ UNCHANGED <<entLegacy, entVersion>>
      BY <1>10 DEF Ems!WantPromote, Ems!Writes
    <3>3. Ems!Rows("want") \cap {i} \in SUBSET {j \in Ids : entTable[j] # None}
      BY SelectedAre
    <3> QED BY <3>1, <3>2, <3>3, UpdateKeeps, StatusIsObject
  <2> QED BY <1>10, <2>1, <2>2 DEF Ems!WantPromote
<1>11. CASE UNCHANGED entVars
  BY <1>2, <1>11 DEF entVars
<1> QED
  BY <1>1, <1>3, <1>4, <1>5, <1>6, <1>7, <1>8, <1>9, <1>10, <1>11 DEF Ems!EntNext

LEMMA EntInvariant == ServicesSpec => []EntInv
<1>1. ServicesInit => EntInv
  <2> SUFFICES ASSUME ServicesInit PROVE EntInv
    OBVIOUS
  <2>1. /\ entTable = [i \in Ids |-> None] /\ entDoc = [i \in Ids |-> None] /\ entVersion = 1
        /\ entLegacy \in [Ids -> Ems!Kinds \cup {None}]
    BY DEF ServicesInit, Ems!EntInit
  <2> QED BY <2>1 DEF EntInv, EntTyped, Migration, Documented, RowStandsFor
<1>2. EntInv /\ [ServicesNext]_<<which, vars, otherVars>> => EntInv'
  BY PartSteps, EntStep, ServicesAssumption
<1> QED BY <1>1, <1>2, PTL DEF ServicesSpec

\* What a select gives back, for every condition and through every sequence of
\* inserts, updates, claims and promotions, is what a store of whole JSON objects
\* would: columns and extras are asked for alike, and null and a missing key are
\* the same (ems/service.rs, ems/where_builder.rs).
THEOREM StoreAnswersOfDocuments == ServicesSpec => []AnswersAreOfDocuments
<1>1. EntInv => AnswersAreOfDocuments
  <2> SUFFICES ASSUME EntInv PROVE Ems!AnswersAreOfDocuments
    BY DEF AnswersAreOfDocuments
  <2>1. ASSUME NEW i \in Ids \ entRaw
        PROVE  /\ (entTable[i] = None) = (entDoc[i] = None)
               /\ entTable[i] # None => Ems!unpack_row(entTable[i]) = entDoc[i].val
    <3>1. RowStandsFor(entTable[i], entDoc[i])
      BY DEF EntInv, Documented
    <3>2. CASE entTable[i] # None
      <4>1. entDoc[i] \in EntDocs
        BY <3>2 DEF EntInv, EntTyped
      <4>2. entDoc[i].val \in [Ems!Keys -> EntValues]
        BY <4>1 DEF EntDocs
      <4>3. entDoc[i].val = [k \in Ems!Keys |-> entDoc[i].val[k]]
        BY <4>2
      <4> QED BY <3>1, <3>2, <4>3 DEF RowStandsFor, Ems!unpack_row
    <3> QED BY <3>1, <3>2 DEF RowStandsFor
  <2>2. ASSUME NEW kind \in Ems!Kinds, NEW c \in Ems!Conditions
        PROVE  Ems!Selected(kind, {c}) \ entRaw =
                 {i \in Ids \ entRaw : /\ entDoc[i] # None /\ entDoc[i].kind = kind
                                       /\ Ems!Compare(c, entDoc[i].val[c.key])}
    <3>1. c.key \in Ems!Keys
      BY DEF Ems!Conditions
    <3>2. ASSUME NEW i \in Ids \ entRaw
          PROVE  i \in Ems!Selected(kind, {c}) <=>
                   /\ entDoc[i] # None /\ entDoc[i].kind = kind
                   /\ Ems!Compare(c, entDoc[i].val[c.key])
      <4>1. RowStandsFor(entTable[i], entDoc[i])
        BY DEF EntInv, Documented
      <4>2. i \in Ems!Selected(kind, {c}) <=>
              /\ entTable[i] # None /\ entTable[i].kind = kind
              /\ Ems!Compare(c, Ems!col_ref(entTable[i], c.key))
        BY DEF Ems!Selected, Ems!Rows
      <4> QED BY <3>1, <4>1, <4>2 DEF RowStandsFor
    <3>3. Ems!Selected(kind, {c}) \subseteq Ids
      BY DEF Ems!Selected, Ems!Rows
    <3> QED BY <3>2, <3>3
  <2> QED BY <2>1, <2>2 DEF Ems!AnswersAreOfDocuments
<1> QED BY <1>1, EntInvariant, PTL

\* Through crashes at any statement of the migration, an entity of the old tables
\* is in them or in the new one, and never in both (ems/migrations/mod.rs).
THEOREM StoreMigratesOnce == ServicesSpec => MigratesOnce
<1> DEFINE Once == \A i \in Ids : entLegacy[i] # None => (entLegacy'[i] # None) # (entTable'[i] # None)
<1>1. EntInv /\ [ServicesNext]_<<which, vars, otherVars>> => [Once]_(Ems!entVars)
  <2> SUFFICES ASSUME EntInv, [Ems!EntNext]_entVars, NEW i \in Ids, entLegacy[i] # None,
                      entVars' # entVars
               PROVE  (entLegacy'[i] # None) # (entTable'[i] # None)
    BY PartSteps DEF entVars, Ems!entVars
  <2>1. entVersion = 1 /\ entTable[i] = None
    BY DEF EntInv, Migration
  <2>2. CASE UNCHANGED <<entTable, entLegacy>>
    BY <2>1, <2>2
  <2>3. CASE entVersion' = 2 /\ Ems!Migrate
    <3>1. /\ entTable' = Ems!Copied /\ entLegacy' = [j \in Ids |-> None] /\ entRaw' = entRaw
          /\ entDoc' = [j \in Ids |->
               IF entLegacy[j] = None THEN None
               ELSE [kind |-> entLegacy[j],
                     val  |-> [k \in Ems!Keys |-> IF k \in Ems!FixedColumns THEN Ems!Default[k]
                                                  ELSE Null]]]
      BY <2>1, <2>3 DEF Ems!Migrate
    <3>2. entTable'[i] # None
      BY <2>1, <2>3, <3>1, CopiedKeeps, ServicesAssumption
    <3> QED BY <3>1, <3>2
  <2>4. ~Ems!Writes /\ entVersion # 2
    BY <2>1 DEF Ems!Writes
  <2> QED
    BY <2>1, <2>2, <2>3, <2>4
       DEF Ems!EntNext, Ems!Migrate, Ems!Crash, Ems!Insert, Ems!Update, Ems!Delete, Ems!Claim,
           Ems!WantCreate, Ems!WantRemove, Ems!WantPromote
<1> QED BY <1>1, EntInvariant, PTL DEF ServicesSpec, MigratesOnce, Ems!MigratesOnce

-----------------------------------------------------------------------------
(* A call of a model.                                                      *)

Signals == [type : {"begin", "retry", "done", "error"}]
Notices == {f \in Signals : f.type \in {"begin", "retry", "error"}}

LlmFrames == Llm!Blocks \cup Signals

LlmTyped ==
  /\ frames \in Seq(LlmFrames) /\ tosend \in Seq(Llm!Blocks)
  /\ DOMAIN heard = {"text", "calls", "end"}
  /\ heard.text \in Seq(Llm!Blocks) /\ heard.calls \in Seq(Llm!Blocks)

\* Before an attempt succeeds there is nothing to hear but notices.
NothingYet ==
  /\ heard.text = <<>> /\ heard.calls = <<>> /\ tosend = <<>>
  /\ frames \in Seq(Notices) /\ heard.end # "done"

\* Afterwards what is heard, what is in the stream and what is still to be sent
\* are the answer.
Whole ==
  /\ heard.text \o Sift(frames \o tosend, Llm!TextBlocks) = answer.text
  /\ heard.calls \o Sift(frames \o tosend, Llm!Answerable) = Sift(answer.calls, Llm!Answerable)

\* The end of the stream is its end: only notices come after it.
EndIsLast ==
  /\ stage = "send" => \A i \in DOMAIN frames : frames[i].type # "done"
  /\ stage = "send" => heard.end # "done"
  /\ stage = "end" => tosend = <<>>
  /\ \A i \in DOMAIN frames : frames[i].type = "done" =>
       \A j \in DOMAIN frames : j > i => frames[j] \in Notices
  /\ heard.end = "done" => frames \in Seq(Notices)

LlmInv ==
  /\ LlmTyped
  /\ verdict # "ok" => NothingYet /\ stage # "send"
  /\ verdict = "ok" => Whole /\ EndIsLast /\ stage \in {"send", "end"}

\* A sequence over a set is one over a larger set.
LEMMA SeqOver ==
  ASSUME NEW S, NEW T, S \subseteq T, NEW s \in Seq(S)
  PROVE  s \in Seq(T)
<1>1. \A i \in 1..Len(s) : s[i] \in T
  OBVIOUS
<1> QED BY <1>1

LEMMA AppendConcat ==
  ASSUME NEW S, NEW s \in Seq(S), NEW e \in S, NEW t \in Seq(S)
  PROVE  Append(s, e) \o t = s \o (<<e>> \o t)
OBVIOUS

LEMMA LlmSift == \A s, S : Llm!Sift(s, S) = Sift(s, S)
BY DEF Llm!Sift, Llm!Sifted, Sift, Sifted

LEMMA BlockTypes ==
  /\ \A b \in Llm!Blocks : b.type \in {"text", "call"}
  /\ Llm!TextBlocks \subseteq Llm!Blocks /\ Llm!Answerable \subseteq Llm!Blocks \ Llm!TextBlocks
BY ServicesAssumption DEF ServicesAssumption, Llm!TextBlocks, Llm!Answerable

\* A signal is no block.
LEMMA SignalTypes ==
  ASSUME NEW k \in {"begin", "retry", "done", "error"}
  PROVE  /\ [type |-> k] \in Signals
         /\ [type |-> k] \notin Llm!Blocks
         /\ k # "done" => [type |-> k] \in Notices
<1>1. [type |-> k].type = k
  OBVIOUS
<1>2. [type |-> k] \notin Llm!Blocks
  BY <1>1, BlockTypes
<1> QED BY <1>2 DEF Signals, Notices

LEMMA NoticesAreFrames == Notices \subseteq LlmFrames /\ \A f \in Notices : f.type # "done"
BY DEF Notices, LlmFrames

\* A step of an attempt that has not succeeded and does not.
LEMMA LlmWaits ==
  ASSUME LlmInv, verdict # "ok", verdict' # "ok", stage' # "send", UNCHANGED <<tosend, heard>>,
         \/ frames' = frames
         \/ \E f \in Notices : frames' = Append(frames, f)
  PROVE  LlmInv'
<1>1. NothingYet /\ LlmTyped
  BY DEF LlmInv
<1>2. frames' \in Seq(Notices)
  <2>1. frames \in Seq(Notices)
    BY <1>1 DEF NothingYet
  <2> QED BY <2>1
<1>3. frames' \in Seq(LlmFrames)
  BY <1>2, NoticesAreFrames, SeqOver
<1> QED BY <1>1, <1>2, <1>3 DEF LlmInv, LlmTyped, NothingYet

LEMMA BeginKeeps ==
  ASSUME LlmInv, Llm!Begin \/ Llm!Failed
  PROVE  LlmInv'
<1>1. stage \in {"check", "failed"} /\ stage' # "send" /\ UNCHANGED <<verdict, tosend, heard>>
  BY DEF Llm!Begin, Llm!Failed
<1>2. verdict # "ok"
  BY <1>1 DEF LlmInv
<1>3. frames' = frames \/ \E f \in Notices : frames' = Append(frames, f)
  BY SignalTypes DEF Llm!Begin, Llm!Failed
<1> QED BY <1>1, <1>2, <1>3, LlmWaits

LEMMA TriesKeep ==
  ASSUME LlmInv, Llm!Attempt \/ Llm!Redirect \/ Llm!Interrupted \/ Llm!Backoff
  PROVE  LlmInv'
<1>1. /\ stage \in {"attempt", "http", "backoff"} /\ stage' # "send"
      /\ UNCHANGED <<frames, tosend, heard>> /\ verdict' \in {verdict, "cancelled"}
  BY DEF Llm!Attempt, Llm!Redirect, Llm!Interrupted, Llm!Backoff
<1>2. verdict # "ok" /\ verdict' # "ok"
  BY <1>1 DEF LlmInv
<1> QED BY <1>1, <1>2, LlmWaits

\* What a client makes of the blocks of an answer.
LEMMA ContentIsText ==
  ASSUME NEW blocks \in Answers
  PROVE  /\ Llm!Content(blocks) \in Seq(Llm!TextBlocks)
         /\ Llm!ToolCalls(blocks) \in Seq(Llm!Blocks \ Llm!TextBlocks)
<1>1. blocks \in Seq(Llm!Blocks)
  BY ServicesAssumption DEF ServicesAssumption
<1>2. /\ Sift(blocks, Llm!TextBlocks) \in Seq(Llm!Blocks \cap Llm!TextBlocks)
      /\ Sift(blocks, Llm!Blocks \ Llm!TextBlocks)
           \in Seq(Llm!Blocks \cap (Llm!Blocks \ Llm!TextBlocks))
  BY <1>1, SiftIn
<1>3. /\ Llm!Blocks \cap Llm!TextBlocks = Llm!TextBlocks
      /\ Llm!Blocks \cap (Llm!Blocks \ Llm!TextBlocks) = Llm!Blocks \ Llm!TextBlocks
  BY BlockTypes
<1> DEFINE texts == Sift(blocks, Llm!TextBlocks)
<1>4. texts \in Seq(Llm!TextBlocks)
  BY <1>2, <1>3
<1>5. Llm!Content(blocks) \in {texts, <<texts[Len(texts)]>>} /\ (texts = <<>> => Llm!Content(blocks) = texts)
  BY LlmSift DEF Llm!Content
<1>6. Llm!ToolCalls(blocks) \in Seq(Llm!Blocks \ Llm!TextBlocks)
  BY <1>2, <1>3, LlmSift DEF Llm!ToolCalls
<1> HIDE DEF texts
<1>7. texts # <<>> => texts[Len(texts)] \in Llm!TextBlocks
  BY <1>4
<1>8. texts # <<>> => <<texts[Len(texts)]>> \in Seq(Llm!TextBlocks)
  BY <1>7
<1>9. Llm!Content(blocks) \in Seq(Llm!TextBlocks)
  BY <1>4, <1>5, <1>8
<1> QED BY <1>6, <1>9

\* The texts and the calls of an answer, sent one after the other.
LEMMA AnswerSplits ==
  ASSUME NEW s \in Seq(Llm!TextBlocks), NEW t \in Seq(Llm!Blocks \ Llm!TextBlocks)
  PROVE  /\ Sift(s \o t, Llm!TextBlocks) = s
         /\ Sift(s \o t, Llm!Answerable) = Sift(t, Llm!Answerable)
<1>1. s \in Seq(Llm!Blocks) /\ t \in Seq(Llm!Blocks)
  BY BlockTypes, SeqOver
<1>2. /\ \A i \in 1..Len(s) : s[i] \in Llm!TextBlocks
      /\ \A i \in 1..Len(t) : t[i] \notin Llm!TextBlocks
  OBVIOUS
<1>3. \A i \in 1..Len(s) : s[i] \notin Llm!Answerable
  BY <1>2, BlockTypes
<1>4. /\ Sift(s, Llm!TextBlocks) = s /\ Sift(t, Llm!TextBlocks) = <<>>
      /\ Sift(s, Llm!Answerable) = <<>>
  BY <1>1, <1>2, <1>3, SiftAll, SiftNone
<1>5. \A S : Sift(s \o t, S) = Sift(s, S) \o Sift(t, S)
  BY <1>1, SiftConcat
<1>6. Sift(t, Llm!Answerable) \in Seq(Llm!Blocks \cap Llm!Answerable)
  BY <1>1, SiftIn
<1>7. s \o <<>> = s /\ <<>> \o Sift(t, Llm!Answerable) = Sift(t, Llm!Answerable)
  BY <1>6
<1> QED BY <1>4, <1>5, <1>7

LEMMA ResponseKeeps ==
  ASSUME LlmInv, Llm!Response
  PROVE  LlmInv'
<1>1. stage = "http" /\ verdict # "ok" /\ UNCHANGED <<frames, heard>>
  BY DEF Llm!Response, LlmInv
<1>2. CASE UNCHANGED tosend /\ \E kind \in Llm!Errors : Llm!Fail(kind)
  <2>1. verdict' # "ok" /\ stage' # "send"
    BY <1>1, <1>2 DEF Llm!Fail, Llm!Errors
  <2> QED BY <1>1, <1>2, <2>1, LlmWaits
<1>3. ASSUME NEW blocks \in Answers,
             answer' = [text |-> Llm!Content(blocks), calls |-> Llm!ToolCalls(blocks)],
             tosend' = Llm!Content(blocks) \o Llm!ToolCalls(blocks),
             verdict' = "ok", stage' = "send"
      PROVE  LlmInv'
  <2>1. NothingYet /\ LlmTyped
    BY <1>1 DEF LlmInv
  <2> DEFINE s == Llm!Content(blocks)
             t == Llm!ToolCalls(blocks)
  <2>2. s \in Seq(Llm!TextBlocks) /\ t \in Seq(Llm!Blocks \ Llm!TextBlocks)
    BY ContentIsText
  <2>3. /\ answer'.text = s /\ answer'.calls = t /\ tosend' = s \o t
    BY <1>3
  <2> HIDE DEF s, t
  <2>4. s \in Seq(Llm!Blocks) /\ t \in Seq(Llm!Blocks)
    BY <2>2, BlockTypes, SeqOver
  <2>5. tosend' \in Seq(Llm!Blocks) /\ frames \in Seq(LlmFrames) /\ Llm!Blocks \subseteq LlmFrames
    BY <2>1, <2>3, <2>4 DEF LlmTyped, LlmFrames
  <2>6. tosend' \in Seq(LlmFrames)
    BY <2>5, SeqOver
  <2>7. frames \in Seq(Notices) /\ \A i \in 1..Len(frames) : frames[i] \notin Llm!Blocks
    <3>1. frames \in Seq(Notices)
      BY <2>1 DEF NothingYet
    <3>2. ASSUME NEW i \in 1..Len(frames) PROVE frames[i] \notin Llm!Blocks
      <4>1. frames[i] \in Notices
        BY <3>1, <3>2
      <4>2. frames[i].type \in {"begin", "retry", "error"}
        BY <4>1 DEF Notices
      <4> QED BY <4>2, BlockTypes
    <3> QED BY <3>1, <3>2
  <2>8. Sift(frames, Llm!TextBlocks) = <<>> /\ Sift(frames, Llm!Answerable) = <<>>
    <3>1. /\ \A i \in 1..Len(frames) : frames[i] \notin Llm!TextBlocks
          /\ \A i \in 1..Len(frames) : frames[i] \notin Llm!Answerable
      BY <2>7, BlockTypes
    <3> QED BY <2>5, <3>1, SiftNone
  <2>9. /\ Sift(tosend', Llm!TextBlocks) = s
        /\ Sift(tosend', Llm!Answerable) = Sift(t, Llm!Answerable)
    BY <2>2, <2>3, AnswerSplits
  <2>10. /\ Sift(frames \o tosend', Llm!TextBlocks) = <<>> \o s
         /\ Sift(frames \o tosend', Llm!Answerable) = <<>> \o Sift(t, Llm!Answerable)
    <3>1. \A S : Sift(frames \o tosend', S) = Sift(frames, S) \o Sift(tosend', S)
      BY <2>5, <2>6, SiftConcat
    <3> QED BY <2>8, <2>9, <3>1
  <2>11. Sift(t, Llm!Answerable) \in Seq(Llm!Blocks \cap Llm!Answerable)
    BY <2>4, SiftIn
  <2>12. /\ <<>> \o (<<>> \o s) = s
         /\ <<>> \o (<<>> \o Sift(t, Llm!Answerable)) = Sift(t, Llm!Answerable)
    BY <2>4, <2>11
  <2>13. heard.text = <<>> /\ heard.calls = <<>> /\ heard.end # "done"
    BY <2>1 DEF NothingYet
  <2>14. Whole'
    BY <1>1, <2>3, <2>10, <2>12, <2>13 DEF Whole
  <2>15. EndIsLast'
    <3>1. ASSUME NEW i \in DOMAIN frames PROVE frames[i].type # "done"
      <4>1. frames[i] \in Notices
        BY <2>7
      <4> QED BY <4>1, NoticesAreFrames
    <3> QED BY <1>1, <1>3, <2>13, <3>1 DEF EndIsLast
  <2>16. LlmTyped'
    BY <1>1, <2>1, <2>5 DEF LlmTyped
  <2> QED BY <1>3, <2>14, <2>15, <2>16 DEF LlmInv
<1> QED BY <1>2, <1>3 DEF Llm!Response, Llm!Errors

\* A signal adds nothing to what is heard.
LEMMA SignalUnheard ==
  ASSUME LlmTyped, NEW f \in Signals, f \notin Llm!Blocks, NEW S \in SUBSET Llm!Blocks
  PROVE  Sift(Append(frames, f) \o tosend, S) = Sift(frames \o tosend, S)
<1>1. frames \in Seq(LlmFrames) /\ tosend \in Seq(LlmFrames) /\ f \in LlmFrames
  BY SeqOver DEF LlmTyped, LlmFrames
<1>2. Append(frames, f) \in Seq(LlmFrames)
  BY <1>1
<1>3. Sift(Append(frames, f), S) = Sift(frames, S)
  BY <1>1, SiftAppend
<1>4. Sift(Append(frames, f) \o tosend, S) = Sift(Append(frames, f), S) \o Sift(tosend, S)
  <2> DEFINE g == Append(frames, f)
  <2> HIDE DEF g
  <2>1. g \in Seq(LlmFrames)
    BY <1>2 DEF g
  <2>2. Sift(g \o tosend, S) = Sift(g, S) \o Sift(tosend, S)
    BY <1>1, <2>1, SiftConcat
  <2> QED BY <2>2 DEF g
<1>5. Sift(frames \o tosend, S) = Sift(frames, S) \o Sift(tosend, S)
  BY <1>1, SiftConcat
<1> QED BY <1>3, <1>4, <1>5

\* What is said of the frames is said of those before a new one.
LEMMA FramesBefore ==
  ASSUME LlmTyped, NEW f
  PROVE  /\ DOMAIN Append(frames, f) = 1..(Len(frames) + 1)
         /\ DOMAIN frames = 1..Len(frames) /\ Len(frames) \in Nat
         /\ \A i \in 1..Len(frames) : Append(frames, f)[i] = frames[i]
         /\ Append(frames, f)[Len(frames) + 1] = f
<1>1. frames \in Seq(LlmFrames)
  BY DEF LlmTyped
<1> QED BY <1>1

LEMMA SendKeeps ==
  ASSUME LlmInv, Llm!Send
  PROVE  LlmInv'
<1>1. /\ stage = "send" /\ verdict = "ok" /\ UNCHANGED <<verdict, heard, answer>>
      /\ LlmTyped /\ Whole /\ EndIsLast
  BY DEF Llm!Send, LlmInv
<1>2. frames \in Seq(LlmFrames) /\ tosend \in Seq(Llm!Blocks)
  BY <1>1 DEF LlmTyped
<1>3. \A i \in 1..Len(frames) : frames[i].type # "done"
  BY <1>1, FramesBefore DEF EndIsLast
<1>4. heard.end # "done"
  BY <1>1 DEF EndIsLast
<1>5. CASE tosend # <<>>
  <2>1. frames' = Append(frames, Head(tosend)) /\ tosend' = Tail(tosend) /\ stage' = "send"
    BY <1>1, <1>5 DEF Llm!Send
  <2>2. Head(tosend) \in Llm!Blocks /\ Tail(tosend) \in Seq(Llm!Blocks)
    BY <1>2, <1>5
  <2>3. Head(tosend) \in LlmFrames /\ Head(tosend).type # "done"
    BY <2>2, BlockTypes DEF LlmFrames
  <2>4. tosend \in Seq(LlmFrames)
    BY <1>2, SeqOver DEF LlmFrames
  <2> HIDE DEF LlmFrames
  <2>5. Append(frames, Head(tosend)) \o Tail(tosend) = frames \o tosend
    BY <1>2, <1>5, <2>4
  <2>6. Whole'
    BY <1>1, <2>1, <2>5 DEF Whole
  <2>7. \A i \in DOMAIN frames' : frames'[i].type # "done"
    BY <1>1, <1>3, <2>1, <2>3, FramesBefore
  <2>8. EndIsLast'
    BY <1>1, <1>4, <2>1, <2>7 DEF EndIsLast
  <2>9. frames' \in Seq(LlmFrames)
    BY <1>2, <2>1, <2>3
  <2>10. LlmTyped'
    BY <1>1, <2>1, <2>2, <2>9 DEF LlmTyped
  <2> QED BY <1>1, <2>1, <2>6, <2>8, <2>10 DEF LlmInv
<1>6. CASE tosend = <<>>
  <2> DEFINE f == [type |-> "done"]
  <2>1. frames' = Append(frames, f) /\ tosend' = tosend /\ stage' = "end"
    BY <1>1, <1>6 DEF Llm!Send
  <2>2. f \in Signals /\ f \notin Llm!Blocks /\ f \in LlmFrames
    BY SignalTypes DEF LlmFrames
  <2> HIDE DEF f
  <2>3. /\ Sift(frames' \o tosend', Llm!TextBlocks) = Sift(frames \o tosend, Llm!TextBlocks)
        /\ Sift(frames' \o tosend', Llm!Answerable) = Sift(frames \o tosend, Llm!Answerable)
    BY <1>1, <2>1, <2>2, SignalUnheard, BlockTypes
  <2>4. Whole'
    BY <1>1, <2>3 DEF Whole
  <2>5. ASSUME NEW i \in DOMAIN frames', frames'[i].type = "done"
        PROVE  i = Len(frames) + 1
    BY <1>1, <1>3, <2>1, <2>5, FramesBefore
  <2>6. ASSUME NEW i \in DOMAIN frames', NEW j \in DOMAIN frames', frames'[i].type = "done"
        PROVE  ~(j > i)
    <3>1. i = Len(frames) + 1
      BY <2>5, <2>6
    <3>2. j \in 1..(Len(frames) + 1) /\ Len(frames) \in Nat
      BY <1>1, <2>1, FramesBefore
    <3> QED BY <3>1, <3>2
  <2>7. EndIsLast'
    BY <1>1, <1>4, <1>6, <2>1, <2>6 DEF EndIsLast
  <2>8. frames' \in Seq(LlmFrames)
    BY <1>2, <2>1, <2>2
  <2>9. LlmTyped'
    BY <1>1, <2>1, <2>8 DEF LlmTyped
  <2> QED BY <1>1, <2>1, <2>4, <2>7, <2>9 DEF LlmInv
<1> QED BY <1>5, <1>6

LEMMA NoteRetryKeeps ==
  ASSUME LlmInv, Llm!NoteRetry
  PROVE  LlmInv'
<1> DEFINE f == [type |-> "retry"]
<1>1. frames' = Append(frames, f) /\ UNCHANGED <<stage, verdict, tosend, heard, answer>>
  BY DEF Llm!NoteRetry
<1>2. f \in Signals /\ f \notin Llm!Blocks /\ f \in Notices /\ f \in LlmFrames
  BY SignalTypes DEF LlmFrames
<1>3. f.type = "retry"
  OBVIOUS
<1> HIDE DEF f
<1>4. CASE verdict # "ok"
  <2>1. stage # "send"
    BY <1>4 DEF LlmInv
  <2> QED BY <1>1, <1>2, <1>4, <2>1, LlmWaits
<1>5. CASE verdict = "ok"
  <2>1. LlmTyped /\ Whole /\ EndIsLast /\ stage \in {"send", "end"}
    BY <1>5 DEF LlmInv
  <2>2. /\ Sift(frames' \o tosend', Llm!TextBlocks) = Sift(frames \o tosend, Llm!TextBlocks)
        /\ Sift(frames' \o tosend', Llm!Answerable) = Sift(frames \o tosend, Llm!Answerable)
    BY <1>1, <1>2, <2>1, SignalUnheard, BlockTypes
  <2>3. Whole'
    BY <1>1, <2>1, <2>2 DEF Whole
  <2>4. ASSUME NEW i \in DOMAIN frames', frames'[i].type = "done"
        PROVE  i \in DOMAIN frames /\ frames[i].type = "done"
    BY <1>1, <1>3, <2>1, <2>4, FramesBefore
  <2>5. ASSUME NEW i \in DOMAIN frames', NEW j \in DOMAIN frames', frames'[i].type = "done", j > i
        PROVE  frames'[j] \in Notices
    <3>1. i \in DOMAIN frames /\ frames[i].type = "done"
      BY <2>4, <2>5
    <3>2. CASE j = Len(frames) + 1
      BY <1>1, <1>2, <2>1, <3>2, FramesBefore
    <3>3. CASE j \in DOMAIN frames
      <4>1. frames[j] \in Notices
        BY <2>1, <2>5, <3>1, <3>3 DEF EndIsLast
      <4> QED BY <1>1, <2>1, <3>3, <4>1, FramesBefore
    <3> QED BY <1>1, <2>1, <3>2, <3>3, FramesBefore
  <2>6. heard.end = "done" => frames' \in Seq(Notices)
    BY <1>1, <1>2, <2>1 DEF EndIsLast
  <2>7. stage = "send" => \A i \in DOMAIN frames' : frames'[i].type # "done"
    BY <2>1, <2>4 DEF EndIsLast
  <2>8. EndIsLast'
    BY <1>1, <2>1, <2>5, <2>6, <2>7 DEF EndIsLast
  <2>9. frames' \in Seq(LlmFrames)
    BY <1>1, <1>2, <2>1 DEF LlmTyped
  <2>10. LlmTyped'
    BY <1>1, <2>1, <2>9 DEF LlmTyped
  <2> QED BY <1>1, <1>5, <2>1, <2>3, <2>8, <2>10 DEF LlmInv
<1> QED BY <1>4, <1>5

LEMMA HearKeeps ==
  ASSUME LlmInv, Llm!Hear
  PROVE  LlmInv'
<1> DEFINE f == Head(frames)
<1>1. /\ frames # <<>> /\ heard.end = "no" /\ frames' = Tail(frames)
      /\ heard' = CASE f.type = "text" -> [heard EXCEPT !.text = Append(@, f)]
                    [] f.type = "call" -> [heard EXCEPT !.calls = Llm!push_tool_call(f)]
                    [] f.type \in {"done", "error"} -> [heard EXCEPT !.end = f.type]
                    [] OTHER -> heard
      /\ UNCHANGED <<stage, verdict, tosend, answer>>
  BY DEF Llm!Hear
<1>2. LlmTyped
  BY DEF LlmInv
<1>3. frames \in Seq(LlmFrames) /\ tosend \in Seq(LlmFrames)
  BY <1>2, SeqOver DEF LlmTyped, LlmFrames
<1>4. f \in LlmFrames /\ Tail(frames) \in Seq(LlmFrames) /\ f = frames[1]
  <2> HIDE DEF LlmFrames
  <2> QED BY <1>1, <1>3
<1>5. Len(frames) \in Nat /\ Len(Tail(frames)) = Len(frames) - 1 /\ Len(frames) > 0
  <2> HIDE DEF LlmFrames
  <2> QED BY <1>1, <1>3
<1>6. \A i \in 1..Len(Tail(frames)) : i + 1 \in 1..Len(frames) /\ Tail(frames)[i] = frames[i + 1]
  <2> HIDE DEF LlmFrames
  <2> QED BY <1>1, <1>3, <1>5
<1>7. DOMAIN frames = 1..Len(frames) /\ DOMAIN frames' = 1..Len(Tail(frames))
  BY <1>1, <1>3, <1>4
<1>8. ASSUME NEW S
      PROVE  Sift(frames \o tosend, S) = IF f \in S THEN <<f>> \o Sift(Tail(frames) \o tosend, S)
                                                    ELSE Sift(Tail(frames) \o tosend, S)
  <2> HIDE DEF LlmFrames
  <2>1. /\ frames \o tosend \in Seq(LlmFrames) /\ frames \o tosend # <<>>
        /\ Head(frames \o tosend) = f /\ Tail(frames \o tosend) = Tail(frames) \o tosend
    BY <1>1, <1>3
  <2> HIDE DEF f
  <2> QED BY <2>1, SiftTail
<1> HIDE DEF f
<1>9. CASE verdict # "ok"
  <2>1. NothingYet
    BY <1>9 DEF LlmInv
  <2>2. f \in Notices /\ Tail(frames) \in Seq(Notices)
    <3>1. frames \in Seq(Notices)
      BY <2>1 DEF NothingYet
    <3> QED BY <1>1, <3>1 DEF f
  <2>3. f.type \in {"begin", "retry", "error"}
    BY <2>2 DEF Notices
  <2>4. heard' = heard \/ heard' = [heard EXCEPT !.end = "error"]
    BY <1>1, <2>3
  <2>5. /\ heard'.text = heard.text /\ heard'.calls = heard.calls /\ heard'.end # "done"
        /\ DOMAIN heard' = {"text", "calls", "end"}
    BY <1>1, <1>2, <2>4 DEF LlmTyped
  <2>6. LlmTyped'
    BY <1>1, <1>2, <1>4, <2>5 DEF LlmTyped
  <2> QED BY <1>1, <1>9, <2>1, <2>2, <2>5, <2>6 DEF LlmInv, NothingYet
<1>10. CASE verdict = "ok"
  <2>1. Whole /\ EndIsLast /\ stage \in {"send", "end"}
    BY <1>10 DEF LlmInv
  <2>2. /\ heard.text \in Seq(Llm!Blocks) /\ heard.calls \in Seq(Llm!Blocks)
        /\ DOMAIN heard = {"text", "calls", "end"}
    BY <1>2 DEF LlmTyped
  <2>3. ASSUME NEW S PROVE Sift(Tail(frames) \o tosend, S) \in Seq(LlmFrames)
    <3> HIDE DEF LlmFrames
    <3>1. Tail(frames) \o tosend \in Seq(LlmFrames)
      BY <1>3, <1>4
    <3>2. Sift(Tail(frames) \o tosend, S) \in Seq(LlmFrames \cap S)
      BY <3>1, SiftIn
    <3>3. LlmFrames \cap S \subseteq LlmFrames
      OBVIOUS
    <3> QED BY <3>2, <3>3, SeqOver
  <2>4. stage = "send" => \A i \in DOMAIN frames' : frames'[i].type # "done"
    BY <1>1, <1>6, <1>7, <2>1 DEF EndIsLast
  <2>5. ASSUME NEW i \in DOMAIN frames', NEW j \in DOMAIN frames', frames'[i].type = "done", j > i
        PROVE  frames'[j] \in Notices
    <3>1. /\ i + 1 \in DOMAIN frames /\ j + 1 \in DOMAIN frames /\ j + 1 > i + 1
          /\ frames[i + 1].type = "done" /\ frames'[j] = frames[j + 1]
      BY <1>1, <1>6, <1>7, <2>5
    <3> QED BY <2>1, <3>1 DEF EndIsLast
  <2>6. ASSUME heard'.end # "done" PROVE EndIsLast'
    BY <1>1, <2>1, <2>4, <2>5, <2>6 DEF EndIsLast
  <2>7. ASSUME NEW S, NEW q \in {heard.text, heard.calls}
        PROVE  Append(q, f) \o Sift(Tail(frames) \o tosend, S)
                 = q \o (<<f>> \o Sift(Tail(frames) \o tosend, S))
    <3>1. q \in Seq(LlmFrames)
      BY <2>2, SeqOver DEF LlmFrames
    <3> DEFINE u == Sift(Tail(frames) \o tosend, S)
    <3>2. u \in Seq(LlmFrames)
      BY <2>3
    <3> HIDE DEF u, LlmFrames
    <3>3. f \in LlmFrames
      BY <1>4
    <3>4. Append(q, f) \o u = q \o (<<f>> \o u)
      BY <3>1, <3>2, <3>3, AppendConcat
    <3> QED BY <3>4 DEF u
  <2>8. CASE f.type = "text"
    <3>1. heard' = [heard EXCEPT !.text = Append(@, f)]
      BY <1>1, <2>8
    <3>2. /\ heard'.text = Append(heard.text, f) /\ heard'.calls = heard.calls
          /\ heard'.end = heard.end /\ DOMAIN heard' = {"text", "calls", "end"}
      BY <2>2, <3>1
    <3>3. f \in Llm!TextBlocks /\ f \in Llm!Blocks /\ f \notin Llm!Answerable
      BY <1>4, <2>8 DEF LlmFrames, Signals, Llm!TextBlocks, Llm!Answerable
    <3>4. Append(heard.text, f) \o Sift(Tail(frames) \o tosend, Llm!TextBlocks)
            = heard.text \o (<<f>> \o Sift(Tail(frames) \o tosend, Llm!TextBlocks))
      BY <2>7
    <3>5. Whole'
      BY <1>1, <1>8, <2>1, <3>2, <3>3, <3>4 DEF Whole
    <3>6. heard'.text \in Seq(Llm!Blocks)
      BY <2>2, <3>2, <3>3
    <3>7. LlmTyped'
      BY <1>1, <1>2, <1>4, <3>2, <3>6 DEF LlmTyped
    <3> QED BY <1>1, <1>10, <2>1, <2>6, <3>2, <3>5, <3>7 DEF LlmInv
  <2>9. CASE f.type = "call"
    <3>1. heard' = [heard EXCEPT !.calls = Llm!push_tool_call(f)]
      BY <1>1, <2>9
    <3>2. /\ heard'.text = heard.text /\ heard'.calls = Llm!push_tool_call(f)
          /\ heard'.end = heard.end /\ DOMAIN heard' = {"text", "calls", "end"}
      BY <2>2, <3>1
    <3>3. f \in Llm!Blocks /\ f \notin Llm!TextBlocks /\ (f \in Llm!Answerable <=> f.id # "")
      BY <1>4, <2>9 DEF LlmFrames, Signals, Llm!TextBlocks, Llm!Answerable
    <3>4. heard'.calls \o Sift(Tail(frames) \o tosend, Llm!Answerable)
            = heard.calls \o Sift(frames \o tosend, Llm!Answerable)
      <4>1. CASE f.id = ""
        BY <1>8, <3>2, <3>3, <4>1 DEF Llm!push_tool_call
      <4>2. CASE f.id # ""
        <5>1. heard'.calls = Append(heard.calls, f)
          BY <3>2, <4>2 DEF Llm!push_tool_call
        <5>2. Sift(frames \o tosend, Llm!Answerable) = <<f>> \o Sift(Tail(frames) \o tosend, Llm!Answerable)
          BY <1>8, <3>3, <4>2
        <5>3. Append(heard.calls, f) \o Sift(Tail(frames) \o tosend, Llm!Answerable)
                = heard.calls \o (<<f>> \o Sift(Tail(frames) \o tosend, Llm!Answerable))
          BY <2>7
        <5> QED BY <5>1, <5>2, <5>3
      <4> QED BY <4>1, <4>2
    <3>5. Whole'
      BY <1>1, <1>8, <2>1, <3>2, <3>3, <3>4 DEF Whole
    <3>6. heard'.calls \in Seq(Llm!Blocks)
      <4>1. Append(heard.calls, f) \in Seq(Llm!Blocks)
        <5>1. f \in Llm!Blocks /\ heard.calls \in Seq(Llm!Blocks)
          BY <2>2, <3>3
        <5> QED BY <5>1
      <4>2. heard'.calls \in {heard.calls, Append(heard.calls, f)}
        BY <3>2 DEF Llm!push_tool_call
      <4> QED BY <2>2, <4>1, <4>2
    <3>7. LlmTyped'
      BY <1>1, <1>2, <1>4, <2>2, <3>2, <3>6 DEF LlmTyped
    <3> QED BY <1>1, <1>10, <2>1, <2>6, <3>2, <3>5, <3>7 DEF LlmInv
  <2>10. CASE f.type \notin {"text", "call"}
    <3>1. heard' = heard \/ (f.type \in {"done", "error"} /\ heard' = [heard EXCEPT !.end = f.type])
      BY <1>1, <2>10
    <3>2. /\ heard'.text = heard.text /\ heard'.calls = heard.calls
          /\ DOMAIN heard' = {"text", "calls", "end"}
          /\ heard'.end = "done" => f.type = "done"
      BY <1>1, <2>2, <3>1
    <3>3. f \notin Llm!TextBlocks /\ f \notin Llm!Answerable
      BY <2>10, BlockTypes
    <3>4. Whole'
      BY <1>1, <1>8, <2>1, <3>2, <3>3 DEF Whole
    <3>5. LlmTyped'
      BY <1>1, <1>2, <1>4, <3>2 DEF LlmTyped
    <3>6. ASSUME f.type = "done" PROVE Tail(frames) \in Seq(Notices) /\ stage # "send"
      <4>1. 1 \in DOMAIN frames /\ frames[1].type = "done"
        BY <1>4, <1>5, <1>7, <3>6
      <4>2. ASSUME NEW i \in 1..Len(Tail(frames)) PROVE Tail(frames)[i] \in Notices
        <5>1. i + 1 \in DOMAIN frames /\ i + 1 > 1 /\ Tail(frames)[i] = frames[i + 1]
          BY <1>6, <1>7
        <5> QED BY <2>1, <4>1, <5>1 DEF EndIsLast
      <4>3. Tail(frames) \in Seq(Notices)
        <5> DEFINE t == Tail(frames)
        <5>1. t \in Seq(LlmFrames) /\ \A i \in 1..Len(t) : t[i] \in Notices
          BY <1>4, <4>2
        <5> HIDE DEF t, LlmFrames, Notices
        <5>2. t \in Seq(Notices)
          BY <5>1
        <5> QED BY <5>2 DEF t
      <4> QED BY <2>1, <4>1, <4>3 DEF EndIsLast
    <3>7. EndIsLast'
      BY <1>1, <2>1, <2>4, <2>5, <3>2, <3>6 DEF EndIsLast
    <3> QED BY <1>1, <1>10, <2>1, <3>4, <3>5, <3>7 DEF LlmInv
  <2> QED BY <2>8, <2>9, <2>10
<1> QED BY <1>9, <1>10

LEMMA LlmStep ==
  ASSUME LlmInv, [Llm!LlmNext]_llmVars
  PROVE  LlmInv'
<1>1. CASE Llm!Cancel \/ UNCHANGED llmVars
  <2>1. UNCHANGED <<stage, verdict, tosend, frames, heard, answer>>
    BY <1>1 DEF Llm!Cancel, llmVars
  <2> QED BY <2>1 DEF LlmInv, LlmTyped, NothingYet, Whole, EndIsLast
<1> QED BY <1>1, BeginKeeps, TriesKeep, ResponseKeeps, SendKeeps, NoteRetryKeeps, HearKeeps
        DEF Llm!LlmNext

\* The caller of llm:chat ends with the answer of the attempt that succeeded,
\* whole, in order and once, however many attempts, waits and late retry notices
\* there were, whatever the provider answered (runtime/llm_harness.rs
\* chat_with_tools_retry, syscalls/llm/chat.rs execute, runtime/llm_util.rs).
THEOREM CallerHearsTheAnswer == ServicesSpec => []AnswerIsHeard
<1>1. ServicesInit => LlmInv
  <2> SUFFICES ASSUME Llm!LlmInit PROVE LlmInv
    BY DEF ServicesInit
  <2>1. /\ stage = "check" /\ verdict = "none" /\ tosend = <<>> /\ frames = <<>> /\ heard = Llm!Deaf
    BY DEF Llm!LlmInit
  <2>2. \A S : <<>> \in Seq(S)
    OBVIOUS
  <2>3. /\ heard.text = <<>> /\ heard.calls = <<>> /\ heard.end = "no"
        /\ DOMAIN heard = {"text", "calls", "end"}
    BY <2>1 DEF Llm!Deaf
  <2> QED BY <2>1, <2>2, <2>3 DEF LlmInv, LlmTyped, NothingYet
<1>2. LlmInv /\ [ServicesNext]_<<which, vars, otherVars>> => LlmInv'
  BY PartSteps, LlmStep
<1>3. LlmInv => AnswerIsHeard
  <2> SUFFICES ASSUME LlmInv, heard.end = "done"
               PROVE  /\ verdict = "ok" /\ heard.text = answer.text
                      /\ heard.calls = Sift(answer.calls, Llm!Answerable)
    BY LlmSift DEF AnswerIsHeard, Llm!AnswerIsHeard
  <2>1. verdict = "ok" /\ LlmTyped /\ Whole /\ EndIsLast /\ stage = "end"
    BY DEF LlmInv, NothingYet, EndIsLast
  <2>2. frames \in Seq(Notices) /\ tosend = <<>>
    BY <2>1 DEF EndIsLast
  <2>3. frames \in Seq(LlmFrames) /\ frames \o tosend = frames
    BY <2>1, <2>2 DEF LlmTyped
  <2>4. ASSUME NEW i \in 1..Len(frames) PROVE frames[i] \notin Llm!Blocks
    <3>1. frames[i] \in Notices
      BY <2>2, <2>4
    <3>2. frames[i].type \in {"begin", "retry", "error"}
      BY <3>1 DEF Notices
    <3> QED BY <3>2, BlockTypes
  <2>5. /\ \A i \in 1..Len(frames) : frames[i] \notin Llm!TextBlocks
        /\ \A i \in 1..Len(frames) : frames[i] \notin Llm!Answerable
    BY <2>4, BlockTypes
  <2>6. Sift(frames, Llm!TextBlocks) = <<>> /\ Sift(frames, Llm!Answerable) = <<>>
    BY <2>3, <2>5, SiftNone
  <2>7. heard.text \o <<>> = heard.text /\ heard.calls \o <<>> = heard.calls
    BY <2>1 DEF LlmTyped
  <2> QED BY <2>1, <2>3, <2>6, <2>7 DEF Whole
<1> QED BY <1>1, <1>2, <1>3, PTL DEF ServicesSpec

-----------------------------------------------------------------------------
(* The file tools.                                                         *)

\* A path that is made normal is one path, or none.
LEMMA NormalIsOne ==
  ASSUME NEW names \in Seq(STRING)
  PROVE  /\ Vfs!normalize_path(names) \subseteq Seq(STRING)
         /\ \A p, q \in Vfs!normalize_path(names) : p = q
<1> DEFINE A == {S \in SUBSET Seq(STRING) : \A p, q \in S : p = q}
           m == Len(names)
           Turn(n, S) == IF names[n] = ".." THEN {Vfs!Front(p) : p \in S \ {<<>>}}
                         ELSE {Append(p, names[n]) : p \in S}
           f == [n \in 1..m |-> [S \in A |-> Turn(n, S)]]
           Step(g, n) == IF n = 0 THEN {<<>>} ELSE Turn(n, g[n - 1])
<1>1. m \in Nat /\ \A n \in 1..m : names[n] \in STRING
  OBVIOUS
<1>2. {<<>>} \in A
  OBVIOUS
<1>3. ASSUME NEW n \in 1..m, NEW S \in A PROVE Turn(n, S) \in A
  <2>1. S \subseteq Seq(STRING) /\ \A p, q \in S : p = q
    OBVIOUS
  <2>2. \A p \in S \ {<<>>} : Vfs!Front(p) \in Seq(STRING)
    BY <2>1 DEF Vfs!Front
  <2>3. \A p \in S : Append(p, names[n]) \in Seq(STRING)
    BY <1>1, <2>1
  <2> QED BY <2>1, <2>2, <2>3
<1> HIDE DEF A, Turn, m
<1>4. f \in [1..m -> [A -> A]] /\ \A n \in 1..m, S \in A : f[n][S] = Turn(n, S)
  BY <1>3
<1>5. PICK g \in [0..m -> A] : g[0] = {<<>>} /\ \A n \in 1..m : g[n] = f[n][g[n - 1]]
  <2> HIDE DEF f
  <2>1. f \in Steps(A, m)
    BY <1>4 DEF Steps
  <2>2. Runs(A, {<<>>}, m, f) # {}
    BY <1>1, <1>2, <2>1, Recursion
  <2> QED BY <2>2 DEF Runs
<1>6. ASSUME NEW n \in 0..m PROVE g[n] = Step(g, n)
  <2>1. CASE n = 0
    BY <1>5, <2>1
  <2>2. CASE n # 0
    <3>1. n \in 1..m /\ n - 1 \in 0..m
      BY <1>1, <2>2
    <3>2. g[n - 1] \in A
      BY <3>1
    <3> HIDE DEF f
    <3> QED BY <1>4, <1>5, <2>2, <3>1, <3>2
  <2> QED BY <2>1, <2>2
<1>7. g = [n \in 0..m |-> Step(g, n)]
  <2>1. g = [n \in 0..m |-> g[n]]
    OBVIOUS
  <2> HIDE DEF Step
  <2> QED BY <1>6, <2>1
<1> DEFINE h == CHOOSE k : k = [n \in 0..m |-> Step(k, n)]
<1>8. Vfs!normalize_path(names) = h[m]
  BY DEF Vfs!normalize_path, m, Turn
<1>9. h = [n \in 0..m |-> Step(h, n)]
  <2> HIDE DEF Step
  <2> QED BY <1>7
<1> DEFINE T == {n \in 0..m : h[n] \in A}
<1> HIDE DEF h
<1>10. 0 \in T
  BY <1>1, <1>2, <1>9
<1>11. ASSUME NEW n \in 1..m, n - 1 \in T PROVE n \in T
  <2>1. n \in 0..m /\ n # 0
    BY <1>1
  <2>2. h[n] = Turn(n, h[n - 1])
    BY <1>9, <2>1
  <2> QED BY <1>3, <1>11, <2>1, <2>2
<1>12. 0..m \subseteq T
  <2> HIDE DEF T
  <2> QED BY <1>1, <1>10, <1>11, InductionTo
<1>13. h[m] \in A
  BY <1>1, <1>12
<1> QED BY <1>8, <1>13 DEF A

\* Where a call leads: one place, or none.
LEMMA ResolvedIsOne ==
  ASSUME NEW call \in Vfs!FileCalls, NEW cwd \in Seq(STRING)
  PROVE  /\ Vfs!resolve_vfs_path(call.path, cwd) \subseteq Seq(STRING)
         /\ \A p, q \in Vfs!resolve_vfs_path(call.path, cwd) : p = q
<1>1. call.path.abs \in BOOLEAN /\ call.path.names \in Seq(STRING)
  BY ServicesAssumption
<1>2. cwd \o call.path.names \in Seq(STRING)
  BY <1>1
<1>3. \/ Vfs!resolve_vfs_path(call.path, cwd) = Vfs!normalize_path(call.path.names)
      \/ Vfs!resolve_vfs_path(call.path, cwd) = Vfs!normalize_path(cwd \o call.path.names)
      \/ Vfs!resolve_vfs_path(call.path, cwd) = {}
  BY <1>1 DEF Vfs!resolve_vfs_path
<1>4. ASSUME NEW names \in Seq(STRING),
             Vfs!resolve_vfs_path(call.path, cwd) = Vfs!normalize_path(names)
      PROVE  /\ Vfs!resolve_vfs_path(call.path, cwd) \subseteq Seq(STRING)
             /\ \A p, q \in Vfs!resolve_vfs_path(call.path, cwd) : p = q
  <2>1. /\ Vfs!normalize_path(names) \subseteq Seq(STRING)
        /\ \A p, q \in Vfs!normalize_path(names) : p = q
    BY NormalIsOne
  <2> QED BY <1>4, <2>1
<1>5. CASE Vfs!resolve_vfs_path(call.path, cwd) = {}
  BY <1>5
<1> QED BY <1>1, <1>2, <1>3, <1>4, <1>5

\* What a call under way may change, and where it leads.
FsActive(a) == fsStep[a] \notin {"idle", "told"}
FsTouched(a) == Vfs!Touched(a, fsCall[a], fsCwd[a])

FsTyped ==
  /\ DOMAIN fsStep = Vfs!FileCallers /\ DOMAIN fsCall = Vfs!FileCallers
  /\ DOMAIN fsCwd = Vfs!FileCallers /\ DOMAIN fsAnswer = Vfs!FileCallers
  /\ \A a \in Vfs!FileCallers : fsCwd[a] \in Seq(STRING)
  /\ \A a \in Vfs!FileCallers : fsStep[a] # "idle" => fsCall[a] \in Vfs!FileCalls

\* The steps of a call that may change something.
FsChanging == {"open", "fill", "unlinked", "make", "patch", "rename"}

\* Each step of a call is one of its tool, and of an agent that may take it;
\* what fs:cd has answered is a path.
FsTools ==
  \A a \in Vfs!FileCallers :
    /\ fsStep[a] \in {"open", "fill", "unlinked"} => fsCall[a].tool = "fs_write"
    /\ fsStep[a] \in FsChanging => Vfs!can_mutate(a)
    /\ fsStep[a] = "make" => fsCall[a].tool = "fs_mkdir"
    /\ fsStep[a] \in {"patch", "rename"} => fsCall[a].tool = "patch_apply"
    /\ fsStep[a] \in {"open", "fill"} => \A x \in Vfs!Place(a) : x.on = "host"
    /\ fsStep[a] = "told" /\ fsCall[a].tool = "fs_cd" /\ fsAnswer[a].ok =>
         fsAnswer[a].what # {} /\ fsAnswer[a].what \subseteq Seq(STRING)

\* A call that has met no other changes nothing another one under way changes,
\* and finds the file it opened as it left it.
FsApart ==
  /\ \A a, b \in Vfs!FileCallers :
       a # b /\ a \in fsAlone /\ FsActive(a) /\ FsActive(b) => FsTouched(a) \cap FsTouched(b) = {}
  /\ \A a \in Vfs!FileCallers :
       a \in fsAlone /\ fsStep[a] = "fill" =>
         \A x \in Vfs!Place(a) : x.path \in DOMAIN fsHost /\ fsHost[x.path] = Vfs!File(<<>>)

\* What is counted as kept is there, and nobody is about to change it.
FsKept ==
  \A w \in fsKept :
    /\ w.on \in {"host", "memory"}
    /\ w.on = "host" => w.path \in DOMAIN fsHost /\ fsHost[w.path] = Vfs!File(w.text)
    /\ w.on = "memory" => w.path \in DOMAIN fsMem /\ fsMem[w.path] = Vfs!File(w.text)
    /\ \A b \in Vfs!FileCallers : FsActive(b) => <<w.on, w.path>> \notin FsTouched(b)

FilesInv == FsTyped /\ FsTools /\ FsApart /\ FsKept

\* What is in memory is never read-only.
LEMMA ResolveOn ==
  \A p : /\ Vfs!resolve(p).on \in {"host", "memory"}
         /\ Vfs!resolve(p).on = "memory" => ~Vfs!resolve(p).ro
BY DEF Vfs!resolve

LEMMA PlaceIsOne ==
  ASSUME FilesInv, NEW a \in Vfs!FileCallers, fsStep[a] # "idle"
  PROVE  /\ \A x, y \in Vfs!Place(a) : x = y
         /\ \A x \in Vfs!Place(a) : x.on \in {"host", "memory"} /\ (x.on = "memory" => ~x.ro)
<1>1. fsCall[a] \in Vfs!FileCalls /\ fsCwd[a] \in Seq(STRING)
  BY DEF FilesInv, FsTyped
<1>2. \A p, q \in Vfs!resolve_vfs_path(fsCall[a].path, fsCwd[a]) : p = q
  BY <1>1, ResolvedIsOne
<1> QED BY <1>2, ResolveOn DEF Vfs!Place

\* What fs:write, fs:mkdir and patch:apply may change is where they lead.
LEMMA PlaceTouched ==
  ASSUME NEW a \in Vfs!FileCallers, Vfs!can_mutate(a)
  PROVE  /\ fsCall[a].tool \in {"fs_write", "fs_mkdir"} =>
              \A x \in Vfs!Place(a) : <<x.on, x.path>> \in FsTouched(a)
         /\ fsCall[a].tool = "patch_apply" => <<"host", Vfs!Patched(a)>> \in FsTouched(a)
<1>1. ASSUME fsCall[a].tool \in {"fs_write", "fs_mkdir"}
      PROVE  FsTouched(a) = {<<Vfs!resolve(p).on, Vfs!resolve(p).path>> :
                               p \in Vfs!resolve_vfs_path(fsCall[a].path, fsCwd[a])}
  BY <1>1 DEF FsTouched, Vfs!Touched
<1>2. ASSUME fsCall[a].tool = "patch_apply"
      PROVE  FsTouched(a) = {<<"host", Vfs!Patched(a)>>}
  BY <1>2 DEF FsTouched, Vfs!Touched, Vfs!Patched
<1> QED BY <1>1, <1>2 DEF Vfs!Place

\* A place stays the same while the call, the directory and the mounts do.
LEMMA PlaceSame ==
  ASSUME NEW a, fsMounts' = fsMounts, fsCall'[a] = fsCall[a], fsCwd'[a] = fsCwd[a]
  PROVE  Vfs!Place(a)' = Vfs!Place(a) /\ FsTouched(a)' = FsTouched(a)
<1>1. \A p : Vfs!resolve(p)' = Vfs!resolve(p)
  BY DEF Vfs!resolve
<1>2. Vfs!Place(a)' = Vfs!Place(a)
  BY <1>1 DEF Vfs!Place
<1>3. FsTouched(a)' = FsTouched(a)
  BY <1>1 DEF FsTouched, Vfs!Touched
<1> QED BY <1>2, <1>3

\* A step of the call of an agent that is under way, which changes files where
\* the call leads only and counts nothing as kept but what it has written.
LEMMA CallMoves ==
  ASSUME FilesInv, NEW a \in Vfs!FileCallers, FsActive(a),
         UNCHANGED <<fsMounts, fsCall, fsCwd, fsAlone>>,
         DOMAIN fsStep' = Vfs!FileCallers, DOMAIN fsAnswer' = Vfs!FileCallers,
         \A b \in Vfs!FileCallers \ {a} :
           fsStep'[b] = fsStep[b] \/ (fsStep[b] = "fill" /\ fsStep'[b] = "unlinked"),
         \A b \in Vfs!FileCallers \ {a} : fsAnswer'[b] = fsAnswer[b],
         fsStep'[a] \in {"open", "fill", "unlinked"} => fsCall[a].tool = "fs_write",
         fsStep'[a] \in FsChanging => Vfs!can_mutate(a),
         fsStep'[a] = "make" => fsCall[a].tool = "fs_mkdir",
         fsStep'[a] \in {"patch", "rename"} => fsCall[a].tool = "patch_apply",
         fsStep'[a] \in {"open", "fill"} => \A x \in Vfs!Place(a) : x.on = "host",
         fsStep'[a] = "told" /\ fsCall[a].tool = "fs_cd" /\ fsAnswer'[a].ok =>
           fsAnswer'[a].what # {} /\ fsAnswer'[a].what \subseteq Seq(STRING),
         fsStep'[a] = "fill" =>
           \A x \in Vfs!Place(a) : x.path \in DOMAIN fsHost' /\ fsHost'[x.path] = Vfs!File(<<>>),
         \A p \in DOMAIN fsHost : <<"host", p>> \notin FsTouched(a) =>
           p \in DOMAIN fsHost' /\ fsHost'[p] = fsHost[p],
         \A p \in DOMAIN fsMem : <<"memory", p>> \notin FsTouched(a) =>
           p \in DOMAIN fsMem' /\ fsMem'[p] = fsMem[p],
         \A w \in fsKept' : \/ w \in fsKept
                            \/ /\ a \in fsAlone /\ fsStep'[a] = "told"
                               /\ w.on \in {"host", "memory"} /\ <<w.on, w.path>> \in FsTouched(a)
                               /\ w.on = "host" => w.path \in DOMAIN fsHost' /\ fsHost'[w.path] = Vfs!File(w.text)
                               /\ w.on = "memory" => w.path \in DOMAIN fsMem' /\ fsMem'[w.path] = Vfs!File(w.text)
  PROVE  FilesInv'
<1>1. ASSUME NEW b \in Vfs!FileCallers
      PROVE  Vfs!Place(b)' = Vfs!Place(b) /\ FsTouched(b)' = FsTouched(b)
  BY PlaceSame
<1>2. \A b \in Vfs!FileCallers : FsActive(b)' => FsActive(b)
  BY DEF FsActive
<1>3. FsTyped'
  <2>1. fsStep[a] # "idle"
    BY DEF FsActive
  <2> QED BY <2>1 DEF FilesInv, FsTyped
<1>4. FsTools'
  <2> SUFFICES ASSUME NEW b \in Vfs!FileCallers
               PROVE  /\ fsStep'[b] \in {"open", "fill", "unlinked"} => fsCall'[b].tool = "fs_write"
                      /\ fsStep'[b] \in FsChanging => Vfs!can_mutate(b)
                      /\ fsStep'[b] = "make" => fsCall'[b].tool = "fs_mkdir"
                      /\ fsStep'[b] \in {"patch", "rename"} => fsCall'[b].tool = "patch_apply"
                      /\ fsStep'[b] \in {"open", "fill"} => \A x \in Vfs!Place(b)' : x.on = "host"
                      /\ fsStep'[b] = "told" /\ fsCall'[b].tool = "fs_cd" /\ fsAnswer'[b].ok =>
                           fsAnswer'[b].what # {} /\ fsAnswer'[b].what \subseteq Seq(STRING)
    BY DEF FsTools
  <2>1. CASE b = a
    BY <1>1, <2>1
  <2>2. CASE b # a
    BY <1>1, <2>2 DEF FilesInv, FsTools, FsChanging
  <2> QED BY <2>1, <2>2
<1>5. FsApart'
  <2>1. ASSUME NEW b \in Vfs!FileCallers, NEW c \in Vfs!FileCallers,
               b # c, b \in fsAlone', FsActive(b)', FsActive(c)'
        PROVE  FsTouched(b)' \cap FsTouched(c)' = {}
    BY <1>1, <1>2, <2>1 DEF FilesInv, FsApart
  <2>2. ASSUME NEW b \in Vfs!FileCallers, b \in fsAlone', fsStep'[b] = "fill", NEW x \in Vfs!Place(b)'
        PROVE  x.path \in DOMAIN fsHost' /\ fsHost'[x.path] = Vfs!File(<<>>)
    <3>1. CASE b = a
      BY <1>1, <2>2, <3>1
    <3>2. CASE b # a
      <4>1. fsStep[b] = "fill" /\ x \in Vfs!Place(b) /\ FsActive(b)
        BY <1>1, <2>2, <3>2 DEF FsActive
      <4>2. fsCall[b].tool = "fs_write" /\ x.on = "host" /\ Vfs!can_mutate(b)
        BY <4>1 DEF FilesInv, FsTools, FsChanging
      <4>3. <<"host", x.path>> \in FsTouched(b)
        BY <4>1, <4>2, PlaceTouched
      <4>4. <<"host", x.path>> \notin FsTouched(a)
        BY <2>2, <3>2, <4>1, <4>3 DEF FilesInv, FsApart
      <4>5. x.path \in DOMAIN fsHost /\ fsHost[x.path] = Vfs!File(<<>>)
        BY <2>2, <4>1 DEF FilesInv, FsApart
      <4> QED BY <4>4, <4>5
    <3> QED BY <3>1, <3>2
  <2> QED BY <2>1, <2>2 DEF FsApart
<1>6. FsKept'
  <2> SUFFICES ASSUME NEW w \in fsKept'
               PROVE  /\ w.on \in {"host", "memory"}
                      /\ w.on = "host" => w.path \in DOMAIN fsHost' /\ fsHost'[w.path] = Vfs!File(w.text)
                      /\ w.on = "memory" => w.path \in DOMAIN fsMem' /\ fsMem'[w.path] = Vfs!File(w.text)
                      /\ \A b \in Vfs!FileCallers : FsActive(b)' => <<w.on, w.path>> \notin FsTouched(b)'
    BY DEF FsKept
  <2>1. CASE w \in fsKept
    <3>1. /\ w.on \in {"host", "memory"}
          /\ w.on = "host" => w.path \in DOMAIN fsHost /\ fsHost[w.path] = Vfs!File(w.text)
          /\ w.on = "memory" => w.path \in DOMAIN fsMem /\ fsMem[w.path] = Vfs!File(w.text)
      BY <2>1 DEF FilesInv, FsKept
    <3>2. \A b \in Vfs!FileCallers : FsActive(b) => <<w.on, w.path>> \notin FsTouched(b)
      BY <2>1 DEF FilesInv, FsKept
    <3>3. ASSUME NEW b \in Vfs!FileCallers, FsActive(b)' PROVE <<w.on, w.path>> \notin FsTouched(b)'
      BY <1>1, <1>2, <3>2, <3>3
    <3>4. <<w.on, w.path>> \notin FsTouched(a)
      BY <3>2
    <3> QED BY <3>1, <3>3, <3>4
  <2>2. CASE w \notin fsKept
    <3>1. /\ a \in fsAlone /\ fsStep'[a] = "told" /\ <<w.on, w.path>> \in FsTouched(a)
      BY <2>2
    <3>2. ASSUME NEW b \in Vfs!FileCallers, FsActive(b)' PROVE <<w.on, w.path>> \notin FsTouched(b)'
      <4>1. b # a
        BY <3>1, <3>2 DEF FsActive
      <4>2. FsActive(b)
        BY <1>2, <3>2
      <4> QED BY <1>1, <3>1, <4>1, <4>2 DEF FilesInv, FsApart
    <3> QED BY <2>2, <3>2
  <2> QED BY <2>1, <2>2
<1> QED BY <1>3, <1>4, <1>5, <1>6 DEF FilesInv

\* A step that leaves the files and what is kept as they are.
LEMMA CallGoes ==
  ASSUME FilesInv, NEW a \in Vfs!FileCallers, FsActive(a), NEW s,
         UNCHANGED <<fsMounts, fsMem, fsHost, fsCall, fsCwd, fsAlone, fsKept>>,
         fsStep' = [fsStep EXCEPT ![a] = s],
         fsAnswer' = fsAnswer \/ \E y : fsAnswer' = [fsAnswer EXCEPT ![a] = y],
         s # "fill", s \in {"open", "unlinked"} => fsCall[a].tool = "fs_write",
         s \in FsChanging => Vfs!can_mutate(a),
         s = "make" => fsCall[a].tool = "fs_mkdir",
         s \in {"patch", "rename"} => fsCall[a].tool = "patch_apply",
         s = "open" => \A x \in Vfs!Place(a) : x.on = "host",
         s = "told" /\ fsCall[a].tool = "fs_cd" /\ fsAnswer'[a].ok =>
           fsAnswer'[a].what # {} /\ fsAnswer'[a].what \subseteq Seq(STRING)
  PROVE  FilesInv'
<1>1. a \in DOMAIN fsStep /\ DOMAIN fsStep = Vfs!FileCallers /\ DOMAIN fsAnswer = Vfs!FileCallers
  BY DEF FilesInv, FsTyped
<1>2. /\ DOMAIN fsStep' = Vfs!FileCallers /\ fsStep'[a] = s
      /\ \A b \in Vfs!FileCallers \ {a} : fsStep'[b] = fsStep[b]
  BY <1>1
<1>3. DOMAIN fsAnswer' = Vfs!FileCallers /\ \A b \in Vfs!FileCallers \ {a} : fsAnswer'[b] = fsAnswer[b]
  BY <1>1
<1>4. fsStep'[a] # "fill"
  BY <1>2
<1> HIDE DEF FilesInv, FsActive
<1> QED BY <1>2, <1>3, <1>4, CallMoves

LEMMA AnswersIs ==
  ASSUME NEW a, NEW y, Vfs!Replies(a, y)
  PROVE  fsStep' = [fsStep EXCEPT ![a] = "told"] /\ fsAnswer' = [fsAnswer EXCEPT ![a] = y]
BY DEF Vfs!Replies, Vfs!Goes

LEMMA MadeKeeps ==
  ASSUME NEW files, NEW paths, NEW p \in DOMAIN files
  PROVE  p \in DOMAIN Vfs!AddDirs(files, paths) /\ Vfs!AddDirs(files, paths)[p] = files[p]
BY DEF Vfs!AddDirs

LEMMA PutKeeps ==
  ASSUME NEW files, NEW path, NEW e
  PROVE  /\ path \in DOMAIN Vfs!Put(files, path, e) /\ Vfs!Put(files, path, e)[path] = e
         /\ \A p \in DOMAIN files : p # path =>
              p \in DOMAIN Vfs!Put(files, path, e) /\ Vfs!Put(files, path, e)[p] = files[p]
BY DEF Vfs!Put

\* What a write counts as kept.
LEMMA KeepIs ==
  ASSUME NEW a, NEW x, Vfs!Keep(a, x), NEW w \in fsKept'
  PROVE  \/ w \in fsKept
         \/ a \in fsAlone /\ w.on = x.on /\ w.path = x.path /\ w.text = fsCall[a].text
<1>1. CASE a \notin fsAlone
  BY <1>1 DEF Vfs!Keep
<1>2. CASE a \in fsAlone
  <2>1. fsKept' = fsKept \cup {[on |-> x.on, path |-> x.path, text |-> fsCall[a].text]}
    BY <1>2 DEF Vfs!Keep
  <2> QED BY <1>2, <2>1
<1> QED BY <1>1, <1>2

\* fs:write to memory, which is done in one step.
LEMMA MemoryWriteStep ==
  ASSUME FilesInv, NEW a \in Vfs!FileCallers, fsStep[a] = "run", fsCall[a].tool = "fs_write",
         Vfs!can_mutate(a), NEW x \in Vfs!Place(a), x.on = "memory", Vfs!Write(a, x), \E y \in Vfs!Place(a) : Vfs!Keep(a, y),
         UNCHANGED <<fsMounts, fsCall, fsCwd, fsAlone>>
  PROVE  FilesInv'
<1>1. PICK y \in Vfs!Place(a) : Vfs!Keep(a, y)
  OBVIOUS
<1>2. x = y
  BY PlaceIsOne
<1>3. fsMem' = Vfs!MemoryWrite(x.path, fsCall[a].text) /\ UNCHANGED fsHost
      /\ Vfs!Replies(a, Vfs!Ok({}))
  <2>1. ~x.ro
    BY PlaceIsOne
  <2> QED BY <2>1 DEF Vfs!Write
<1>4. <<"memory", x.path>> \in FsTouched(a)
  BY PlaceTouched
<1>5. /\ x.path \in DOMAIN fsMem' /\ fsMem'[x.path] = Vfs!File(fsCall[a].text)
      /\ \A p \in DOMAIN fsMem : p # x.path => p \in DOMAIN fsMem' /\ fsMem'[p] = fsMem[p]
  <2> DEFINE put == Vfs!Put(fsMem, x.path, Vfs!File(fsCall[a].text))
  <2>1. fsMem' = Vfs!AddDirs(put, Vfs!Above(x.path))
    BY <1>3 DEF Vfs!MemoryWrite
  <2>2. /\ x.path \in DOMAIN put /\ put[x.path] = Vfs!File(fsCall[a].text)
        /\ \A p \in DOMAIN fsMem : p # x.path => p \in DOMAIN put /\ put[p] = fsMem[p]
    BY PutKeeps
  <2> HIDE DEF put
  <2> QED BY <2>1, <2>2, MadeKeeps
<1>6. /\ fsStep' = [fsStep EXCEPT ![a] = "told"]
      /\ fsAnswer' = [fsAnswer EXCEPT ![a] = Vfs!Ok({})]
  BY <1>3, AnswersIs
<1>7. /\ DOMAIN fsStep' = Vfs!FileCallers /\ fsStep'[a] = "told"
      /\ \A b \in Vfs!FileCallers \ {a} : fsStep'[b] = fsStep[b]
      /\ DOMAIN fsAnswer' = Vfs!FileCallers
      /\ \A b \in Vfs!FileCallers \ {a} : fsAnswer'[b] = fsAnswer[b]
  BY <1>6 DEF FilesInv, FsTyped
<1>8. \A w \in fsKept' : \/ w \in fsKept
                         \/ /\ a \in fsAlone /\ w.on = "memory" /\ w.path = x.path
                            /\ w.text = fsCall[a].text
  BY <1>1, <1>2, KeepIs
<1>9. FsActive(a)
  BY DEF FsActive
<1>10. \A p \in DOMAIN fsMem : <<"memory", p>> \notin FsTouched(a) => p \in DOMAIN fsMem' /\ fsMem'[p] = fsMem[p]
  BY <1>4, <1>5
<1>11. \A p \in DOMAIN fsHost : p \in DOMAIN fsHost' /\ fsHost'[p] = fsHost[p]
  BY <1>3
<1>12. ASSUME NEW w \in fsKept', w \notin fsKept
       PROVE  /\ a \in fsAlone /\ w.on \in {"host", "memory"} /\ w.on # "host" /\ <<w.on, w.path>> \in FsTouched(a)
              /\ w.path \in DOMAIN fsMem' /\ fsMem'[w.path] = Vfs!File(w.text)
  BY <1>4, <1>5, <1>8, <1>12
<1> HIDE DEF FilesInv
<1> QED BY <1>7, <1>9, <1>10, <1>11, <1>12, CallMoves

\* fs:write to a file of the host, which it has yet to open, or one refused.
LEMMA HostWriteStep ==
  ASSUME FilesInv, NEW a \in Vfs!FileCallers, fsStep[a] = "run", fsCall[a].tool = "fs_write",
         NEW x \in Vfs!Place(a), x.on = "host" \/ ~Vfs!can_mutate(a), Vfs!Write(a, x),
         UNCHANGED <<fsMounts, fsCall, fsCwd, fsAlone, fsKept>>
  PROVE  FilesInv'
<1>1. FsActive(a) /\ (x.on = "host" => \A y \in Vfs!Place(a) : y.on = "host")
  BY PlaceIsOne DEF FsActive
<1>2. UNCHANGED fsMem
  BY DEF Vfs!Write
<1>3. ASSUME NEW y, Vfs!Replies(a, y), UNCHANGED fsHost PROVE FilesInv'
  <2>1. fsStep' = [fsStep EXCEPT ![a] = "told"] /\ fsAnswer' = [fsAnswer EXCEPT ![a] = y]
    BY <1>3, AnswersIs
  <2>2. "told" \notin FsChanging
    BY DEF FsChanging
  <2> HIDE DEF FilesInv
  <2> QED BY <1>1, <1>2, <1>3, <2>1, <2>2, CallGoes
<1>4. ASSUME Vfs!can_mutate(a), Vfs!Goes(a, "open"), Vfs!Unanswered, UNCHANGED fsHost PROVE FilesInv'
  <2>1. fsStep' = [fsStep EXCEPT ![a] = "open"] /\ fsAnswer' = fsAnswer
    BY <1>4 DEF Vfs!Goes, Vfs!Unanswered
  <2> HIDE DEF FilesInv
  <2> QED BY <1>1, <1>2, <1>4, <2>1, CallGoes
<1>5. ASSUME Vfs!can_mutate(a), Vfs!Goes(a, "open"), Vfs!Unanswered, NEW p, fsHost' = Vfs!MakeDirs(p)
      PROVE  FilesInv'
  <2>1. fsStep' = [fsStep EXCEPT ![a] = "open"] /\ fsAnswer' = fsAnswer
    BY <1>5 DEF Vfs!Goes, Vfs!Unanswered
  <2>2. \A q \in DOMAIN fsHost : q \in DOMAIN fsHost' /\ fsHost'[q] = fsHost[q]
    BY <1>5, MadeKeeps DEF Vfs!MakeDirs
  <2>3. /\ DOMAIN fsStep' = Vfs!FileCallers /\ fsStep'[a] = "open"
        /\ \A b \in Vfs!FileCallers \ {a} : fsStep'[b] = fsStep[b]
        /\ DOMAIN fsAnswer' = Vfs!FileCallers
        /\ \A b \in Vfs!FileCallers \ {a} : fsAnswer'[b] = fsAnswer[b]
    BY <2>1 DEF FilesInv, FsTyped
  <2> HIDE DEF FilesInv
  <2> QED BY <1>1, <1>2, <1>5, <2>2, <2>3, CallMoves
<1>6. \/ (\E y : Vfs!Replies(a, y)) /\ UNCHANGED fsHost
      \/ Vfs!can_mutate(a) /\ Vfs!Goes(a, "open") /\ Vfs!Unanswered /\ UNCHANGED fsHost
      \/ /\ Vfs!can_mutate(a) /\ fsHost' = Vfs!MakeDirs(Vfs!Front(x.path))
         /\ Vfs!Goes(a, "open") /\ Vfs!Unanswered
  BY DEF Vfs!Write
<1> QED BY <1>3, <1>4, <1>5, <1>6

\* The other calls only look, or go on to a step of their own.
LEMMA LookAnswers ==
  ASSUME FilesInv, NEW a \in Vfs!FileCallers, fsStep[a] = "run", NEW x \in Vfs!Place(a),
         \/ fsCall[a].tool = "fs_read" /\ Vfs!Read(a, x)
         \/ fsCall[a].tool = "fs_cd" /\ Vfs!Cd(a, x)
         \/ fsCall[a].tool = "fs_list" /\ Vfs!List(a, x)
         \/ fsCall[a].tool = "fs_grep" /\ Vfs!Grep(a, x)
  PROVE  \E y : /\ Vfs!Replies(a, y)
                /\ fsCall[a].tool = "fs_cd" /\ y.ok =>
                     y.what # {} /\ y.what \subseteq Seq(STRING)
<1>1. x.on \in {"host", "memory"}
  BY PlaceIsOne
<1>2. ASSUME fsCall[a].tool = "fs_read", Vfs!Read(a, x) PROVE \E y : Vfs!Replies(a, y)
  BY <1>2 DEF Vfs!Read
<1>3. ASSUME fsCall[a].tool = "fs_list", Vfs!List(a, x) PROVE \E y : Vfs!Replies(a, y)
  <2>1. CASE x.on = "host" /\ x.path \notin DOMAIN fsHost
    BY <1>3, <2>1 DEF Vfs!List
  <2>2. CASE x.on = "host" /\ x.path \in DOMAIN fsHost
    BY <1>3, <2>2 DEF Vfs!List
  <2>3. CASE x.on = "memory" /\ x.path \notin DOMAIN fsMem
    BY <1>3, <2>3 DEF Vfs!List
  <2>4. CASE x.on = "memory" /\ x.path \in DOMAIN fsMem
    BY <1>3, <2>4 DEF Vfs!List
  <2> QED BY <1>1, <2>1, <2>2, <2>3, <2>4
<1>4. ASSUME fsCall[a].tool = "fs_grep", Vfs!Grep(a, x) PROVE \E y : Vfs!Replies(a, y)
  <2>1. CASE x.on = "host" /\ x.path \notin DOMAIN fsHost
    BY <1>4, <2>1 DEF Vfs!Grep
  <2>2. CASE x.on = "host" /\ x.path \in DOMAIN fsHost
    BY <1>4, <2>2 DEF Vfs!Grep
  <2>3. CASE x.on = "memory"
    BY <1>4, <2>3 DEF Vfs!Grep
  <2> QED BY <1>1, <2>1, <2>2, <2>3
<1>5. ASSUME fsCall[a].tool = "fs_cd", Vfs!Cd(a, x)
      PROVE  \E y : Vfs!Replies(a, y) /\ (y.ok => y.what # {} /\ y.what \subseteq Seq(STRING))
  <2> DEFINE P == Vfs!resolve_vfs_path(fsCall[a].path, fsCwd[a])
  <2>1. P # {} /\ P \subseteq Seq(STRING)
    <3>1. fsCall[a] \in Vfs!FileCalls /\ fsCwd[a] \in Seq(STRING)
      BY DEF FilesInv, FsTyped
    <3>2. P # {}
      BY DEF Vfs!Place
    <3> QED BY <3>1, <3>2, ResolvedIsOne
  <2>2. \/ Vfs!Replies(a, Vfs!Ok(P))
        \/ Vfs!Replies(a, Vfs!Err("E_INVALID_ARGS"))
        \/ Vfs!Replies(a, Vfs!Err("E_NOT_FOUND"))
    BY <1>5 DEF Vfs!Cd
  <2>3. ~Vfs!Err("E_INVALID_ARGS").ok /\ ~Vfs!Err("E_NOT_FOUND").ok /\ Vfs!Ok(P).what = P
    BY DEF Vfs!Err, Vfs!Ok
  <2> HIDE DEF P
  <2> QED BY <2>1, <2>2, <2>3
<1> QED BY <1>2, <1>3, <1>4, <1>5

LEMMA DispatchKeepsFiles ==
  ASSUME FilesInv, NEW a \in Vfs!FileCallers, Vfs!dispatch_tool(a)
  PROVE  FilesInv'
<1>1. fsStep[a] = "run" /\ FsActive(a) /\ UNCHANGED <<fsMounts, fsCall, fsCwd, fsAlone>>
  BY DEF Vfs!dispatch_tool, FsActive
<1>2. IF fsCall[a].tool = "fs_write" /\ Vfs!can_mutate(a) /\ \E x \in Vfs!Place(a) : x.on = "memory"
      THEN \E x \in Vfs!Place(a) : Vfs!Keep(a, x) ELSE UNCHANGED fsKept
  BY DEF Vfs!dispatch_tool
<1>3. CASE fsCall[a].tool = "patch_apply" /\ Vfs!CheckPatch(a)
  <2>1. UNCHANGED <<fsMem, fsHost, fsKept>>
    BY <1>2, <1>3 DEF Vfs!CheckPatch
  <2>2. CASE Vfs!Replies(a, Vfs!Err("E_FORBIDDEN"))
    <3>1. /\ fsStep' = [fsStep EXCEPT ![a] = "told"]
          /\ fsAnswer' = [fsAnswer EXCEPT ![a] = Vfs!Err("E_FORBIDDEN")]
      BY <2>2, AnswersIs
    <3> HIDE DEF FilesInv
    <3> QED BY <1>1, <1>3, <2>1, <3>1, CallGoes DEF FsChanging
  <2>3. CASE Vfs!can_mutate(a) /\ Vfs!Goes(a, "patch") /\ Vfs!Unanswered
    <3>1. fsStep' = [fsStep EXCEPT ![a] = "patch"] /\ fsAnswer' = fsAnswer
      BY <2>3 DEF Vfs!Goes, Vfs!Unanswered
    <3> HIDE DEF FilesInv
    <3> QED BY <1>1, <1>3, <2>1, <2>3, <3>1, CallGoes DEF FsChanging
  <2> QED BY <1>3, <2>2, <2>3 DEF Vfs!CheckPatch
<1>4. CASE Vfs!Refused(a)
  <2>1. UNCHANGED <<fsMem, fsHost, fsKept>>
    BY <1>2, <1>4 DEF Vfs!Refused
  <2>2. /\ fsStep' = [fsStep EXCEPT ![a] = "told"]
        /\ fsAnswer' = [fsAnswer EXCEPT ![a] = Vfs!Err("E_FORBIDDEN")]
    BY <1>4, AnswersIs DEF Vfs!Refused
  <2>3. ~fsAnswer'[a].ok
    <3>1. ~Vfs!Err("E_FORBIDDEN").ok
      BY DEF Vfs!Err
    <3> QED BY <2>2, <3>1 DEF FilesInv, FsTyped
  <2> HIDE DEF FilesInv
  <2> QED BY <1>1, <2>1, <2>2, <2>3, CallGoes DEF FsChanging
<1>5. ASSUME NEW x \in Vfs!Place(a), fsCall[a].tool = "fs_write", Vfs!Write(a, x)
      PROVE  FilesInv'
  <2>1. \A y \in Vfs!Place(a) : y = x
    BY <1>1, PlaceIsOne
  <2>2. CASE x.on = "memory" /\ Vfs!can_mutate(a)
    <3>1. \E y \in Vfs!Place(a) : Vfs!Keep(a, y)
      BY <1>2, <1>5, <2>2
    <3> HIDE DEF FilesInv
    <3> QED BY <1>1, <1>5, <2>2, <3>1, MemoryWriteStep
  <2>3. CASE x.on = "host" \/ ~Vfs!can_mutate(a)
    <3>1. UNCHANGED fsKept
      BY <1>2, <2>1, <2>3
    <3> HIDE DEF FilesInv
    <3> QED BY <1>1, <1>5, <2>3, <3>1, HostWriteStep
  <2>4. x.on \in {"host", "memory"}
    BY <1>1, PlaceIsOne
  <2> QED BY <2>2, <2>3, <2>4
<1>6. ASSUME NEW x \in Vfs!Place(a), fsCall[a].tool = "fs_mkdir", Vfs!Mkdir(a, x)
      PROVE  FilesInv'
  <2>1. UNCHANGED <<fsMem, fsHost, fsKept>>
    BY <1>2, <1>6 DEF Vfs!Mkdir
  <2>2. ASSUME NEW y, Vfs!Replies(a, y) PROVE FilesInv'
    <3>1. fsStep' = [fsStep EXCEPT ![a] = "told"] /\ fsAnswer' = [fsAnswer EXCEPT ![a] = y]
      BY <2>2, AnswersIs
    <3> HIDE DEF FilesInv
    <3> QED BY <1>1, <1>6, <2>1, <3>1, CallGoes DEF FsChanging
  <2>3. CASE Vfs!can_mutate(a) /\ Vfs!Goes(a, "make") /\ Vfs!Unanswered
    <3>1. fsStep' = [fsStep EXCEPT ![a] = "make"] /\ fsAnswer' = fsAnswer
      BY <2>3 DEF Vfs!Goes, Vfs!Unanswered
    <3> HIDE DEF FilesInv
    <3> QED BY <1>1, <1>6, <2>1, <2>3, <3>1, CallGoes DEF FsChanging
  <2> QED BY <1>6, <2>2, <2>3 DEF Vfs!Mkdir
<1>7. ASSUME NEW x \in Vfs!Place(a), UNCHANGED <<fsMem, fsHost>>,
             \/ fsCall[a].tool = "fs_read" /\ Vfs!Read(a, x)
             \/ fsCall[a].tool = "fs_cd" /\ Vfs!Cd(a, x)
             \/ fsCall[a].tool = "fs_list" /\ Vfs!List(a, x)
             \/ fsCall[a].tool = "fs_grep" /\ Vfs!Grep(a, x)
      PROVE  FilesInv'
  <2>1. PICK y : /\ Vfs!Replies(a, y)
                 /\ fsCall[a].tool = "fs_cd" /\ y.ok => y.what # {} /\ y.what \subseteq Seq(STRING)
    BY <1>1, <1>7, LookAnswers
  <2>2. fsStep' = [fsStep EXCEPT ![a] = "told"] /\ fsAnswer' = [fsAnswer EXCEPT ![a] = y]
    BY <2>1, AnswersIs
  <2>3. fsAnswer'[a] = y
    BY <2>2 DEF FilesInv, FsTyped
  <2>4. UNCHANGED fsKept
    BY <1>2, <1>7
  <2> HIDE DEF FilesInv
  <2> QED BY <1>1, <1>7, <2>1, <2>2, <2>3, <2>4, CallGoes DEF FsChanging
<1> QED BY <1>3, <1>4, <1>5, <1>6, <1>7 DEF Vfs!dispatch_tool

LEMMA OpenKeepsFiles ==
  ASSUME FilesInv, NEW a \in Vfs!FileCallers, Vfs!Open(a)
  PROVE  FilesInv'
<1>1. /\ fsStep[a] = "open" /\ FsActive(a) /\ fsCall[a].tool = "fs_write" /\ Vfs!can_mutate(a)
      /\ UNCHANGED <<fsMounts, fsMem, fsCall, fsCwd, fsAlone, fsKept>>
  BY DEF Vfs!Open, FsActive, FilesInv, FsTools, FsChanging
<1>2. PICK x \in Vfs!Place(a) :
        \/ fsHost' = Vfs!Put(fsHost, x.path, Vfs!File(<<>>)) /\ Vfs!Goes(a, "fill") /\ Vfs!Unanswered
        \/ Vfs!Replies(a, Vfs!Err("E_IO")) /\ UNCHANGED fsHost
  BY DEF Vfs!Open
<1>3. x.on = "host" /\ \A y \in Vfs!Place(a) : y = x
  BY <1>1, PlaceIsOne DEF FilesInv, FsTools
<1>4. CASE Vfs!Replies(a, Vfs!Err("E_IO")) /\ UNCHANGED fsHost
  <2>1. /\ fsStep' = [fsStep EXCEPT ![a] = "told"]
        /\ fsAnswer' = [fsAnswer EXCEPT ![a] = Vfs!Err("E_IO")]
    BY <1>4, AnswersIs
  <2> HIDE DEF FilesInv
  <2> QED BY <1>1, <1>4, <2>1, CallGoes
<1>5. CASE fsHost' = Vfs!Put(fsHost, x.path, Vfs!File(<<>>)) /\ Vfs!Goes(a, "fill") /\ Vfs!Unanswered
  <2>1. fsStep' = [fsStep EXCEPT ![a] = "fill"] /\ fsAnswer' = fsAnswer
    BY <1>5 DEF Vfs!Goes, Vfs!Unanswered
  <2>2. /\ DOMAIN fsStep' = Vfs!FileCallers /\ fsStep'[a] = "fill"
        /\ \A b \in Vfs!FileCallers \ {a} : fsStep'[b] = fsStep[b]
        /\ DOMAIN fsAnswer' = Vfs!FileCallers
        /\ \A b \in Vfs!FileCallers \ {a} : fsAnswer'[b] = fsAnswer[b]
    BY <2>1 DEF FilesInv, FsTyped
  <2>3. <<"host", x.path>> \in FsTouched(a)
    BY <1>1, <1>3, PlaceTouched
  <2>4. /\ x.path \in DOMAIN fsHost' /\ fsHost'[x.path] = Vfs!File(<<>>)
        /\ \A p \in DOMAIN fsHost : <<"host", p>> \notin FsTouched(a) =>
             p \in DOMAIN fsHost' /\ fsHost'[p] = fsHost[p]
    BY <1>5, <2>3, PutKeeps
  <2> HIDE DEF FilesInv
  <2> QED BY <1>1, <1>3, <2>2, <2>4, CallMoves
<1> QED BY <1>2, <1>4, <1>5

LEMMA Refilled ==
  ASSUME NEW d, NEW t, NEW u
  PROVE  [[dir |-> d, text |-> t] EXCEPT !.text = u] = [dir |-> d, text |-> u]
OBVIOUS

LEMMA FillKeepsFiles ==
  ASSUME FilesInv, NEW a \in Vfs!FileCallers, Vfs!Fill(a)
  PROVE  FilesInv'
<1>1. /\ fsStep[a] \in {"fill", "unlinked"} /\ FsActive(a) /\ fsCall[a].tool = "fs_write"
      /\ fsCall[a] \in Vfs!FileCalls /\ Vfs!can_mutate(a)
      /\ UNCHANGED <<fsMounts, fsMem, fsCall, fsCwd, fsAlone>>
  BY DEF Vfs!Fill, FsActive, FilesInv, FsTools, FsChanging, FsTyped
<1>2. /\ fsStep' = [fsStep EXCEPT ![a] = "told"]
      /\ fsAnswer' = [fsAnswer EXCEPT ![a] = Vfs!Ok({})]
  BY AnswersIs DEF Vfs!Fill
<1>3. CASE fsStep[a] = "unlinked"
  <2>1. UNCHANGED <<fsHost, fsKept>>
    BY <1>3 DEF Vfs!Fill
  <2> HIDE DEF FilesInv
  <2> QED BY <1>1, <1>2, <2>1, CallGoes
<1>4. CASE fsStep[a] = "fill"
  <2>1. PICK x \in Vfs!Place(a) :
          /\ fsHost' = [fsHost EXCEPT ![x.path].text = Vfs!Overlay(fsCall[a].text, @)]
          /\ Vfs!Keep(a, x)
    BY <1>4 DEF Vfs!Fill
  <2>2. x.on = "host" /\ <<"host", x.path>> \in FsTouched(a)
    BY <1>1, <1>4, PlaceTouched DEF FilesInv, FsTools
  <2>3. /\ DOMAIN fsStep' = Vfs!FileCallers /\ fsStep'[a] = "told"
        /\ \A b \in Vfs!FileCallers \ {a} : fsStep'[b] = fsStep[b]
        /\ DOMAIN fsAnswer' = Vfs!FileCallers
        /\ \A b \in Vfs!FileCallers \ {a} : fsAnswer'[b] = fsAnswer[b]
    BY <1>2 DEF FilesInv, FsTyped
  <2>4. \A p \in DOMAIN fsHost : <<"host", p>> \notin FsTouched(a) =>
          p \in DOMAIN fsHost' /\ fsHost'[p] = fsHost[p]
    BY <2>1, <2>2
  <2>5. ASSUME a \in fsAlone
        PROVE  x.path \in DOMAIN fsHost' /\ fsHost'[x.path] = Vfs!File(fsCall[a].text)
    <3>1. x.path \in DOMAIN fsHost /\ fsHost[x.path] = Vfs!File(<<>>)
      BY <1>4, <2>5 DEF FilesInv, FsApart
    <3>2. Vfs!File(<<>>).text = <<>>
      BY DEF Vfs!File
    <3>3. Vfs!Overlay(fsCall[a].text, <<>>) = fsCall[a].text
      BY <1>1, ServicesAssumption DEF Vfs!Overlay
    <3>4. fsHost'[x.path] = [fsHost[x.path] EXCEPT !.text = fsCall[a].text]
      BY <2>1, <3>1, <3>2, <3>3
    <3>5. [Vfs!File(<<>>) EXCEPT !.text = fsCall[a].text] = Vfs!File(fsCall[a].text)
      BY Refilled DEF Vfs!File
    <3> QED BY <2>1, <3>1, <3>4, <3>5
  <2>6. ASSUME NEW w \in fsKept', w \notin fsKept
        PROVE  /\ a \in fsAlone /\ w.on = "host" /\ <<w.on, w.path>> \in FsTouched(a)
               /\ w.path \in DOMAIN fsHost' /\ fsHost'[w.path] = Vfs!File(w.text)
    <3>1. a \in fsAlone /\ w.on = x.on /\ w.path = x.path /\ w.text = fsCall[a].text
      BY <2>1, <2>6, KeepIs
    <3> QED BY <2>2, <2>5, <3>1
  <2>7. \A p \in DOMAIN fsMem : p \in DOMAIN fsMem' /\ fsMem'[p] = fsMem[p]
    BY <1>1
  <2> HIDE DEF FilesInv
  <2> QED BY <1>1, <2>3, <2>4, <2>6, <2>7, CallMoves
<1> QED BY <1>1, <1>3, <1>4

LEMMA MakeKeepsFiles ==
  ASSUME FilesInv, NEW a \in Vfs!FileCallers, Vfs!Make(a)
  PROVE  FilesInv'
<1>1. /\ fsStep[a] = "make" /\ FsActive(a) /\ fsCall[a].tool = "fs_mkdir" /\ Vfs!can_mutate(a)
      /\ UNCHANGED <<fsMounts, fsCall, fsCwd, fsAlone, fsKept>>
  BY DEF Vfs!Make, FsActive, FilesInv, FsTools, FsChanging
<1>2. PICK x \in Vfs!Place(a) :
        \/ x.on = "memory" /\ UNCHANGED fsHost
           /\ \/ /\ fsMem' = Vfs!MemoryMkdir(x.path, fsCall[a].parents)
                 /\ Vfs!Replies(a, Vfs!Ok({"created"}))
              \/ UNCHANGED fsMem /\ Vfs!Replies(a, Vfs!Err("E_NOT_FOUND"))
        \/ x.on = "host" /\ UNCHANGED fsMem
           /\ \/ fsHost' = Vfs!MakeDirs(x.path) /\ Vfs!Replies(a, Vfs!Ok({"created"}))
              \/ UNCHANGED fsHost /\ Vfs!Replies(a, Vfs!Err("E_IO"))
  BY DEF Vfs!Make
<1>3. PICK y : Vfs!Replies(a, y)
  BY <1>2
<1>4. /\ DOMAIN fsStep' = Vfs!FileCallers /\ fsStep'[a] = "told"
      /\ \A b \in Vfs!FileCallers \ {a} : fsStep'[b] = fsStep[b]
      /\ DOMAIN fsAnswer' = Vfs!FileCallers
      /\ \A b \in Vfs!FileCallers \ {a} : fsAnswer'[b] = fsAnswer[b]
  BY <1>3, AnswersIs DEF FilesInv, FsTyped
<1>5. <<x.on, x.path>> \in FsTouched(a)
  BY <1>1, PlaceTouched
<1>6. \A p \in DOMAIN fsHost : p \in DOMAIN fsHost' /\ fsHost'[p] = fsHost[p]
  BY <1>2, MadeKeeps DEF Vfs!MakeDirs
<1>7. \A p \in DOMAIN fsMem : <<"memory", p>> \notin FsTouched(a) =>
        p \in DOMAIN fsMem' /\ fsMem'[p] = fsMem[p]
  <2>1. CASE UNCHANGED fsMem
    BY <2>1
  <2>2. CASE x.on = "memory" /\ fsMem' = Vfs!MemoryMkdir(x.path, fsCall[a].parents)
    BY <1>5, <2>2, MadeKeeps, PutKeeps DEF Vfs!MemoryMkdir
  <2> QED BY <1>2, <2>1, <2>2
<1> HIDE DEF FilesInv
<1> QED BY <1>1, <1>4, <1>6, <1>7, CallMoves

LEMMA PatchKeepsFiles ==
  ASSUME FilesInv, NEW a \in Vfs!FileCallers, Vfs!Patch(a)
  PROVE  FilesInv'
<1>1. /\ fsStep[a] = "patch" /\ FsActive(a) /\ fsCall[a].tool = "patch_apply" /\ Vfs!can_mutate(a)
      /\ UNCHANGED <<fsMounts, fsMem, fsHost, fsCall, fsCwd, fsAlone, fsKept>>
  BY DEF Vfs!Patch, FsActive, FilesInv, FsTools, FsChanging
<1>2. CASE Vfs!Goes(a, "rename") /\ Vfs!Unanswered
  <2>1. fsStep' = [fsStep EXCEPT ![a] = "rename"] /\ fsAnswer' = fsAnswer
    BY <1>2 DEF Vfs!Goes, Vfs!Unanswered
  <2> HIDE DEF FilesInv
  <2> QED BY <1>1, <2>1, CallGoes
<1>3. CASE Vfs!Replies(a, Vfs!Err("E_IO"))
  <2>1. /\ fsStep' = [fsStep EXCEPT ![a] = "told"]
        /\ fsAnswer' = [fsAnswer EXCEPT ![a] = Vfs!Err("E_IO")]
    BY <1>3, AnswersIs
  <2> HIDE DEF FilesInv
  <2> QED BY <1>1, <2>1, CallGoes
<1> QED BY <1>2, <1>3 DEF Vfs!Patch

\* The patched file takes the place of the one that a write may have open.
LEMMA RenameKeepsFiles ==
  ASSUME FilesInv, NEW a \in Vfs!FileCallers, Vfs!Rename(a)
  PROVE  FilesInv'
<1>1. /\ fsStep[a] = "rename" /\ FsActive(a) /\ fsCall[a].tool = "patch_apply" /\ Vfs!can_mutate(a)
      /\ UNCHANGED <<fsMounts, fsMem, fsCall, fsCwd, fsAlone, fsKept>>
      /\ fsHost' = [fsHost EXCEPT ![Vfs!Patched(a)].text = fsCall[a].text]
      /\ fsAnswer' = [fsAnswer EXCEPT ![a] = Vfs!Ok({})]
  BY DEF Vfs!Rename, FsActive, FilesInv, FsTools, FsChanging
<1>2. /\ DOMAIN fsStep' = Vfs!FileCallers /\ fsStep'[a] = "told"
      /\ \A b \in Vfs!FileCallers \ {a} :
           fsStep'[b] = fsStep[b] \/ (fsStep[b] = "fill" /\ fsStep'[b] = "unlinked")
  BY DEF Vfs!Rename
<1>3. /\ DOMAIN fsAnswer' = Vfs!FileCallers
      /\ \A b \in Vfs!FileCallers \ {a} : fsAnswer'[b] = fsAnswer[b]
  BY <1>1 DEF FilesInv, FsTyped
<1>4. <<"host", Vfs!Patched(a)>> \in FsTouched(a)
  BY <1>1, PlaceTouched
<1>5. \A p \in DOMAIN fsHost : <<"host", p>> \notin FsTouched(a) =>
        p \in DOMAIN fsHost' /\ fsHost'[p] = fsHost[p]
  BY <1>1, <1>4
<1>6. \A p \in DOMAIN fsMem : p \in DOMAIN fsMem' /\ fsMem'[p] = fsMem[p]
  BY <1>1
<1> HIDE DEF FilesInv
<1> QED BY <1>1, <1>2, <1>3, <1>5, <1>6, CallMoves

LEMMA AcquireKeepsFiles ==
  ASSUME FilesInv, NEW a \in Vfs!FileCallers, Vfs!acquire(a)
  PROVE  FilesInv'
<1>1. /\ FsActive(a) /\ fsStep' = [fsStep EXCEPT ![a] = "run"]
      /\ UNCHANGED <<fsMounts, fsMem, fsHost, fsCall, fsCwd, fsAlone, fsKept, fsAnswer>>
  BY DEF Vfs!acquire, Vfs!Goes, FsActive
<1> HIDE DEF FilesInv
<1> QED BY <1>1, CallGoes DEF FsChanging

\* A new call: what it may change is no longer counted as kept, and those it
\* meets are not alone.
LEMMA ActKeepsFiles ==
  ASSUME FilesInv, NEW a \in Vfs!FileCallers, Vfs!Act(a)
  PROVE  FilesInv'
<1>1. PICK call \in Vfs!FileCalls :
        /\ fsCall' = [fsCall EXCEPT ![a] = call]
        /\ Vfs!Goes(a, IF Vfs!TakesLock(a, call.tool) THEN "lock" ELSE "run")
        /\ fsKept' = {w \in fsKept : <<w.on, w.path>> \notin Vfs!Touched(a, call, fsCwd[a])}
        /\ LET met == {b \in Vfs!FileCallers \ {a} :
                         /\ fsStep[b] \notin {"idle", "told"}
                         /\ Vfs!Touched(b, fsCall[b], fsCwd[b]) \cap Vfs!Touched(a, call, fsCwd[a]) # {}}
           IN fsAlone' = (IF met = {} THEN fsAlone \cup {a} ELSE fsAlone \ {a}) \ met
  BY DEF Vfs!Act, Vfs!FileCalls
<1>2. fsStep[a] = "idle" /\ UNCHANGED <<fsMounts, fsMem, fsHost, fsCwd, fsAnswer>>
  BY DEF Vfs!Act
<1>3. /\ DOMAIN fsStep' = Vfs!FileCallers /\ fsStep'[a] \in {"lock", "run"}
      /\ \A b \in Vfs!FileCallers \ {a} : fsStep'[b] = fsStep[b]
  BY <1>1 DEF Vfs!Goes, FilesInv, FsTyped
<1>4. /\ DOMAIN fsCall' = Vfs!FileCallers /\ fsCall'[a] = call
      /\ \A b \in Vfs!FileCallers \ {a} : fsCall'[b] = fsCall[b]
  BY <1>1 DEF FilesInv, FsTyped
<1>5. ASSUME NEW b \in Vfs!FileCallers \ {a}
      PROVE  Vfs!Place(b)' = Vfs!Place(b) /\ FsTouched(b)' = FsTouched(b)
  BY <1>2, <1>4, PlaceSame
<1>6. FsTouched(a)' = Vfs!Touched(a, call, fsCwd[a])
  <2>1. \A p : Vfs!resolve(p)' = Vfs!resolve(p)
    BY <1>2 DEF Vfs!resolve
  <2> QED BY <1>2, <1>4, <2>1 DEF FsTouched, Vfs!Touched
<1>7. ASSUME NEW b \in Vfs!FileCallers \ {a}, FsActive(b), FsTouched(b) \cap FsTouched(a)' # {}
      PROVE  a \notin fsAlone' /\ b \notin fsAlone'
  <2> DEFINE met == {c \in Vfs!FileCallers \ {a} :
                       /\ fsStep[c] \notin {"idle", "told"}
                       /\ Vfs!Touched(c, fsCall[c], fsCwd[c]) \cap Vfs!Touched(a, call, fsCwd[a]) # {}}
  <2>1. b \in met
    BY <1>6, <1>7 DEF FsActive, FsTouched
  <2>2. fsAlone' = (IF met = {} THEN fsAlone \cup {a} ELSE fsAlone \ {a}) \ met
    BY <1>1
  <2> HIDE DEF met
  <2> QED BY <2>1, <2>2
<1>8. \A b \in Vfs!FileCallers \ {a} : b \in fsAlone' => b \in fsAlone
  BY <1>1
<1>9. FsTyped'
  BY <1>1, <1>2, <1>3, <1>4 DEF FilesInv, FsTyped
<1>10. FsTools'
  <2> SUFFICES ASSUME NEW b \in Vfs!FileCallers
               PROVE  /\ fsStep'[b] \in {"open", "fill", "unlinked"} => fsCall'[b].tool = "fs_write"
                      /\ fsStep'[b] \in FsChanging => Vfs!can_mutate(b)
                      /\ fsStep'[b] = "make" => fsCall'[b].tool = "fs_mkdir"
                      /\ fsStep'[b] \in {"patch", "rename"} => fsCall'[b].tool = "patch_apply"
                      /\ fsStep'[b] \in {"open", "fill"} => \A x \in Vfs!Place(b)' : x.on = "host"
                      /\ fsStep'[b] = "told" /\ fsCall'[b].tool = "fs_cd" /\ fsAnswer'[b].ok =>
                           fsAnswer'[b].what # {} /\ fsAnswer'[b].what \subseteq Seq(STRING)
    BY DEF FsTools
  <2>1. CASE b = a
    BY <1>3, <2>1 DEF FsChanging
  <2>2. CASE b # a
    BY <1>2, <1>3, <1>4, <1>5, <2>2 DEF FilesInv, FsTools
  <2> QED BY <2>1, <2>2
<1>11. FsApart'
  <2>1. ASSUME NEW b \in Vfs!FileCallers, NEW c \in Vfs!FileCallers,
               b # c, b \in fsAlone', FsActive(b)', FsActive(c)'
        PROVE  FsTouched(b)' \cap FsTouched(c)' = {}
    <3>1. CASE b # a /\ c # a
      <4>1. b \in fsAlone /\ FsActive(b) /\ FsActive(c)
        BY <1>3, <1>8, <2>1, <3>1 DEF FsActive
      <4> QED BY <1>5, <2>1, <3>1, <4>1 DEF FilesInv, FsApart
    <3>2. CASE b = a
      <4>1. FsActive(c) /\ FsTouched(c)' = FsTouched(c)
        BY <1>3, <1>5, <2>1, <3>2 DEF FsActive
      <4> QED BY <1>7, <2>1, <3>2, <4>1
    <3>3. CASE c = a
      <4>1. FsActive(b) /\ FsTouched(b)' = FsTouched(b)
        BY <1>3, <1>5, <2>1, <3>3 DEF FsActive
      <4> QED BY <1>7, <2>1, <3>3, <4>1
    <3> QED BY <3>1, <3>2, <3>3
  <2>2. ASSUME NEW b \in Vfs!FileCallers, b \in fsAlone', fsStep'[b] = "fill", NEW x \in Vfs!Place(b)'
        PROVE  x.path \in DOMAIN fsHost' /\ fsHost'[x.path] = Vfs!File(<<>>)
    <3>1. b # a
      BY <1>3, <2>2
    <3> QED BY <1>2, <1>3, <1>5, <1>8, <2>2, <3>1 DEF FilesInv, FsApart
  <2> QED BY <2>1, <2>2 DEF FsApart
<1>12. FsKept'
  <2> SUFFICES ASSUME NEW w \in fsKept'
               PROVE  /\ w.on \in {"host", "memory"}
                      /\ w.on = "host" => w.path \in DOMAIN fsHost' /\ fsHost'[w.path] = Vfs!File(w.text)
                      /\ w.on = "memory" => w.path \in DOMAIN fsMem' /\ fsMem'[w.path] = Vfs!File(w.text)
                      /\ \A b \in Vfs!FileCallers : FsActive(b)' => <<w.on, w.path>> \notin FsTouched(b)'
    BY DEF FsKept
  <2>1. w \in fsKept /\ <<w.on, w.path>> \notin FsTouched(a)'
    BY <1>1, <1>6
  <2>2. ASSUME NEW b \in Vfs!FileCallers, FsActive(b)' PROVE <<w.on, w.path>> \notin FsTouched(b)'
    <3>1. CASE b = a
      BY <2>1, <3>1
    <3>2. CASE b # a
      <4>1. FsActive(b) /\ FsTouched(b)' = FsTouched(b)
        BY <1>3, <1>5, <2>2, <3>2 DEF FsActive
      <4> QED BY <2>1, <4>1 DEF FilesInv, FsKept
    <3> QED BY <3>1, <3>2
  <2> QED BY <1>2, <2>1, <2>2 DEF FilesInv, FsKept
<1> QED BY <1>9, <1>10, <1>11, <1>12 DEF FilesInv

\* The agent hears its answer: fs:cd moves it.
LEMMA LearnKeepsFiles ==
  ASSUME FilesInv, NEW a \in Vfs!FileCallers, Vfs!Learn(a)
  PROVE  FilesInv'
<1>1. /\ fsStep[a] = "told" /\ Vfs!Goes(a, "idle")
      /\ fsCwd' = IF fsCall[a].tool = "fs_cd" /\ fsAnswer[a].ok
                  THEN [fsCwd EXCEPT ![a] = CHOOSE p \in fsAnswer[a].what : TRUE] ELSE fsCwd
      /\ fsAnswer' = [fsAnswer EXCEPT ![a] = Vfs!Ok({})]
      /\ fsCall' = [fsCall EXCEPT ![a] = Vfs!NoCall] /\ fsAlone' = fsAlone \ {a}
      /\ UNCHANGED <<fsMounts, fsMem, fsHost, fsKept>>
  BY DEF Vfs!Learn
<1>2. /\ DOMAIN fsStep' = Vfs!FileCallers /\ fsStep'[a] = "idle"
      /\ \A b \in Vfs!FileCallers \ {a} : fsStep'[b] = fsStep[b]
      /\ DOMAIN fsAnswer' = Vfs!FileCallers
      /\ \A b \in Vfs!FileCallers \ {a} : fsAnswer'[b] = fsAnswer[b]
  BY <1>1 DEF Vfs!Goes, FilesInv, FsTyped
<1>3. /\ DOMAIN fsCwd' = Vfs!FileCallers /\ fsCwd'[a] \in Seq(STRING)
      /\ \A b \in Vfs!FileCallers \ {a} : fsCwd'[b] = fsCwd[b]
  <2>1. CASE fsCall[a].tool = "fs_cd" /\ fsAnswer[a].ok
    <3> DEFINE p == CHOOSE p \in fsAnswer[a].what : TRUE
    <3>1. fsAnswer[a].what # {} /\ fsAnswer[a].what \subseteq Seq(STRING)
      BY <1>1, <2>1 DEF FilesInv, FsTools
    <3>2. p \in Seq(STRING)
      BY <3>1
    <3>3. fsCwd' = [fsCwd EXCEPT ![a] = p]
      BY <1>1, <2>1
    <3> HIDE DEF p
    <3> QED BY <3>2, <3>3 DEF FilesInv, FsTyped
  <2>2. CASE ~(fsCall[a].tool = "fs_cd" /\ fsAnswer[a].ok)
    BY <1>1, <2>2 DEF FilesInv, FsTyped
  <2> QED BY <2>1, <2>2
<1>4. ASSUME NEW b \in Vfs!FileCallers \ {a}
      PROVE  Vfs!Place(b)' = Vfs!Place(b) /\ FsTouched(b)' = FsTouched(b)
  BY <1>1, <1>3, PlaceSame DEF FilesInv, FsTyped
<1>5. \A b \in Vfs!FileCallers : FsActive(b)' => b # a /\ FsActive(b)
  BY <1>2 DEF FsActive
<1>6. FsTyped'
  BY <1>1, <1>2, <1>3 DEF FilesInv, FsTyped
<1>7. FsTools'
  <2> SUFFICES ASSUME NEW b \in Vfs!FileCallers
               PROVE  /\ fsStep'[b] \in {"open", "fill", "unlinked"} => fsCall'[b].tool = "fs_write"
                      /\ fsStep'[b] \in FsChanging => Vfs!can_mutate(b)
                      /\ fsStep'[b] = "make" => fsCall'[b].tool = "fs_mkdir"
                      /\ fsStep'[b] \in {"patch", "rename"} => fsCall'[b].tool = "patch_apply"
                      /\ fsStep'[b] \in {"open", "fill"} => \A x \in Vfs!Place(b)' : x.on = "host"
                      /\ fsStep'[b] = "told" /\ fsCall'[b].tool = "fs_cd" /\ fsAnswer'[b].ok =>
                           fsAnswer'[b].what # {} /\ fsAnswer'[b].what \subseteq Seq(STRING)
    BY DEF FsTools
  <2>1. CASE b = a
    BY <1>2, <2>1 DEF FsChanging
  <2>2. CASE b # a
    BY <1>1, <1>2, <1>4, <2>2 DEF FilesInv, FsTools
  <2> QED BY <2>1, <2>2
<1>8. FsApart'
  <2>1. ASSUME NEW b \in Vfs!FileCallers, NEW c \in Vfs!FileCallers,
               b # c, b \in fsAlone', FsActive(b)', FsActive(c)'
        PROVE  FsTouched(b)' \cap FsTouched(c)' = {}
    BY <1>1, <1>4, <1>5, <2>1 DEF FilesInv, FsApart
  <2>2. ASSUME NEW b \in Vfs!FileCallers, b \in fsAlone', fsStep'[b] = "fill", NEW x \in Vfs!Place(b)'
        PROVE  x.path \in DOMAIN fsHost' /\ fsHost'[x.path] = Vfs!File(<<>>)
    <3>1. b # a
      BY <1>2, <2>2
    <3> QED BY <1>1, <1>2, <1>4, <2>2, <3>1 DEF FilesInv, FsApart
  <2> QED BY <2>1, <2>2 DEF FsApart
<1>9. FsKept'
  <2>1. ASSUME NEW w \in fsKept', NEW b \in Vfs!FileCallers, FsActive(b)'
        PROVE  <<w.on, w.path>> \notin FsTouched(b)'
    BY <1>1, <1>4, <1>5, <2>1 DEF FilesInv, FsKept
  <2> QED BY <1>1, <2>1 DEF FilesInv, FsKept
<1> QED BY <1>6, <1>7, <1>8, <1>9 DEF FilesInv

\* A hand's turns of the model, and what else is not about files.
LEMMA HandKeepsFiles ==
  ASSUME FilesInv, UNCHANGED <<fsMounts, fsMem, fsHost, fsCwd, fsStep, fsCall, fsAnswer, fsAlone, fsKept>>
  PROVE  FilesInv'
<1>1. ASSUME NEW b \in Vfs!FileCallers
      PROVE  /\ Vfs!Place(b)' = Vfs!Place(b) /\ FsTouched(b)' = FsTouched(b)
             /\ FsActive(b)' <=> FsActive(b)
  BY PlaceSame DEF FsActive
<1>2. FsTyped'
  BY DEF FilesInv, FsTyped
<1>3. FsTools'
  BY <1>1 DEF FilesInv, FsTools
<1>4. FsApart'
  BY <1>1 DEF FilesInv, FsApart
<1>5. FsKept'
  BY <1>1 DEF FilesInv, FsKept
<1> QED BY <1>2, <1>3, <1>4, <1>5 DEF FilesInv

LEMMA FilesStep ==
  ASSUME FilesInv, [Vfs!FilesNext]_fsVars
  PROVE  FilesInv'
<1>1. ASSUME NEW h \in Hands, Vfs!execute_hand_loop(h) \/ Vfs!CancelHand(h) PROVE FilesInv'
  <2>1. UNCHANGED <<fsMounts, fsMem, fsHost, fsCwd, fsStep, fsCall, fsAnswer, fsAlone, fsKept>>
    BY <1>1 DEF Vfs!execute_hand_loop, Vfs!CancelHand
  <2> HIDE DEF FilesInv
  <2> QED BY <2>1, HandKeepsFiles
<1>2. CASE UNCHANGED fsVars
  <2>1. UNCHANGED <<fsMounts, fsMem, fsHost, fsCwd, fsStep, fsCall, fsAnswer, fsAlone, fsKept>>
    BY <1>2 DEF fsVars
  <2> HIDE DEF FilesInv
  <2> QED BY <2>1, HandKeepsFiles
<1> HIDE DEF FilesInv
<1>3. ASSUME NEW a \in Vfs!FileCallers,
             \/ Vfs!Act(a) \/ Vfs!acquire(a) \/ Vfs!dispatch_tool(a) \/ Vfs!Open(a) \/ Vfs!Fill(a)
             \/ Vfs!Make(a) \/ Vfs!Patch(a) \/ Vfs!Rename(a) \/ Vfs!Learn(a)
      PROVE  FilesInv'
  BY <1>3, ActKeepsFiles, AcquireKeepsFiles, DispatchKeepsFiles, OpenKeepsFiles, FillKeepsFiles,
     MakeKeepsFiles, PatchKeepsFiles, RenameKeepsFiles, LearnKeepsFiles
<1> QED BY <1>1, <1>2, <1>3 DEF Vfs!FilesNext

\* What fs:write has reported written is in the file, text for text, until a
\* head or a mind names that file again, whatever the agents do meanwhile with
\* other paths, under whatever mounts, and the hands with any (vfs/memory.rs,
\* vfs/mount.rs, syscalls/fs/write.rs, kernel/syscall.rs).
THEOREM WritesAreKept == ServicesSpec => []WrittenIsKept
<1>1. ServicesInit => FilesInv
  <2> SUFFICES ASSUME Vfs!FilesInit PROVE FilesInv
    BY DEF ServicesInit
  <2>1. /\ fsCwd = [a \in Vfs!FileCallers |-> <<>>]
        /\ fsStep = [a \in Vfs!FileCallers |-> "idle"]
        /\ DOMAIN fsCall = Vfs!FileCallers /\ DOMAIN fsAnswer = Vfs!FileCallers
        /\ fsAlone = {} /\ fsKept = {}
    BY DEF Vfs!FilesInit
  <2>2. <<>> \in Seq(STRING)
    OBVIOUS
  <2>3. FsTyped
    BY <2>1, <2>2 DEF FsTyped
  <2>4. FsTools /\ FsApart /\ FsKept
    BY <2>1 DEF FsTools, FsApart, FsKept, FsChanging
  <2> QED BY <2>3, <2>4 DEF FilesInv
<1>2. FilesInv /\ [ServicesNext]_<<which, vars, otherVars>> => FilesInv'
  BY PartSteps, FilesStep
<1>3. FilesInv => WrittenIsKept
  BY DEF FilesInv, FsKept, WrittenIsKept, Vfs!WrittenIsKept
<1> QED BY <1>1, <1>2, <1>3, PTL DEF ServicesSpec

-----------------------------------------------------------------------------
(* The head's prompt.                                                      *)

Elements(s) == {s[i] : i \in 1..Len(s)}

\* What is kept is what is in the sequence and in the set.
LEMMA SiftElements ==
  ASSUME NEW R, NEW s \in Seq(R), NEW S
  PROVE  Elements(Sift(s, S)) = Elements(s) \cap S
<1>1. ASSUME NEW e \in Elements(Sift(s, S)) PROVE e \in Elements(s) \cap S
  <2> DEFINE E == Elements(s)
             t == Sift(s, S)
  <2>1. s \in Seq(E)
    BY DEF Elements
  <2> HIDE DEF E
  <2>2. t \in Seq(E \cap S)
    BY <2>1, SiftIn
  <2> HIDE DEF t
  <2>3. \A k \in 1..Len(t) : t[k] \in E \cap S
    BY <2>2
  <2> QED BY <1>1, <2>3 DEF Elements, E, t
<1>2. ASSUME NEW e \in Elements(s) \cap S PROVE e \in Elements(Sift(s, S))
  BY <1>2, SiftHas DEF Elements
<1> QED BY <1>1, <1>2

LEMMA PromptSift == \A s, S : Prompt!Sift(s, S) = Sift(s, S)
BY DEF Prompt!Sift, Prompt!Sifted, Sift, Sifted

LEMMA PromptRange == ASSUME NEW R, NEW s \in Seq(R) PROVE Prompt!Range(s) = Elements(s)
BY DEF Prompt!Range, Elements

PromptRows == [name : {f.name : f \in Prompt!Forms}, kind : {f.kind : f \in Prompt!Forms},
               actor : {f.actor : f \in Prompt!Forms}, size : Sizes, ts : Nat, id : Nat]

\* No later item before an earlier one.
Upward(log) == {p \in (DOMAIN log) \X (DOMAIN log) : ~Prompt!Before(log, p[2], p[1])}

LEMMA BeforeIsOrder ==
  ASSUME NEW log \in Seq(PromptRows)
  PROVE  /\ \A a \in DOMAIN log : ~Prompt!Before(log, a, a)
         /\ \A a, b \in DOMAIN log : Prompt!Before(log, a, b) => ~Prompt!Before(log, b, a)
         /\ \A a, b \in DOMAIN log : a # b => Prompt!Before(log, a, b) \/ Prompt!Before(log, b, a)
         /\ \A a, b, c \in DOMAIN log :
              Prompt!Before(log, a, b) /\ Prompt!Before(log, b, c) => Prompt!Before(log, a, c)
<1>1. \A a \in DOMAIN log : a \in Nat /\ log[a].ts \in Nat
  <2>1. \A a \in DOMAIN log : a \in Nat /\ log[a] \in PromptRows
    OBVIOUS
  <2>2. \A f \in PromptRows : f.ts \in Nat
    BY DEF PromptRows
  <2> QED BY <2>1, <2>2
<1> DEFINE ts(a) == log[a].ts
<1>2. \A a, b : Prompt!Before(log, a, b) <=> ts(a) < ts(b) \/ (ts(a) = ts(b) /\ a < b)
  BY DEF Prompt!Before
<1> HIDE DEF ts
<1>3. \A a \in DOMAIN log : a \in Nat /\ ts(a) \in Nat
  BY <1>1 DEF ts
<1> DEFINE D == DOMAIN log
<1> HIDE DEF D
<1> QED BY <1>2, <1>3

\* An item is inserted behind what is before it.
LEMMA InsertedItems ==
  ASSUME NEW log \in Seq(PromptRows), NEW items \in Seq(DOMAIN log), Ordered(items, Upward(log)),
         NEW s \in DOMAIN log
  PROVE  /\ Prompt!Insert(log, items, s) \in Seq(DOMAIN log)
         /\ Ordered(Prompt!Insert(log, items, s), Upward(log))
         /\ Elements(Prompt!Insert(log, items, s)) = Elements(items) \cup {s}
<1> DEFINE D == DOMAIN log
           E == {i \in D : Prompt!Before(log, i, s)}
           l == Sift(items, E)
           r == Sift(items, D \ E)
           all == l \o <<s>> \o r
           O == Upward(log)
<1>1. Prompt!Insert(log, items, s) = all
  BY PromptSift DEF Prompt!Insert
<1>2. /\ l \in Seq(D \cap E) /\ r \in Seq(D \cap (D \ E))
      /\ Elements(l) = Elements(items) \cap E /\ Elements(r) = Elements(items) \cap (D \ E)
      /\ Ordered(l, O) /\ Ordered(r, O)
  <2> HIDE DEF D, E, O
  <2> QED BY SiftIn, SiftElements, SiftOrdered DEF D, O
<1>3. ASSUME NEW x \in E PROVE <<x, s>> \in O
  BY BeforeIsOrder DEF Upward
<1>4. ASSUME NEW y \in D \ E PROVE <<s, y>> \in O
  BY DEF Upward
<1>5. ASSUME NEW x \in E, NEW y \in D \ E PROVE <<x, y>> \in O
  <2>1. Prompt!Before(log, x, s) /\ ~Prompt!Before(log, y, s) /\ x \in D /\ y \in D /\ s \in D
    OBVIOUS
  <2>2. ~Prompt!Before(log, y, x)
    BY <2>1, BeforeIsOrder
  <2> QED BY <2>1, <2>2 DEF Upward
<1>6. Elements(items) \subseteq D /\ E \subseteq D /\ s \in D
  BY DEF Elements
<1> HIDE DEF D, E, O, l, r
<1>7. /\ l \in Seq(D) /\ r \in Seq(D) /\ all \in Seq(D)
      /\ Len(all) = Len(l) + 1 + Len(r) /\ Len(l) \in Nat /\ Len(r) \in Nat
      /\ \A i \in 1..Len(l) : all[i] = l[i] /\ l[i] \in E
      /\ all[Len(l) + 1] = s
      /\ \A i \in 1..Len(r) : all[Len(l) + 1 + i] = r[i] /\ r[i] \in D \ E
  BY <1>2, <1>6
<1>8. ASSUME NEW i \in 1..Len(all)
      PROVE  \/ i \in 1..Len(l) /\ all[i] = l[i] /\ all[i] \in E
             \/ i = Len(l) + 1 /\ all[i] = s
             \/ /\ i - (Len(l) + 1) \in 1..Len(r) /\ all[i] = r[i - (Len(l) + 1)]
                /\ all[i] \in D \ E /\ i > Len(l) + 1
  <2>1. CASE i \in 1..Len(l)
    BY <1>7, <2>1
  <2>2. CASE i = Len(l) + 1
    BY <1>7, <2>2
  <2>3. CASE i > Len(l) + 1
    <3> DEFINE k == i - (Len(l) + 1)
    <3>1. k \in 1..Len(r) /\ i = Len(l) + 1 + k
      BY <1>7, <2>3
    <3> HIDE DEF k
    <3>2. all[i] = r[k] /\ all[i] \in D \ E
      BY <1>7, <3>1
    <3> QED BY <2>3, <3>1, <3>2 DEF k
  <2> QED BY <1>7, <2>1, <2>2, <2>3
<1>9. Elements(all) = Elements(items) \cup {s}
  <2>1. ASSUME NEW e \in Elements(all) PROVE e \in Elements(items) \cup {s}
    <3>1. PICK i \in 1..Len(all) : e = all[i]
      BY DEF Elements
    <3>2. e \in Elements(l) \/ e = s \/ e \in Elements(r)
      BY <1>8, <3>1 DEF Elements
    <3> QED BY <1>2, <3>2
  <2>2. ASSUME NEW e \in Elements(items) PROVE e \in Elements(all)
    <3>1. e \in Elements(l) \/ e \in Elements(r)
      BY <1>2, <1>6
    <3>2. CASE e \in Elements(l)
      <4>1. PICK i \in 1..Len(l) : e = l[i]
        BY <3>2 DEF Elements
      <4>2. i \in 1..Len(all) /\ all[i] = e
        BY <1>7, <4>1
      <4> QED BY <4>2 DEF Elements
    <3>3. CASE e \in Elements(r)
      <4>1. PICK i \in 1..Len(r) : e = r[i]
        BY <3>3 DEF Elements
      <4>2. Len(l) + 1 + i \in 1..Len(all) /\ all[Len(l) + 1 + i] = e
        BY <1>7, <4>1
      <4> QED BY <4>2 DEF Elements
    <3> QED BY <3>1, <3>2, <3>3
  <2>3. s \in Elements(all)
    <3>1. Len(l) + 1 \in 1..Len(all)
      BY <1>7
    <3> QED BY <1>7, <3>1 DEF Elements
  <2> HIDE DEF all
  <2> QED BY <2>1, <2>2, <2>3
<1>10. Ordered(all, O)
  <2> SUFFICES ASSUME NEW i \in 1..Len(all), NEW j \in 1..Len(all), i < j
               PROVE  <<all[i], all[j]>> \in O
    BY DEF Ordered
  <2>1. CASE i \in 1..Len(l) /\ all[i] = l[i] /\ all[i] \in E
    <3>1. CASE j \in 1..Len(l) /\ all[j] = l[j] /\ all[j] \in E
      BY <1>2, <2>1, <3>1 DEF Ordered
    <3>2. CASE all[j] = s
      BY <1>3, <2>1, <3>2
    <3>3. CASE all[j] \in D \ E
      BY <1>5, <2>1, <3>3
    <3> QED BY <1>8, <3>1, <3>2, <3>3
  <2>2. CASE i = Len(l) + 1 /\ all[i] = s
    <3>1. all[j] \in D \ E
      BY <1>7, <1>8, <2>2
    <3> QED BY <1>4, <2>2, <3>1
  <2>3. CASE i - (Len(l) + 1) \in 1..Len(r) /\ all[i] = r[i - (Len(l) + 1)] /\ i > Len(l) + 1
    <3>1. j - (Len(l) + 1) \in 1..Len(r) /\ all[j] = r[j - (Len(l) + 1)]
      BY <1>7, <1>8, <2>3
    <3>2. i - (Len(l) + 1) < j - (Len(l) + 1)
      BY <1>7
    <3> QED BY <1>2, <2>3, <3>1, <3>2 DEF Ordered
  <2> QED BY <1>8, <2>1, <2>2, <2>3
<1> QED BY <1>1, <1>7, <1>9, <1>10 DEF D, O

\* The rows of the first `limit` that are items, in order.
LEMMA SortedIs ==
  ASSUME NEW log \in Seq(PromptRows), NEW rows \in Seq(DOMAIN log)
  PROVE  /\ Prompt!Sorted(log, rows)[Len(rows)] \in Seq(DOMAIN log)
         /\ Ordered(Prompt!Sorted(log, rows)[Len(rows)], Upward(log))
         /\ Elements(Prompt!Sorted(log, rows)[Len(rows)]) = Elements(rows)
<1> DEFINE O == Upward(log)
           A == {s \in Seq(DOMAIN log) : Ordered(s, O)}
           m == Len(rows)
           Turn(n, s) == Prompt!Insert(log, s, rows[n])
           f == [n \in 1..m |-> [s \in A |-> Turn(n, s)]]
           Step(g, n) == IF n = 0 THEN <<>> ELSE Turn(n, g[n - 1])
<1>1. m \in Nat /\ \A n \in 1..m : rows[n] \in DOMAIN log
  OBVIOUS
<1>2. <<>> \in A
  BY DEF Ordered
<1>3. ASSUME NEW n \in 1..m, NEW s \in A
      PROVE  Turn(n, s) \in A /\ Elements(Turn(n, s)) = Elements(s) \cup {rows[n]}
  <2>1. s \in Seq(DOMAIN log) /\ Ordered(s, Upward(log)) /\ rows[n] \in DOMAIN log
    BY <1>1
  <2>2. /\ Turn(n, s) \in Seq(DOMAIN log)
        /\ Ordered(Turn(n, s), Upward(log))
        /\ Elements(Turn(n, s)) = Elements(s) \cup {rows[n]}
    <3> HIDE DEF A
    <3> QED BY <2>1, InsertedItems
  <2> QED BY <2>2
<1> HIDE DEF A, Turn, m, O
<1>4. f \in [1..m -> [A -> A]] /\ \A n \in 1..m, s \in A : f[n][s] = Turn(n, s)
  BY <1>3
<1>5. PICK g \in [0..m -> A] : g[0] = <<>> /\ \A n \in 1..m : g[n] = f[n][g[n - 1]]
  <2> HIDE DEF f
  <2>1. f \in Steps(A, m)
    BY <1>4 DEF Steps
  <2>2. Runs(A, <<>>, m, f) # {}
    BY <1>1, <1>2, <2>1, Recursion
  <2> QED BY <2>2 DEF Runs
<1>6. ASSUME NEW n \in 0..m PROVE g[n] = Step(g, n)
  <2>1. CASE n = 0
    BY <1>5, <2>1
  <2>2. CASE n # 0
    <3>1. n \in 1..m /\ n - 1 \in 0..m
      BY <1>1, <2>2
    <3>2. g[n - 1] \in A
      BY <3>1
    <3> HIDE DEF f
    <3> QED BY <1>4, <1>5, <2>2, <3>1, <3>2
  <2> QED BY <2>1, <2>2
<1>7. g = [n \in 0..m |-> Step(g, n)]
  <2>1. g = [n \in 0..m |-> g[n]]
    OBVIOUS
  <2> HIDE DEF Step
  <2> QED BY <1>6, <2>1
<1> DEFINE h == Prompt!Sorted(log, rows)
<1>8. h = CHOOSE k : k = [n \in 0..m |-> Step(k, n)]
  BY DEF Prompt!Sorted, m, Turn
<1>9. h = [n \in 0..m |-> Step(h, n)]
  <2> HIDE DEF Step, h
  <2> QED BY <1>7, <1>8
<1> DEFINE T == {n \in 0..m : h[n] \in A /\ Elements(h[n]) = {rows[i] : i \in 1..n}}
<1> HIDE DEF h
<1>10. 0 \in T
  <2>1. h[0] = <<>>
    BY <1>1, <1>9
  <2>2. Elements(<<>>) = {rows[i] : i \in 1..0}
    BY DEF Elements
  <2> QED BY <1>1, <1>2, <2>1, <2>2
<1>11. ASSUME NEW n \in 1..m, n - 1 \in T PROVE n \in T
  <2>1. n \in 0..m /\ n # 0 /\ n \in Nat
    BY <1>1
  <2>2. h[n] = Turn(n, h[n - 1])
    BY <1>9, <2>1
  <2>3. h[n] \in A /\ Elements(h[n]) = {rows[i] : i \in 1..n - 1} \cup {rows[n]}
    BY <1>3, <1>11, <2>2
  <2>4. {rows[i] : i \in 1..n} = {rows[i] : i \in 1..n - 1} \cup {rows[n]}
    BY <2>1
  <2> QED BY <2>1, <2>3, <2>4
<1>12. 0..m \subseteq T
  <2> HIDE DEF T
  <2> QED BY <1>1, <1>10, <1>11, InductionTo
<1>13. h[m] \in A /\ Elements(h[m]) = {rows[i] : i \in 1..m}
  <2>1. m \in T
    <3> HIDE DEF T
    <3> QED BY <1>1, <1>12
  <2> QED BY <2>1
<1> QED BY <1>13 DEF A, h, m, O, Elements

\* What the prompt is made of while the log is no longer than a page: the items
\* of the whole log, of which those since the last reset are told.
LEMMA ItemsAre ==
  ASSUME NEW log \in Seq(PromptRows), Limit \in Nat, Len(log) <= Limit
  PROVE  LET items == Prompt!fetch_conversation_items(log)
         IN  /\ items \in Seq(DOMAIN log) /\ Ordered(items, Upward(log))
             /\ Elements(items) = {s \in DOMAIN log : Prompt!IsItem(log[s])}
<1> DEFINE D == DOMAIN log
           all == Prompt!build_frame_select_sql(log, Limit)
           W == {s \in D : Prompt!IsItem(log[s])}
           rows == Sift(all, W)
<1>1. D = 1..Len(log) /\ Len(log) \in Nat /\ D \cap 1..Limit = D
  <2>1. D = 1..Len(log) /\ Len(log) \in Nat
    OBVIOUS
  <2>2. \A s \in 1..Len(log) : s \in 1..Limit
    BY <2>1
  <2> QED BY <2>1, <2>2
<1>2. all = [s \in D |-> s]
  BY <1>1 DEF Prompt!build_frame_select_sql
<1>3. all \in Seq(D) /\ Elements(all) = D
  <2>1. all \in Seq(D) /\ Len(all) = Len(log)
    BY <1>1, <1>2
  <2> QED BY <1>1, <1>2, <2>1 DEF Elements
<1> HIDE DEF all
<1>4. rows \in Seq(D) /\ Elements(rows) = W
  <2> HIDE DEF D, W
  <2>1. rows \in Seq(D \cap W) /\ Elements(rows) = D \cap W
    BY <1>3, SiftIn, SiftElements
  <2> HIDE DEF rows
  <2>2. rows \in Seq(D)
    BY <2>1
  <2> QED BY <2>1, <2>2 DEF W
<1>5. Prompt!fetch_conversation_items(log) = Prompt!Sorted(log, rows)[Len(rows)]
  BY PromptSift DEF Prompt!fetch_conversation_items, Prompt!select_conversation, all
<1> HIDE DEF rows
<1> QED BY <1>4, <1>5, SortedIs

\* The rows that are told of: no reset, and no row of before one.
Told(log) ==
  {s \in DOMAIN log : /\ Prompt!Kind(log[s]) \notin {"", "chat:reset"}
                      /\ \A r \in DOMAIN log : Prompt!Kind(log[r]) = "chat:reset" => Prompt!Before(log, r, s)}

LEMMA ChatIs ==
  ASSUME NEW log \in Seq(PromptRows), Limit \in Nat, Len(log) <= Limit
  PROVE  \E chat \in Seq(DOMAIN log) :
           /\ Ordered(chat, Upward(log)) /\ Elements(chat) = Told(log)
           /\ Prompt!History(log, Prompt!SinceReset(log, Prompt!fetch_conversation_items(log))) =
                Prompt!Rendered(log, chat)[Len(chat)]
<1> DEFINE D == DOMAIN log
           items == Prompt!fetch_conversation_items(log)
           W == {s \in D : Prompt!Kind(log[s]) = "chat:reset" \/
                   \A r \in Prompt!Range(items) :
                     Prompt!Kind(log[r]) = "chat:reset" => Prompt!Before(log, r, s)}
           V == {s \in D : Prompt!Kind(log[s]) # "chat:reset"}
           since == Sift(items, W)
           chat == Sift(since, V)
<1>1. /\ items \in Seq(D) /\ Ordered(items, Upward(log))
      /\ Elements(items) = {s \in D : Prompt!IsItem(log[s])}
  BY ItemsAre
<1>2. Prompt!SinceReset(log, items) = since
  BY PromptSift DEF Prompt!SinceReset
<1>3. Prompt!History(log, since) = Prompt!Rendered(log, chat)[Len(chat)]
  BY PromptSift DEF Prompt!History
<1>4. Prompt!Range(items) = {s \in D : Prompt!IsItem(log[s])}
  <2> HIDE DEF D, items
  <2> QED BY <1>1, PromptRange
<1>5. /\ since \in Seq(D) /\ Ordered(since, Upward(log))
      /\ Elements(since) = Elements(items) \cap W
  <2> HIDE DEF D, items, W
  <2>1. since \in Seq(D \cap W)
    BY <1>1, SiftIn
  <2> QED BY <1>1, <2>1, SiftOrdered, SiftElements
<1>6. /\ chat \in Seq(D) /\ Ordered(chat, Upward(log))
      /\ Elements(chat) = Elements(since) \cap V
  <2> HIDE DEF D, since, V
  <2>1. chat \in Seq(D \cap V)
    BY <1>5, SiftIn
  <2> QED BY <1>5, <2>1, SiftOrdered, SiftElements
<1>7. Elements(chat) = Told(log)
  <2>1. \A s : Prompt!IsItem(log[s]) <=> Prompt!Kind(log[s]) # ""
    BY DEF Prompt!IsItem
  <2> DEFINE kind(s) == Prompt!Kind(log[s])
  <2>2. Elements(chat) = ({s \in D : kind(s) # ""} \cap W) \cap V
    <3> HIDE DEF chat, since, items, W, V
    <3> QED BY <1>1, <1>5, <1>6, <2>1
  <2>3. W = {s \in D : kind(s) = "chat:reset" \/
               \A r \in D : kind(r) # "" => (kind(r) = "chat:reset" => Prompt!Before(log, r, s))}
    <3> HIDE DEF items
    <3> QED BY <1>4, <2>1
  <2>4. V = {s \in D : kind(s) # "chat:reset"}
    OBVIOUS
  <2>5. Told(log) = {s \in D : /\ kind(s) \notin {"", "chat:reset"}
                               /\ \A r \in D : kind(r) = "chat:reset" => Prompt!Before(log, r, s)}
    BY DEF Told
  <2> HIDE DEF kind, W, V, D, chat
  <2> QED BY <2>2, <2>3, <2>4, <2>5
<1> HIDE DEF chat, since, items
<1> QED BY <1>2, <1>3, <1>6, <1>7 DEF items

Entries(log) == {Prompt!Marker} \cup {Prompt!Entry(log[s], s) : s \in DOMAIN log}

\* The messages h of the first n rows of a conversation.
Renders(log, chat, n, h) ==
  /\ h \in Seq(Entries(log))
  /\ \A i \in 1..Len(h) : h[i] = Prompt!Marker \/ \E k \in 1..n : h[i] = Prompt!Entry(log[chat[k]], chat[k])
  /\ \A k \in 1..n : \E i \in 1..Len(h) : h[i] = Prompt!Entry(log[chat[k]], chat[k])
  /\ \A i, j \in 1..Len(h) : i < j /\ h[i].seq # 0 /\ h[j].seq # 0 => <<h[i].seq, h[j].seq>> \in Upward(log)

LEMMA EntryIs ==
  /\ Prompt!Marker.seq = 0 /\ ~Prompt!Marker.human
  /\ \A f, s : Prompt!Entry(f, s).seq = s /\ (Prompt!Entry(f, s).human <=> Prompt!IsHuman(f))
BY DEF Prompt!Marker, Prompt!Entry, Prompt!IsHuman

\* One row more, with a marker or without.
LEMMA RenderOne ==
  ASSUME NEW log \in Seq(PromptRows), NEW chat \in Seq(DOMAIN log), Ordered(chat, Upward(log)),
         NEW n \in 1..Len(chat), NEW h, Renders(log, chat, n - 1, h),
         NEW e, e = Prompt!Entry(log[chat[n]], chat[n]),
         NEW t \in {<<e>>, <<Prompt!Marker, e>>}
  PROVE  Renders(log, chat, n, h \o t)
<1> DEFINE E == Entries(log)
           m == Prompt!Marker
           Is(k) == Prompt!Entry(log[chat[k]], chat[k])
           O == Upward(log)
           g == h \o t
<1>1. chat[n] \in DOMAIN log /\ chat[n] # 0 /\ e \in E /\ m \in E /\ n \in Nat /\ 1 <= n
  BY DEF Entries
<1>2. e.seq = chat[n] /\ m.seq = 0 /\ \A k : Is(k).seq = chat[k]
  BY EntryIs
<1>3. /\ h \in Seq(E)
      /\ \A i \in 1..Len(h) : h[i] = m \/ \E k \in 1..n - 1 : h[i] = Is(k)
      /\ \A k \in 1..n - 1 : \E i \in 1..Len(h) : h[i] = Is(k)
      /\ \A i, j \in 1..Len(h) : i < j /\ h[i].seq # 0 /\ h[j].seq # 0 => <<h[i].seq, h[j].seq>> \in O
  BY DEF Renders
<1>4. e = Is(n)
  OBVIOUS
<1> HIDE DEF E, m, Is, O
<1>5. t \in Seq(E) /\ Len(t) \in 1..2 /\ t[Len(t)] = e /\ \A i \in 1..Len(t) : i < Len(t) => t[i] = m
  <2>1. CASE t = <<e>>
    BY <1>1, <2>1
  <2>2. CASE t = <<m, e>>
    BY <1>1, <2>2
  <2> QED BY <2>1, <2>2 DEF m
<1>6. /\ g \in Seq(E) /\ Len(g) = Len(h) + Len(t) /\ Len(h) \in Nat
      /\ \A i \in 1..Len(h) : g[i] = h[i]
      /\ \A i \in 1..Len(t) : g[Len(h) + i] = t[i]
  BY <1>3, <1>5
<1> HIDE DEF g
<1>7. ASSUME NEW i \in 1..Len(g)
      PROVE  \/ i \in 1..Len(h) /\ g[i] = h[i]
             \/ i > Len(h) /\ i = Len(g) /\ g[i] = e
             \/ i > Len(h) /\ i < Len(g) /\ g[i] = m
  <2>1. CASE i <= Len(h)
    <3>1. i \in Nat /\ i >= 1 /\ Len(h) \in Nat
      BY <1>6
    <3>2. i \in 1..Len(h)
      BY <2>1, <3>1
    <3> QED BY <1>6, <3>2
  <2>2. CASE i > Len(h)
    <3>1. i - Len(h) \in 1..Len(t) /\ i = Len(h) + (i - Len(h))
      <4>1. /\ Len(h) \in Nat /\ i \in Nat /\ i <= Len(g)
            /\ Len(g) = Len(h) + Len(t)
        BY <1>6
      <4>2. Len(t) \in Nat
        BY <1>5
      <4> QED BY <2>2, <4>1, <4>2
    <3> DEFINE p == i - Len(h)
    <3>2. p \in 1..Len(t) /\ i = Len(h) + p
      BY <3>1
    <3> HIDE DEF p
    <3>3. g[i] = t[p]
      BY <1>6, <3>2
    <3>4. CASE p = Len(t)
      BY <1>5, <1>6, <2>2, <3>2, <3>3, <3>4
    <3>5. CASE p < Len(t)
      <4>1. g[i] = m
        BY <1>5, <3>2, <3>3, <3>5
      <4>2. i < Len(g)
        BY <1>5, <1>6, <3>2, <3>5
      <4> QED BY <2>2, <4>1, <4>2
    <3> QED BY <1>5, <3>2, <3>4, <3>5
  <2> QED BY <1>6, <2>1, <2>2
<1>8. ASSUME NEW i \in 1..Len(g) PROVE g[i] = m \/ \E k \in 1..n : g[i] = Is(k)
  <2>1. CASE i \in 1..Len(h) /\ g[i] = h[i]
    BY <1>1, <1>3, <2>1
  <2>2. CASE g[i] = e
    BY <1>1, <1>4, <2>2
  <2> QED BY <1>7, <2>1, <2>2
<1>9. ASSUME NEW k \in 1..n PROVE \E i \in 1..Len(g) : g[i] = Is(k)
  <2>1. CASE k = n
    <3>1. Len(h) + Len(t) \in 1..Len(g) /\ g[Len(h) + Len(t)] = e
      <4>1. Len(t) \in 1..Len(t) /\ Len(t) \in Nat /\ 1 <= Len(t)
        <5>1. \A z \in 1..2 : z \in 1..z /\ z \in Nat /\ 1 <= z
          OBVIOUS
        <5> QED BY <1>5, <5>1
      <4>2. g[Len(h) + Len(t)] = e
        BY <1>5, <1>6, <4>1
      <4> QED BY <1>6, <4>1, <4>2
    <3> QED BY <1>4, <2>1, <3>1
  <2>2. CASE k # n
    <3>1. PICK i \in 1..Len(h) : h[i] = Is(k)
      <4>1. k \in 1..n - 1
        BY <1>1, <2>2
      <4> QED BY <1>3, <4>1
    <3>2. i \in 1..Len(g) /\ g[i] = Is(k)
      BY <1>5, <1>6, <3>1
    <3> QED BY <3>2
  <2> QED BY <2>1, <2>2
<1>10. ASSUME NEW i \in 1..Len(g), NEW j \in 1..Len(g), i < j, g[i].seq # 0, g[j].seq # 0
       PROVE  <<g[i].seq, g[j].seq>> \in O
  <2>1. i \in 1..Len(h) /\ g[i] = h[i]
    <3>1. i \in Nat /\ j \in Nat /\ Len(g) \in Nat /\ i < j /\ j <= Len(g)
      BY <1>6, <1>10
    <3>2. i # Len(g) /\ g[i] # m
      BY <1>2, <1>10, <3>1
    <3> QED BY <1>7, <3>2
  <2>2. CASE j \in 1..Len(h) /\ g[j] = h[j]
    BY <1>3, <1>10, <2>1, <2>2
  <2>3. CASE g[j] = e
    <3>1. PICK k \in 1..n - 1 : g[i] = Is(k)
      <4>1. h[i] # m
        BY <1>2, <1>10, <2>1
      <4> QED BY <1>3, <2>1, <4>1
    <3>2. k \in 1..Len(chat) /\ n \in 1..Len(chat) /\ k < n
      BY <1>1
    <3>3. <<chat[k], chat[n]>> \in O
      BY <3>2 DEF Ordered, O
    <3> QED BY <1>2, <2>3, <3>1, <3>3
  <2> QED BY <1>2, <1>7, <1>10, <2>2, <2>3
<1> QED BY <1>6, <1>8, <1>9, <1>10 DEF Renders, E, m, Is, O, g

\* The messages of a conversation, in their order: the markers apart, each of
\* its rows and nothing else.
LEMMA RenderedIs ==
  ASSUME NEW log \in Seq(PromptRows), NEW chat \in Seq(DOMAIN log), Ordered(chat, Upward(log))
  PROVE  Renders(log, chat, Len(chat), Prompt!Rendered(log, chat)[Len(chat)])
<1> DEFINE A == Seq(Entries(log))
           m == Len(chat)
           e(n) == Prompt!Entry(log[chat[n]], chat[n])
           more(n) == IF Prompt!LongAfter(log, chat, n) THEN <<Prompt!Marker, e(n)>> ELSE <<e(n)>>
           Turn(n, s) == s \o more(n)
           f == [n \in 1..m |-> [s \in A |-> Turn(n, s)]]
           Step(g, n) == IF n = 0 THEN <<>> ELSE Turn(n, g[n - 1])
           Good(n, s) == Renders(log, chat, n, s)
<1>1. m \in Nat /\ <<>> \in A
  OBVIOUS
<1>2. ASSUME NEW n \in 1..m PROVE more(n) \in {<<e(n)>>, <<Prompt!Marker, e(n)>>} /\ more(n) \in A
  <2>1. chat[n] \in DOMAIN log
    OBVIOUS
  <2>2. e(n) \in Entries(log) /\ Prompt!Marker \in Entries(log)
    BY <2>1 DEF Entries
  <2> HIDE DEF e
  <2>3. <<e(n)>> \in A /\ <<Prompt!Marker, e(n)>> \in A
    BY <2>2
  <2> HIDE DEF A
  <2> QED BY <2>3
<1>3. ASSUME NEW n \in 1..m, NEW s, Good(n - 1, s) PROVE Good(n, Turn(n, s))
  <2>1. more(n) \in {<<e(n)>>, <<Prompt!Marker, e(n)>>}
    BY <1>2
  <2> DEFINE en == e(n)
             t == more(n)
  <2>2. en = Prompt!Entry(log[chat[n]], chat[n]) /\ t \in {<<en>>, <<Prompt!Marker, en>>}
    BY <2>1
  <2> HIDE DEF en, t
  <2>3. Renders(log, chat, n, s \o t)
    BY <1>3, <2>2, RenderOne
  <2> QED BY <2>3 DEF t
<1>4. ASSUME NEW n \in 1..m, NEW s \in A PROVE Turn(n, s) \in A
  <2>1. more(n) \in A
    BY <1>2
  <2> HIDE DEF more
  <2> QED BY <2>1
<1>5. ASSUME NEW s, NEW n, Good(n, s) PROVE s \in A
  BY <1>5 DEF Renders
<1>6. Good(0, <<>>)
  BY <1>1 DEF Renders
<1> HIDE DEF A, Turn, m, Good
<1>7. f \in [1..m -> [A -> A]] /\ \A n \in 1..m, s \in A : f[n][s] = Turn(n, s)
  BY <1>4
<1>8. PICK g \in [0..m -> A] : g[0] = <<>> /\ \A n \in 1..m : g[n] = f[n][g[n - 1]]
  <2> HIDE DEF f
  <2>1. f \in Steps(A, m)
    BY <1>7 DEF Steps
  <2>2. Runs(A, <<>>, m, f) # {}
    BY <1>1, <2>1, Recursion
  <2> QED BY <2>2 DEF Runs
<1>9. ASSUME NEW n \in 0..m PROVE g[n] = Step(g, n)
  <2>1. CASE n = 0
    BY <1>8, <2>1
  <2>2. CASE n # 0
    <3>1. n \in 1..m /\ n - 1 \in 0..m
      BY <1>1, <2>2
    <3>2. g[n - 1] \in A
      BY <3>1
    <3> HIDE DEF f
    <3> QED BY <1>7, <1>8, <2>2, <3>1, <3>2
  <2> QED BY <2>1, <2>2
<1>10. g = [n \in 0..m |-> Step(g, n)]
  <2>1. g = [n \in 0..m |-> g[n]]
    OBVIOUS
  <2> HIDE DEF Step
  <2> QED BY <1>9, <2>1
<1> DEFINE h == Prompt!Rendered(log, chat)
<1>11. h = CHOOSE k : k = [n \in 0..m |-> Step(k, n)]
  BY DEF Prompt!Rendered, m, Turn
<1>12. h = [n \in 0..m |-> Step(h, n)]
  <2> HIDE DEF Step, h
  <2> QED BY <1>10, <1>11
<1> DEFINE T == {n \in 0..m : Good(n, h[n])}
<1> HIDE DEF h
<1>13. 0 \in T
  <2>1. h[0] = <<>>
    BY <1>1, <1>12
  <2> QED BY <1>1, <1>6, <2>1
<1>14. ASSUME NEW n \in 1..m, n - 1 \in T PROVE n \in T
  <2>1. n \in 0..m /\ n # 0
    BY <1>1
  <2>2. h[n] = Turn(n, h[n - 1])
    BY <1>12, <2>1
  <2> QED BY <1>3, <1>14, <2>1, <2>2
<1>15. m \in T
  <2> HIDE DEF T
  <2>1. 0..m \subseteq T
    BY <1>1, <1>13, <1>14, InductionTo
  <2> QED BY <1>1, <2>1
<1> QED BY <1>15 DEF Good, m, h

\* Where there is a human's message there is a last one.
LEMMA LastHumanIs ==
  ASSUME NEW E, NEW h \in Seq(E), NEW i \in 1..Len(h), h[i].human
  PROVE  \E l \in 1..Len(h) : l \in Prompt!LastHuman(h)
<1> DEFINE n == Len(h)
           S == {j \in 1..n : h[j].human}
           T == {n - j : j \in S}
<1>1. n \in Nat /\ i \in S
  OBVIOUS
<1> HIDE DEF n
<1>2. T \in SUBSET Nat /\ T # {}
  BY <1>1
<1>3. PICK d \in T : \A k \in T : d <= k
  <2> HIDE DEF T
  <2> QED BY <1>2, LeastNumber
<1>4. PICK l \in S : d = n - l
  OBVIOUS
<1>5. ASSUME NEW j \in S PROVE j <= l
  <2>1. n - j \in T /\ n - l <= n - j
    BY <1>3, <1>4
  <2>2. j \in Nat /\ l \in Nat
    OBVIOUS
  <2> QED BY <1>1, <2>1, <2>2
<1>6. \A x : x \in DOMAIN h <=> x \in 1..n
  BY DEF n
<1>7. l \in 1..n /\ h[l].human /\ \A j \in 1..n : h[j].human => j <= l
  BY <1>5
<1> QED BY <1>6, <1>7 DEF Prompt!LastHuman, n

\* What is left is an end that fits or is one message or begins with the last
\* of a human, and that message is in it.
LEMMA TrimIs ==
  ASSUME NEW E, NEW h \in Seq(E), h # <<>>
  PROVE  \E k \in 1..Len(h) :
           /\ Prompt!Trim(h) = SubSeq(h, k, Len(h))
           /\ \/ SystemTokens + Prompt!Tokens(SubSeq(h, k, Len(h))) <= Budget
              \/ k = Len(h) \/ k \in Prompt!LastHuman(h)
           /\ \A l \in Prompt!LastHuman(h) : k <= l
<1> DEFINE n == Len(h)
           stop(k) == \/ SystemTokens + Prompt!Tokens(SubSeq(h, k, Len(h))) <= Budget
                      \/ k = Len(h) \/ k \in Prompt!LastHuman(h)
           First(k) == stop(k) /\ \A j \in 1 .. k - 1 : ~stop(j)
           S == {k \in 1..n : stop(k)}
           c == CHOOSE k \in DOMAIN h : First(k)
<1>1. n \in Nat /\ n # 0 /\ stop(n) /\ DOMAIN h = 1..n
  OBVIOUS
<1>2. Prompt!Trim(h) = SubSeq(h, c, Len(h))
  BY DEF Prompt!Trim
<1>3. \A l \in Prompt!LastHuman(h) : l \in 1..n /\ stop(l)
  BY <1>1 DEF Prompt!LastHuman
<1> HIDE DEF stop, n
<1>4. S \in SUBSET Nat /\ S # {}
  BY <1>1
<1>5. PICK k \in S : \A j \in S : k <= j
  <2> HIDE DEF S
  <2> QED BY <1>4, LeastNumber
<1>6. k \in DOMAIN h /\ First(k)
  <2>1. \A j \in 1 .. k - 1 : j \in 1..n /\ ~(k <= j)
    BY <1>1
  <2> QED BY <1>1, <1>5, <2>1
<1>7. c \in DOMAIN h /\ First(c)
  <2> HIDE DEF First
  <2> QED BY <1>6
<1> HIDE DEF c
<1>8. ASSUME NEW l \in Prompt!LastHuman(h) PROVE c <= l
  <2>1. l \in 1..n /\ stop(l) /\ c \in 1..n
    BY <1>1, <1>3, <1>7
  <2>2. ~(l \in 1 .. c - 1)
    BY <1>7, <2>1
  <2> QED BY <1>1, <2>1, <2>2
<1>9. c \in 1..Len(h)
  BY <1>1, <1>7 DEF n
<1>10. stop(c)
  BY <1>7
<1> QED BY <1>2, <1>8, <1>9, <1>10 DEF stop

\* What a room made of a log that is no longer than a page remembers of it.
LEMMA PromptOf ==
  ASSUME NEW log \in Seq(PromptRows), Limit \in Nat, Len(log) <= Limit
  PROVE  LET m == Prompt!build(log)
             R == {e.seq : e \in Elements(m)} \ {0}
         IN  /\ m \in Seq(Entries(log))
             /\ R \subseteq Told(log)
             /\ \A s \in Told(log) \ R : \A k \in R : Prompt!Before(log, s, k)
             /\ \A s \in Told(log) : Prompt!IsHuman(log[s]) => \E k \in R : Prompt!IsHuman(log[k])
             /\ \/ SystemTokens + Prompt!Tokens(m) <= Budget \/ Len(m) <= 1 \/ m[1].human
<1>1. PICK chat \in Seq(DOMAIN log) :
        /\ Ordered(chat, Upward(log)) /\ Elements(chat) = Told(log)
        /\ Prompt!History(log, Prompt!SinceReset(log, Prompt!fetch_conversation_items(log))) =
             Prompt!Rendered(log, chat)[Len(chat)]
  BY ChatIs
<1> DEFINE h == Prompt!Rendered(log, chat)[Len(chat)]
           m == Prompt!build(log)
           Is(a) == Prompt!Entry(log[chat[a]], chat[a])
           R == {e.seq : e \in Elements(m)} \ {0}
           n == Len(h)
           D == Told(log)
           mark == Prompt!Marker
           Human(s) == Prompt!IsHuman(log[s])
           O == Upward(log)
           E == Entries(log)
<1>2. m = Prompt!Trim(h)
  BY <1>1 DEF Prompt!build
<1>3. /\ h \in Seq(E)
      /\ \A i \in 1..Len(h) : h[i] = mark \/ \E a \in 1..Len(chat) : h[i] = Is(a)
      /\ \A a \in 1..Len(chat) : \E i \in 1..Len(h) : h[i] = Is(a)
      /\ \A i, j \in 1..Len(h) : i < j /\ h[i].seq # 0 /\ h[j].seq # 0 => <<h[i].seq, h[j].seq>> \in O
  BY <1>1, RenderedIs DEF Renders
<1>4. /\ mark.seq = 0 /\ ~mark.human
      /\ \A a : Is(a).seq = chat[a] /\ (Is(a).human <=> Human(chat[a]))
  BY EntryIs
<1>5. /\ \A a \in 1..Len(chat) : chat[a] \in D
      /\ \A s \in D : s # 0 /\ s \in DOMAIN log /\ \E a \in 1..Len(chat) : chat[a] = s
  <2>1. \A s \in Elements(chat) : s # 0 /\ s \in DOMAIN log
    BY DEF Elements
  <2> QED BY <1>1, <2>1 DEF Elements
<1>6. \A s \in D, k \in D : <<s, k>> \in O /\ s # k => Prompt!Before(log, s, k)
  BY <1>5, BeforeIsOrder DEF Upward
<1> HIDE DEF h, Is, D, mark, Human, O, E
<1>7. ASSUME NEW i \in 1..Len(h) 
      PROVE  h[i] = mark \/ (h[i].seq \in D /\ h[i].seq # 0 /\ (h[i].human <=> Human(h[i].seq)))
  <2>1. CASE h[i] = mark
    BY <2>1
  <2>2. ASSUME NEW a \in 1..Len(chat), h[i] = Is(a)
        PROVE  h[i].seq \in D /\ h[i].seq # 0 /\ (h[i].human <=> Human(h[i].seq))
    <3>1. h[i].seq = chat[a] /\ (h[i].human <=> Human(chat[a]))
      BY <1>4, <2>2
    <3>2. chat[a] \in D /\ chat[a] # 0
      BY <1>5
    <3> QED BY <3>1, <3>2
  <2> QED BY <1>3, <2>1, <2>2
<1>8. ASSUME NEW s \in D PROVE \E i \in 1..Len(h) : h[i].seq = s /\ (h[i].human <=> Human(s))
  <2>1. PICK a \in 1..Len(chat) : chat[a] = s
    BY <1>5
  <2>2. PICK i \in 1..Len(h) : h[i] = Is(a)
    BY <1>3
  <2> QED BY <1>4, <2>1, <2>2
<1> HIDE DEF m, R
<1>9. CASE h = <<>>
  <2>1. m = <<>>
    BY <1>2, <1>9 DEF Prompt!Trim
  <2>2. R = {} /\ Len(m) <= 1 /\ m \in Seq(E)
    BY <2>1 DEF R, Elements
  <2>3. D = {}
    BY <1>8, <1>9
  <2> QED BY <2>2, <2>3 DEF m, R, D, E, Human
<1>10. CASE h # <<>>
  <2>1. PICK k \in 1..n :
          /\ m = SubSeq(h, k, n)
          /\ SystemTokens + Prompt!Tokens(m) <= Budget \/ k = n \/ k \in Prompt!LastHuman(h)
          /\ \A l \in Prompt!LastHuman(h) : k <= l
    BY <1>2, <1>3, <1>10, TrimIs
  <2>2. /\ m \in Seq(E) /\ Len(m) = n - k + 1 /\ n \in Nat
        /\ \A i \in 1..Len(m) : m[i] = h[k + i - 1] /\ k + i - 1 \in k..n
    BY <1>3, <2>1
  <2>3. ASSUME NEW i \in k..n PROVE h[i] \in Elements(m)
    <3> DEFINE p == i - k + 1
    <3>1. p \in 1..Len(m) /\ k + p - 1 = i
      BY <2>2
    <3> HIDE DEF p
    <3>2. m[p] = h[i]
      BY <2>2, <3>1
    <3> QED BY <3>1, <3>2 DEF Elements
  <2>4. ASSUME NEW s \in R PROVE s # 0 /\ s \in D /\ \E i \in k..n : h[i].seq = s
    <3>1. PICK p \in 1..Len(m) : s = m[p].seq
      BY DEF R, Elements
    <3>2. s # 0
      BY DEF R
    <3>3. k + p - 1 \in k..n /\ h[k + p - 1].seq = s /\ k + p - 1 \in 1..n
      BY <2>2, <3>1
    <3> QED BY <1>4, <1>7, <3>2, <3>3
  <2>5. R \subseteq D
    BY <2>4
  <2>6. ASSUME NEW s \in D \ R, NEW x \in R PROVE Prompt!Before(log, s, x)
    <3>1. PICK i \in 1..Len(h) : h[i].seq = s
      BY <1>8
    <3>2. PICK j \in k..n : h[j].seq = x
      BY <2>4
    <3>3. ~(i \in k..n)
      BY <1>5, <2>3, <3>1 DEF R
    <3>4. i < j /\ j \in 1..Len(h)
      BY <2>2, <3>3
    <3>5. <<s, x>> \in O
      BY <1>3, <1>5, <2>4, <3>1, <3>2, <3>4
    <3> QED BY <1>6, <2>4, <3>5
  <2>7. ASSUME NEW s \in D, Human(s) PROVE \E x \in R : Human(x)
    <3>1. PICK i \in 1..Len(h) : h[i].human
      BY <1>8, <2>7
    <3>2. PICK l \in 1..Len(h) : l \in Prompt!LastHuman(h)
      BY <1>3, <3>1, LastHumanIs
    <3>3. h[l].human /\ k <= l
      BY <2>1, <3>2 DEF Prompt!LastHuman
    <3>4. h[l].seq \in D /\ h[l].seq # 0 /\ Human(h[l].seq)
      BY <1>4, <1>7, <3>3
    <3>5. h[l] \in Elements(m)
      <4>1. l \in k..n
        BY <2>2, <3>2, <3>3
      <4> QED BY <2>3, <4>1
    <3> QED BY <3>4, <3>5 DEF R
  <2>8. SystemTokens + Prompt!Tokens(m) <= Budget \/ Len(m) <= 1 \/ m[1].human
    <3>1. CASE k = n
      BY <2>2, <3>1
    <3>2. CASE k \in Prompt!LastHuman(h)
      <4>1. h[k].human
        BY <3>2 DEF Prompt!LastHuman
      <4>2. m[1] = h[k]
        BY <2>2
      <4> QED BY <4>1, <4>2
    <3> QED BY <2>1, <3>1, <3>2
  <2> QED BY <2>2, <2>5, <2>6, <2>7, <2>8 DEF m, R, D, E, Human
<1> QED BY <1>9, <1>10

\* A room's agent knows what its rows gave when it was made, and the rows stay.
PromptInv ==
  /\ hpNow \in Nat /\ hpMade \in Nat
  /\ hpSent \subseteq PromptRows /\ hpLog \in Seq(PromptRows)
  /\ hpRoom # None => /\ hpRoom.seen \in 0..Len(hpLog)
                      /\ hpRoom.messages = Prompt!build(SubSeq(hpLog, 1, hpRoom.seen))

LEMMA MadeIsARow ==
  ASSUME NEW form \in Prompt!Forms, NEW size \in Sizes, NEW ts \in Nat, NEW id \in Nat
  PROVE  [name |-> form.name, kind |-> form.kind, actor |-> form.actor, size |-> size,
          ts |-> ts, id |-> id] \in PromptRows
BY DEF PromptRows

LEMMA PromptStep ==
  ASSUME PromptInv, [Prompt!HeadNext]_hpVars
  PROVE  PromptInv'
<1> DEFINE Room(log, room) ==
             room # None => /\ room.seen \in 0..Len(log)
                            /\ room.messages = Prompt!build(SubSeq(log, 1, room.seen))
<1>1. /\ hpNow \in Nat /\ hpMade \in Nat
      /\ hpSent \subseteq PromptRows /\ hpLog \in Seq(PromptRows) /\ Room(hpLog, hpRoom)
  BY DEF PromptInv
<1>2. SUFFICES /\ hpNow' \in Nat /\ hpMade' \in Nat
               /\ hpSent' \subseteq PromptRows /\ hpLog' \in Seq(PromptRows)
               /\ Room(hpLog', hpRoom')
  BY DEF PromptInv
<1>3. ASSUME NEW form \in Prompt!Forms, NEW size \in Sizes, Prompt!Make(form, size)
      PROVE  hpMade' \in Nat /\ hpSent' \subseteq PromptRows
  <2> DEFINE row == [name |-> form.name, kind |-> form.kind, actor |-> form.actor,
                     size |-> size, ts |-> hpNow, id |-> hpMade]
  <2>1. row \in PromptRows
    BY <1>1, MadeIsARow
  <2>2. hpSent' = hpSent \cup {row} /\ hpMade' = hpMade + 1
    BY <1>3 DEF Prompt!Make
  <2> HIDE DEF row
  <2> QED BY <1>1, <2>1, <2>2
<1>4. CASE Prompt!Say \/ Prompt!Other
  <2>1. \E form \in Prompt!Forms, size \in Sizes : Prompt!Make(form, size)
    BY <1>4 DEF Prompt!Say, Prompt!Other
  <2>2. hpNow' = hpNow /\ hpLog' = hpLog /\ hpRoom' = hpRoom
    BY <1>4 DEF Prompt!Say, Prompt!Other
  <2> HIDE DEF Room
  <2> QED BY <1>1, <1>3, <2>1, <2>2
<1>5. CASE Prompt!WriterRun
  <2>1. PICK f \in hpSent : hpSent' = hpSent \ {f} /\ hpLog' = Append(hpLog, f)
    BY <1>5 DEF Prompt!WriterRun
  <2>2. hpNow' = hpNow /\ hpMade' = hpMade /\ hpRoom' = hpRoom
    BY <1>5 DEF Prompt!WriterRun
  <2>3. f \in PromptRows
    BY <1>1, <2>1
  <2> DEFINE log == Append(hpLog, f)
  <2>4. /\ log \in Seq(PromptRows) /\ Len(log) = Len(hpLog) + 1 /\ Len(hpLog) \in Nat
        /\ \A i \in 1..Len(hpLog) : log[i] = hpLog[i]
    BY <1>1, <2>3
  <2> HIDE DEF log
  <2>5. ASSUME NEW n \in 0..Len(hpLog) PROVE n \in 0..Len(log) /\ SubSeq(log, 1, n) = SubSeq(hpLog, 1, n)
    <3>1. n \in 0..Len(log) /\ n \in Nat
      BY <2>4
    <3>2. \A i \in 1..n : log[i] = hpLog[i]
      BY <2>4
    <3>3. SubSeq(log, 1, n) = [i \in 1..n |-> log[i]] /\ SubSeq(hpLog, 1, n) = [i \in 1..n |-> hpLog[i]]
      <4>1. /\ \A i \in 1..n : 1 + i - 1 = i
            /\ n - 1 + 1 = n
        BY <3>1
      <4> QED BY <1>1, <2>4, <3>1, <4>1
    <3> QED BY <3>1, <3>2, <3>3
  <2>6. Room(log, hpRoom)
    BY <1>1, <2>5
  <2> HIDE DEF Room
  <2>7. hpSent' \subseteq PromptRows /\ hpLog' = log
    BY <1>1, <2>1 DEF log
  <2> QED BY <1>1, <2>2, <2>4, <2>6, <2>7
<1>6. CASE Prompt!Open
  <2>1. UNCHANGED <<hpNow, hpSent, hpLog, hpMade>>
    BY <1>6 DEF Prompt!Open
  <2> DEFINE n == Len(hpLog)
             room == [seen |-> n, messages |-> Prompt!build(hpLog)]
  <2>2. n \in 0..n /\ SubSeq(hpLog, 1, n) = hpLog
    BY <1>1
  <2>3. room.seen = n /\ room.messages = Prompt!build(hpLog)
    OBVIOUS
  <2>4. hpRoom' = hpRoom \/ hpRoom' = room
    BY <1>6 DEF Prompt!Open
  <2> HIDE DEF room
  <2>5. Room(hpLog, room)
    BY <2>2, <2>3
  <2> HIDE DEF Room
  <2>6. Room(hpLog, hpRoom')
    BY <1>1, <2>4, <2>5
  <2> QED BY <1>1, <2>1, <2>6
<1>7. CASE Prompt!RoomLost
  <2>1. /\ hpNow' = hpNow /\ hpMade' = hpMade /\ hpLog' = hpLog /\ hpRoom' = None
        /\ hpSent' \in {hpSent, {}}
    BY <1>7 DEF Prompt!RoomLost
  <2> QED BY <1>1, <2>1
<1>8. CASE Prompt!Tick
  <2>1. hpNow' = hpNow + 1 /\ UNCHANGED <<hpSent, hpLog, hpRoom, hpMade>>
    BY <1>8 DEF Prompt!Tick
  <2> QED BY <1>1, <2>1
<1>9. CASE UNCHANGED hpVars
  BY <1>1, <1>9 DEF hpVars
<1> HIDE DEF Room
<1> QED BY <1>4, <1>5, <1>6, <1>7, <1>8, <1>9 DEF Prompt!HeadNext, Prompt!hpVars, hpVars

\* What the rows a room was made of say of the log now.
LEMMA PromptHas ==
  ASSUME PromptInv, Limit \in Nat
  PROVE  PromptIsRecent
<1> SUFFICES ASSUME hpRoom # None, hpRoom.seen <= Limit
             PROVE  /\ Prompt!Remembered \subseteq Prompt!Current
                    /\ \A s \in Prompt!Current \ Prompt!Remembered :
                         \A k \in Prompt!Remembered : Prompt!Before(hpLog, s, k)
                    /\ \A s \in Prompt!Current : Prompt!IsHuman(hpLog[s]) =>
                         \E k \in Prompt!Remembered : Prompt!IsHuman(hpLog[k])
                    /\ \/ SystemTokens + Prompt!Tokens(hpRoom.messages) <= Budget
                       \/ Len(hpRoom.messages) <= 1 \/ hpRoom.messages[1].human
  BY DEF PromptIsRecent, Prompt!PromptIsRecent
<1> DEFINE n == hpRoom.seen
           log == SubSeq(hpLog, 1, n)
           m == hpRoom.messages
           R == {e.seq : e \in Elements(m)} \ {0}
<1>1. n \in 0..Len(hpLog) /\ n \in Nat /\ n <= Limit /\ m = Prompt!build(log) /\ hpLog \in Seq(PromptRows)
  BY DEF PromptInv
<1> HIDE DEF n
<1>2. log \in Seq(PromptRows) /\ Len(log) = n /\ \A i \in 1..n : log[i] = hpLog[i]
  BY <1>1
<1> HIDE DEF log, m
<1>3. /\ m \in Seq(Entries(log))
      /\ R \subseteq Told(log)
      /\ \A s \in Told(log) \ R : \A k \in R : Prompt!Before(log, s, k)
      /\ \A s \in Told(log) : Prompt!IsHuman(log[s]) => \E k \in R : Prompt!IsHuman(log[k])
      /\ \/ SystemTokens + Prompt!Tokens(m) <= Budget \/ Len(m) <= 1 \/ m[1].human
  BY <1>1, <1>2, PromptOf
<1>4. Prompt!Remembered = R
  <2> HIDE DEF R
  <2>1. Prompt!Range(m) = Elements(m)
    BY <1>3, PromptRange
  <2> QED BY <2>1 DEF Prompt!Remembered, R, m
<1>5. \A a, b \in 1..n : Prompt!Before(log, a, b) <=> Prompt!Before(hpLog, a, b)
  BY <1>2 DEF Prompt!Before
<1>6. Told(log) = Prompt!Current
  <2>1. DOMAIN log = 1..n
    BY <1>2
  <2> DEFINE kind(s) == Prompt!Kind(hpLog[s])
             then(s) == Prompt!Kind(log[s])
  <2>2. \A s \in 1..n : then(s) = kind(s)
    BY <1>2
  <2>3. Prompt!Current =
          {s \in {i \in 1..n : kind(i) \notin {"", "chat:reset"}} :
             \A r \in 1..n : kind(r) = "chat:reset" => Prompt!Before(hpLog, r, s)}
    BY DEF Prompt!Current, Prompt!Messages, n
  <2>4. Told(log) = {s \in DOMAIN log : /\ then(s) \notin {"", "chat:reset"}
                                        /\ \A r \in DOMAIN log : then(r) = "chat:reset" => Prompt!Before(log, r, s)}
    BY DEF Told
  <2> HIDE DEF kind, then
  <2> QED BY <1>5, <2>1, <2>2, <2>3, <2>4
<1>7. Told(log) \subseteq 1..n
  <2>1. Prompt!Current \subseteq 1..n
    BY DEF Prompt!Current, Prompt!Messages, n
  <2> QED BY <1>6, <2>1
<1> HIDE DEF R
<1>8. \A s \in Prompt!Current \ R : \A k \in R : Prompt!Before(hpLog, s, k)
  BY <1>3, <1>5, <1>6, <1>7
<1>9. \A s \in Prompt!Current : Prompt!IsHuman(hpLog[s]) => \E k \in R : Prompt!IsHuman(hpLog[k])
  BY <1>2, <1>3, <1>6, <1>7
<1> QED BY <1>3, <1>4, <1>6, <1>8, <1>9 DEF m

\* A room that is made again while the log is no longer than a page knows the
\* end of the conversation, from the last reset on, with the last message of a
\* human in it, and is over the budget for that message only (runtime/head/
\* bundle.rs, build).
THEOREM PromptsAreRecent == ServicesSpec => []PromptIsRecent
<1>1. ServicesInit => PromptInv
  <2>1. <<>> \in Seq(PromptRows)
    OBVIOUS
  <2> QED BY <2>1 DEF ServicesInit, Prompt!HeadInit, PromptInv
<1>2. PromptInv /\ [ServicesNext]_<<which, vars, otherVars>> => PromptInv'
  BY PartSteps, PromptStep
<1>3. PromptInv => PromptIsRecent
  BY PromptHas, ServicesAssumption
<1> QED BY <1>1, <1>2, <1>3, PTL DEF ServicesSpec
=============================================================================

-------------------------- MODULE SubsystemsProofs --------------------------
(***************************************************************************)
(* The composition of the subsystems: it implements the specification of   *)
(* each of them, so that every theorem about one holds of the composition, *)
(* and it keeps the type of each.                                          *)
(*                                                                         *)
(* The subsystems share no state.  A step of the composition is a step of  *)
(* the one in focus, and changes nothing of the others: for each of them   *)
(* it is a step or a stutter.                                              *)
(***************************************************************************)
EXTENDS MCSubsystems, AuthorityProofs, GovernanceProofs, ScaleProofs, ReleaseProofs

(* The state of the composition. *)
SubsystemsVars ==
    <<focus, nsVars, wlVars, ctVars, amVars, trVars, cshVars, pvVars, scVars, rlVars, frVars,
      rdVars, dpVars>>

-----------------------------------------------------------------------------
(* The composition implements each subsystem.                              *)

(* A step of the composition is, for each subsystem, a step or a stutter. *)
LEMMA SubsystemsStep ==
    ASSUME [SubsystemsNext]_SubsystemsVars
    PROVE  /\ [NsNext]_nsVars /\ [WlNext]_wlVars /\ [CtNext]_ctVars /\ [AmNext]_amVars
           /\ [TrNext]_trVars /\ [CshNext]_cshVars /\ [PvNext]_pvVars /\ [ScNext]_scVars
           /\ [RlNext]_rlVars /\ [FrNext]_frVars /\ [RdNext]_rdVars /\ [DpNext]_dpVars
  <1>1. CASE SubsystemsNext BY <1>1, Zenon DEF SubsystemsNext
  <1>2. CASE UNCHANGED SubsystemsVars BY <1>2 DEF SubsystemsVars
  <1>3. QED BY <1>1, <1>2

(* The composition is, for each subsystem, a behaviour of its specification: *)
(* what is proved of a subsystem holds of the composition.                   *)
THEOREM SubsystemsImplementEach ==
    SubsystemsSpec =>
        /\ NsSpec /\ WlSpec /\ CtSpec /\ AmSpec /\ TrSpec /\ CshSpec
        /\ PvSpec /\ ScSpec /\ RlSpec /\ FrSpec /\ RdSpec /\ DpSpec
  <1>1. SubsystemsInit =>
            /\ NsInit /\ WlInit /\ CtInit /\ AmInit /\ TrInit /\ CshInit
            /\ PvInit /\ ScInit /\ RlInit /\ FrInit /\ RdInit /\ DpInit
    BY DEF SubsystemsInit
  <1>2. QED
    BY <1>1, SubsystemsStep, PTL
    DEF SubsystemsSpec, SubsystemsVars, NsSpec, WlSpec, CtSpec, AmSpec, TrSpec, CshSpec, PvSpec,
        ScSpec, RlSpec, FrSpec, RdSpec, DpSpec
-----------------------------------------------------------------------------
(* The types.  What a subsystem's invariant does not already hold of its     *)
(* type is added to it here: the bounds on what the run counts, and the      *)
(* fields that no other property reads.                                      *)

(* The amendment archives: AmInv holds it. *)
LEMMA AmendmentTypes == AmSpec => []AmTypeOK
  <1>1. AmInv => AmTypeOK BY DEF AmInv
  <1>2. QED BY <1>1, AmendmentsInvariance, PTL

(* The genesis directory: DpInv holds all of it. *)
LEMMA DeploymentTypes == DpSpec => []DpTypeOK
  <1>1. DpInv => DpTypeOK BY DEF DpInv, DpProcInv, DpState, DpTypeOK
  <1>2. QED BY <1>1, DeploymentInvariance, PTL

(* The registries and the receipts that committed to them: PvInv holds it. *)
LEMMA ProvenanceTypes == PvSpec => []PvTypeOK
  <1>1. PvInv => PvTypeOK BY DEF PvInv
  <1>2. QED BY <1>1, ProvenanceInvariance, PTL

(* Appending to a sequence makes it one longer. *)
LEMMA AppendLength ==
    ASSUME NEW s, NEW e, IsSequence(s)
    PROVE  Len(s) \in Nat /\ Len(Append(s, e)) = Len(s) + 1
  <1>1. PICK T : T = {s[i] : i \in DOMAIN s} \cup {e} OBVIOUS
  <1>2. s \in Seq({s[i] : i \in DOMAIN s}) BY DEF IsSequence
  <1>3. s \in Seq(T) /\ e \in T BY <1>1, <1>2, SeqMonotonic
  <1>4. QED BY <1>3, AppendProperties, LenProperties

(* The certification run: the directories, the manifest, the run's length.   *)
RlTyped ==
    /\ DOMAIN rlTree = RlScratches /\ DOMAIN rlPrior = RlScratches
    /\ rlManifest # RlNone =>
        /\ rlManifest.archive \in DOMAIN RlArchives /\ rlManifest.env \in RlEnvs
        /\ rlManifest.aggregate \in {"PASS", "FAIL", "HOLD"}
        /\ \A i \in DOMAIN rlManifest.checks : rlManifest.checks[i].verdict \in RlVerdicts
    /\ rlRun # RlNone =>
        /\ rlRun.archive \in DOMAIN RlArchives /\ rlRun.env \in RlEnvs
        /\ rlRun.phase \in DOMAIN RlMembers /\ Len(rlRun.records) <= Len(RlMembers[rlRun.phase])
    /\ rlRuns \in 0..RlMaxRuns

(* A run never records more than the members of its phase. *)
LEMMA RlAppendTyped ==
    ASSUME RlInv, RlTyped, NEW c, RlWorking, RlAppend(c), RlKept
    PROVE  RlTyped'
  <1>1. rlRun # RlNone /\ DOMAIN rlRun = RlRunFields /\ IsSequence(rlRun.records)
        /\ Len(rlRun.records) # Len(RlMembers[rlRun.phase])
    BY DEF RlWorking, RlDone, RlInv, RlRecordsEarned
  <1>2. /\ rlRun'.records = Append(rlRun.records, c) /\ rlRun'.archive = rlRun.archive
        /\ rlRun'.env = rlRun.env /\ rlRun'.phase = rlRun.phase
    BY <1>1 DEF RlAppend, RlRunFields
  <1>3. Len(rlRun.records) \in Nat /\ Len(rlRun'.records) = Len(rlRun.records) + 1
    BY <1>1, <1>2, AppendLength
  <1>4. PICK members : members = RlMembers[rlRun.phase] OBVIOUS
  <1>5. Len(members) \in Nat BY <1>1, <1>4, RlAssumption, LenProperties DEF RlTyped
  <1>6. Len(rlRun.records) <= Len(members) /\ Len(rlRun.records) # Len(members)
    BY <1>1, <1>4 DEF RlTyped
  <1>7. Len(rlRun'.records) <= Len(members) BY <1>3, <1>5, <1>6
  <1>8. QED BY <1>1, <1>2, <1>4, <1>7 DEF RlTyped, RlKept

(* Release: every manifest is of a known archive and environment, with a     *)
(* verdict of the orchestrator's vocabulary for each check.                  *)
LEMMA ReleaseTypes == RlSpec => []RlTypeOK
  <1>0. RlMaxRuns \in Nat BY RlAssumption
  <1>1. RlInit => RlTyped
    <2>1. 0 \in 0..RlMaxRuns BY <1>0
    <2>2. QED BY <2>1 DEF RlInit, RlTyped
  <1>2. RlInv /\ RlTyped /\ [RlNext]_rlVars => RlTyped'
    <2> SUFFICES ASSUME RlInv, RlTyped, [RlNext]_rlVars PROVE RlTyped' OBVIOUS
    <2>1. ASSUME rlRuns < RlMaxRuns PROVE rlRuns + 1 \in 0..RlMaxRuns BY <1>0, <2>1 DEF RlTyped
    <2>2. ASSUME NEW a, NEW s, RlPreflightFails(a, s) PROVE RlTyped'
      <3>1. rlRuns' \in 0..RlMaxRuns BY <2>1, <2>2 DEF RlPreflightFails
      <3>2. DOMAIN rlTree' = RlScratches /\ UNCHANGED <<rlPrior, rlManifest, rlRun>>
        BY <2>2 DEF RlPreflightFails, RlTyped
      <3>3. QED BY <3>1, <3>2 DEF RlTyped
    <2>3. ASSUME NEW a \in DOMAIN RlArchives, NEW e \in RlEnvs, NEW s, NEW phase \in DOMAIN RlMembers,
                 NEW prior, NEW worktree, NEW resume, RlStart(a, e, s, phase, prior, worktree, resume)
          PROVE  RlTyped'
      <3>1. rlRuns' \in 0..RlMaxRuns BY <2>1, <2>3 DEF RlStart
      <3>2. DOMAIN rlTree' = RlScratches /\ DOMAIN rlPrior' = RlScratches BY <2>3 DEF RlStart, RlTyped
      <3>3. rlRun'.archive = a /\ rlRun'.env = e /\ rlRun'.phase = phase /\ rlRun'.records = <<>>
        BY <2>3 DEF RlStart
      <3>4. Len(rlRun'.records) <= Len(RlMembers[phase])
        <4>1. Len(RlMembers[phase]) \in Nat BY <2>3, RlAssumption, LenProperties
        <4>2. Len(rlRun'.records) = 0 BY <3>3
        <4>3. QED BY <4>1, <4>2
      <3>5. rlManifest' = rlManifest BY <2>3 DEF RlStart
      <3>6. QED BY <3>1, <3>2, <3>3, <3>4, <3>5 DEF RlTyped
    <2>4. CASE RlResume BY <2>4, RlAppendTyped DEF RlResume
    <2>5. CASE RlExecute BY <2>5, RlAppendTyped DEF RlExecute
    <2>6. CASE RlFinish
      <3>1. rlRun # RlNone /\ rlRun' = RlNone /\ UNCHANGED <<rlTree, rlPrior, rlRuns>> BY <2>6 DEF RlFinish
      <3>2. /\ rlManifest'.archive = rlRun.archive /\ rlManifest'.env = rlRun.env
            /\ rlManifest'.checks = rlRun.records
            /\ rlManifest'.aggregate = RlAggregate(rlRun.records)
        BY <2>6 DEF RlFinish, RlManifestOf
      <3>3. rlManifest'.aggregate \in {"PASS", "FAIL", "HOLD"} BY <3>2 DEF RlAggregate
      <3>4. \A i \in DOMAIN rlManifest'.checks : rlManifest'.checks[i].verdict \in RlVerdicts
        BY <3>1, <3>2 DEF RlInv, RlRecordsEarned
      <3>5. QED BY <3>1, <3>2, <3>3, <3>4 DEF RlTyped
    <2>7. CASE RlCrash BY <2>7 DEF RlCrash, RlTyped
    <2>8. CASE UNCHANGED rlVars BY <2>8 DEF rlVars, RlTyped
    <2>9. QED BY <2>2, <2>3, <2>4, <2>5, <2>6, <2>7, <2>8 DEF RlNext
  <1>3. RlTyped => RlTypeOK BY DEF RlTyped, RlTypeOK, RlIsManifest
  <1>4. QED BY <1>1, <1>2, <1>3, ReleaseInvariance, PTL DEF RlSpec

(* The bundle phase: entries of the cache on disk and of the cache in the    *)
(* run's hands are about contents there are.                                 *)
FrCacheTyped(cache) == \A e \in cache : {e.base, e.cand} \subseteq FrContents

FrTyped ==
    /\ frCorpus \in FrCorpora /\ frRuns \in 0..FrMaxRuns
    /\ frProved \subseteq FrContents \X FrContents
    /\ FrCacheTyped(frCache)
    /\ frRun # FrNone =>
        /\ frRun.pc \in {"links", "assemble", "verify"} /\ frRun.failed \subseteq FrSections
        /\ FrCacheTyped(frRun.cache)
    /\ frManifest # FrNone => frManifest.aggregate \in FrAggregates

(* An archive that was found is a content of the archives directory. *)
LEMMA FrResolved ==
    ASSUME FrTyped, NEW content, NEW file, FrResolve(content, file) # FrNone
    PROVE  FrResolve(content, file) \in FrContents
  <1>1. \A f \in DOMAIN frCorpus : frCorpus[f] \in FrContents BY FrAssumption DEF FrTyped
  <1>2. QED BY <1>1 DEF FrResolve

(* An item is recorded with a cache of the same kind. *)
LEMMA FrRecordedTyped ==
    ASSUME FrInv, FrTyped, frRun # FrNone, NEW item, NEW cache, NEW stop,
           FrRecorded(item, cache, stop), FrCacheTyped(cache),
           frProved' \subseteq FrContents \X FrContents, UNCHANGED <<frCorpus, frCache, frManifest, frRuns>>
    PROVE  FrTyped'
  <1>1. DOMAIN frRun = FrRunFields BY DEF FrInv
  <1>2. /\ frRun'.cache = cache /\ frRun'.failed = frRun.failed
        /\ frRun'.pc = IF stop \/ Len(frRun.items) + 1 = Len(frRun.todo) THEN "assemble" ELSE frRun.pc
    BY <1>1 DEF FrRecorded, FrRunFields
  <1>3. frRun'.pc \in {"links", "assemble", "verify"} BY <1>2 DEF FrTyped
  <1>4. FrCacheTyped(frCache') BY DEF FrTyped, FrCacheTyped
  <1>5. QED BY <1>2, <1>3, <1>4 DEF FrTyped

(* Frontier: every pair that was proved, or is in a cache, is of contents    *)
(* that are in the archives directory.                                       *)
LEMMA FrontierTypes == FrSpec => []FrTypeOK
  <1>0. FrMaxRuns \in Nat BY FrAssumption
  <1>1. FrInit => FrTyped
    <2>1. 0 \in 0..FrMaxRuns BY <1>0
    <2>2. QED BY <2>1 DEF FrInit, FrTyped, FrCacheTyped
  <1>2. FrInv /\ FrTyped /\ [FrNext]_frVars => FrTyped'
    <2> SUFFICES ASSUME FrInv, FrTyped, [FrNext]_frVars PROVE FrTyped' OBVIOUS
    <2>1. ASSUME NEW archive, NEW surf, NEW att, NEW failed \in FrFailures,
                 FrStart(archive, surf, att, failed)
          PROVE  FrTyped'
      <3>1. frRuns' \in 0..FrMaxRuns BY <1>0, <2>1 DEF FrStart, FrTyped
      <3>2. frRun'.cache = frCache /\ frRun'.failed = failed /\ frRun'.pc \in {"links", "assemble"}
        BY <2>1 DEF FrStart
      <3>3. failed \subseteq FrSections BY <2>1, FrAssumption
      <3>4. UNCHANGED <<frCorpus, frCache, frManifest, frProved>> BY <2>1 DEF FrStart
      <3>5. QED BY <3>1, <3>2, <3>3, <3>4 DEF FrTyped, FrCacheTyped
    <2>2. CASE FrExhausted \/ FrNotEvaluated
      <3>1. frRun # FrNone /\ UNCHANGED <<frCorpus, frCache, frManifest, frRuns, frProved>>
        BY <2>2 DEF FrExhausted, FrNotEvaluated, FrOnLink
      <3>2. PICK item, stop : FrRecorded(item, frRun.cache, stop) BY <2>2 DEF FrExhausted, FrNotEvaluated
      <3>3. frProved' \subseteq FrContents \X FrContents /\ FrCacheTyped(frRun.cache) BY <3>1 DEF FrTyped
      <3>4. QED BY <3>1, <3>2, <3>3, FrRecordedTyped
    <2>3. CASE FrFromCache
      <3>1. frRun # FrNone /\ UNCHANGED <<frCorpus, frCache, frManifest, frRuns, frProved>>
        BY <2>3 DEF FrFromCache, FrOnLink
      <3>2. PICK item : FrRecorded(item, frRun.cache, FALSE) BY <2>3 DEF FrFromCache
      <3>3. frProved' \subseteq FrContents \X FrContents /\ FrCacheTyped(frRun.cache) BY <3>1 DEF FrTyped
      <3>4. QED BY <3>1, <3>2, <3>3, FrRecordedTyped
    <2>4. CASE FrEvaluate
      <3>1. frRun # FrNone /\ UNCHANGED <<frCorpus, frCache, frManifest, frRuns>>
        BY <2>4 DEF FrEvaluate, FrOnLink
      <3>2. PICK id, base, cand :
                /\ id = FrIdentity(FrLink)
                /\ base = FrResolve(FrLink.base, FrLink.baseFile)
                /\ cand = FrResolve(FrLink.cand, FrLink.candFile)
        OBVIOUS
      <3>3. PICK v \in FrOutcomes(base, cand) :
                /\ FrRecorded(FrItem(v, id), frRun.cache \cup {FrEntry(id, v)}, FALSE)
                /\ frProved' = IF v = "HOLD" THEN frProved \cup {<<base, cand>>} ELSE frProved
        BY <2>4, <3>2 DEF FrEvaluate
      <3>4. base # FrNone /\ cand # FrNone BY <2>4, <3>2 DEF FrEvaluate
      <3>5. base \in FrContents /\ cand \in FrContents BY <3>2, <3>4, FrResolved
      <3>6. id.base = base /\ id.cand = cand BY <3>2, <3>4 DEF FrIdentity
      <3>7. PICK new : new = FrEntry(id, v) OBVIOUS
      <3>8. new.base = base /\ new.cand = cand BY <3>6, <3>7 DEF FrEntry
      <3>9. FrCacheTyped(frRun.cache \cup {new}) BY <3>1, <3>5, <3>8 DEF FrTyped, FrCacheTyped
      <3>10. frProved' \subseteq FrContents \X FrContents BY <3>3, <3>5 DEF FrTyped
      <3>11. QED BY <3>1, <3>3, <3>7, <3>9, <3>10, FrRecordedTyped
    <2>5. CASE FrAssemble
      <3>1. /\ frRun # FrNone /\ UNCHANGED <<frCorpus, frManifest, frRuns, frProved>>
            /\ frCache' \in {frCache, frRun.cache} /\ frRun' = [frRun EXCEPT !.pc = "verify"]
        BY <2>5 DEF FrAssemble
      <3>2. DOMAIN frRun = FrRunFields BY <3>1 DEF FrInv
      <3>3. frRun'.pc = "verify" /\ frRun'.cache = frRun.cache /\ frRun'.failed = frRun.failed
        BY <3>1, <3>2 DEF FrRunFields
      <3>4. FrCacheTyped(frCache') BY <3>1 DEF FrTyped, FrCacheTyped
      <3>5. QED BY <3>1, <3>3, <3>4 DEF FrTyped
    <2>6. CASE FrConclude
      <3>1. frRun' = FrNone /\ UNCHANGED <<frCorpus, frCache, frRuns, frProved>> BY <2>6 DEF FrConclude
      <3>2. PICK v \in {FrVerifyBundle(frRun), "FAIL"} : frManifest'.aggregate = v BY <2>6 DEF FrConclude
      <3>3. v \in FrAggregates BY <3>2 DEF FrVerifyBundle, FrAggregates
      <3>4. QED BY <3>1, <3>2, <3>3 DEF FrTyped
    <2>7. CASE FrCrash BY <2>7 DEF FrCrash, FrTyped
    <2>8. CASE FrDisturb
      <3>1. frRun' = frRun /\ UNCHANGED <<frManifest, frRuns, frProved>> /\ frCorpus' \in FrCorpora
        BY <2>8 DEF FrDisturb
      <3>2. FrCacheTyped(frCache') BY <2>8 DEF FrDisturb, FrTyped, FrCacheTyped
      <3>3. QED BY <3>1, <3>2 DEF FrTyped
    <2>9. CASE UNCHANGED frVars BY <2>9 DEF frVars, FrTyped
    <2>10. QED BY <2>1, <2>2, <2>3, <2>4, <2>5, <2>6, <2>7, <2>8, <2>9 DEF FrNext
  <1>3. FrInv /\ FrTyped => FrTypeOK
    BY DEF FrInv, FrTyped, FrTypeOK, FrCacheEarned, FrCacheTyped, FrItemsEarned, FrItemEarned, FrItemVerdicts
  <1>4. QED BY <1>1, <1>2, <1>3, FrontierInvariance, PTL DEF FrSpec

(* What the sort does not depend on: the queue, the log, the place and the   *)
(* counters.                                                                 *)
ScTyped ==
    /\ scQueue \in 0..ScMaxQueue /\ scI5 \in Seq(ScLogEntry)
    /\ scPc \in {"idle", "sort", "commit", "effect"}
    /\ scPass \in Nat /\ scSwapped \in BOOLEAN
    /\ scPc = "effect" => scAt <= Len(scBatch)

(* The candidates' names, and none. *)
ScNames == {c.id : c \in ScCands} \cup {""}

(* An entry of a declared operation and a candidate is one. *)
LEMMA ScEntryTyped == \A op \in ScScaleOps, c \in ScNames : ScEntry(op, c) \in ScLogEntry
  BY DEF ScEntry, ScLogEntry, ScNames

(* The log entries written for the refused overflow of a batch. *)
LEMMA ScOverflowedTyped ==
    ASSUME NEW b \in ScBatches, Len(b) > ScCapacity
    PROVE  ScOverflowed(b) \in Seq(ScLogEntry)
  <1>1. b \in Seq(ScCands) /\ ScCapacity \in Nat BY ScAssumption
  <1>2. Len(b) \in Nat BY <1>1, LenProperties
  <1>3. PICK n : n = Len(b) - ScCapacity OBVIOUS
  <1>4. n \in Nat /\ \A i \in 1..n : ScCapacity + i \in 1..Len(b) BY <1>1, <1>2, <1>3
  <1>5. ASSUME NEW i \in 1..n PROVE ScEntry("queue_overflow_refused", b[ScCapacity + i].id) \in ScLogEntry
    <2>1. b[ScCapacity + i] \in ScCands BY <1>1, <1>4, ElementOfSeq
    <2>2. b[ScCapacity + i].id \in ScNames BY <2>1 DEF ScNames
    <2>3. QED BY <2>2, ScEntryTyped DEF ScScaleOps
  <1> HIDE DEF ScLogEntry
  <1>6. ScOverflowed(b) \in [1..n -> ScLogEntry] BY <1>3, <1>5 DEF ScOverflowed
  <1>7. QED BY <1>4, <1>6, SeqDef

(* The candidate to commit is one. *)
LEMMA ScCurrentTyped ==
    ASSUME ScInductive, scAt <= Len(scBatch)
    PROVE  ScCurrent.id \in ScNames
  <1>1. scBatch \in Seq(ScCands) /\ scAt \in Nat \ {0} BY DEF ScInductive, ScPermutes
  <1>2. Len(scBatch) \in Nat BY <1>1, LenProperties
  <1>3. scAt \in 1..Len(scBatch) BY <1>1, <1>2
  <1>4. scOrder[scAt] \in 1..Len(scBatch) BY <1>3 DEF ScInductive, ScPermutes
  <1>5. scBatch[scOrder[scAt]] \in ScCands BY <1>1, <1>4, ElementOfSeq
  <1>6. QED BY <1>5 DEF ScCurrent, ScNames

(* Scale: the scheduler's log, queue and place. *)
LEMMA ScaleTypes == ScSpec => []ScTypeOK
  <1>0. ScMaxQueue \in Nat BY ScAssumption
  <1>1. ScInit => ScTyped
    <2> SUFFICES ASSUME ScInit PROVE ScTyped OBVIOUS
    <2>1. PICK e : e = ScEntry("scheduler_policy_set", "") OBVIOUS
    <2>2. e \in ScLogEntry BY <2>1, ScEntryTyped DEF ScScaleOps, ScNames
    <2>3. scI5 \in Seq(ScLogEntry)
      <3>1. scI5 = <<e>> BY <2>1 DEF ScInit
      <3> HIDE DEF ScLogEntry
      <3>2. QED BY <2>2, <3>1
    <2>4. scSwapped \in BOOLEAN BY Zenon DEF ScInit
    <2>5. scQueue \in 0..ScMaxQueue
      <3>1. scQueue = 0 BY DEF ScInit
      <3>2. QED BY <1>0, <3>1
    <2>6. /\ scPc \in {"idle", "sort", "commit", "effect"} /\ scPass \in Nat
          /\ scPc = "effect" => scAt <= Len(scBatch)
      BY DEF ScInit
    <2>7. QED BY <2>3, <2>4, <2>5, <2>6, Zenon DEF ScTyped
  <1>2. ScInductive /\ ScTyped /\ [ScNext]_scVars => ScTyped'
    <2> SUFFICES ASSUME ScInductive, ScTyped, [ScNext]_scVars PROVE ScTyped' OBVIOUS
    <2>1. scI5 \in Seq(ScLogEntry) BY DEF ScTyped
    <2>2. \A op \in ScScaleOps, c \in ScNames : ScEntry(op, c) \in ScLogEntry BY ScEntryTyped
    <2>3. ASSUME NEW b \in ScBatches, ScSchedule(b) PROVE ScTyped'
      <3>1. PICK x, y, z : /\ x = ScEntry("backpressure_engaged", "")
                           /\ y = ScEntry("backpressure_released", "")
                           /\ z = ScEntry("independence_set_computed", "")
        OBVIOUS
      <3>2. x \in ScLogEntry /\ y \in ScLogEntry /\ z \in ScLogEntry BY <2>2, <3>1 DEF ScScaleOps, ScNames
      <3>3. PICK mid : mid = IF Len(b) > ScCapacity THEN <<x>> \o ScOverflowed(b) \o <<y>> ELSE <<>>
        OBVIOUS
      <3>4. scI5' = scI5 \o mid \o <<z>> BY <2>3, <3>1, <3>3 DEF ScSchedule
      <3>5. <<x>> \in Seq(ScLogEntry) /\ <<y>> \in Seq(ScLogEntry) /\ <<z>> \in Seq(ScLogEntry)
        <4> HIDE DEF ScLogEntry
        <4>1. QED BY <3>2
      <3>6. mid \in Seq(ScLogEntry)
        <4>1. CASE Len(b) > ScCapacity
          <5>1. PICK over : over = ScOverflowed(b) OBVIOUS
          <5>2. over \in Seq(ScLogEntry) BY <4>1, <5>1, ScOverflowedTyped
          <5> HIDE DEF ScLogEntry
          <5>3. <<x>> \o over \in Seq(ScLogEntry) BY <3>5, <5>2, ConcatProperties
          <5>4. (<<x>> \o over) \o <<y>> \in Seq(ScLogEntry) BY <3>5, <5>3, ConcatProperties
          <5>5. QED BY <3>3, <4>1, <5>1, <5>4
        <4>2. CASE ~(Len(b) > ScCapacity) BY <3>3, <4>2, EmptySeq
        <4>3. QED BY <4>1, <4>2
      <3>7. scI5' \in Seq(ScLogEntry)
        <4> HIDE DEF ScLogEntry
        <4>1. scI5 \o mid \in Seq(ScLogEntry) BY <2>1, <3>6, ConcatProperties
        <4>2. QED BY <3>4, <3>5, <4>1, ConcatProperties
      <3>8. QED BY <2>3, <3>7 DEF ScSchedule, ScTyped
    <2>4. CASE ScRefuse
      <3>1. PICK x, y : /\ x = ScEntry("priority_class_assigned", ScCurrent.id)
                        /\ y = ScEntry("queue_overflow_refused", ScCurrent.id)
        OBVIOUS
      <3>2. ScCurrent.id \in ScNames BY <2>4, ScCurrentTyped DEF ScRefuse
      <3>3. x \in ScLogEntry /\ y \in ScLogEntry BY <2>2, <3>1, <3>2 DEF ScScaleOps, ScNames
      <3>4. scI5' = scI5 \o <<x, y>> BY <2>4, <3>1 DEF ScRefuse
      <3>5. scI5' \in Seq(ScLogEntry)
        <4> HIDE DEF ScLogEntry
        <4>1. <<x, y>> \in Seq(ScLogEntry) BY <3>3
        <4>2. QED BY <2>1, <3>4, <4>1, ConcatProperties
      <3>6. QED BY <2>4, <3>5 DEF ScRefuse, scSort, ScTyped
    <2>5. ASSUME NEW op \in {"priority_class_assigned", "queue_overflow_refused"},
                 scAt <= Len(scBatch), scI5' = Append(scI5, ScEntry(op, ScCurrent.id))
          PROVE  scI5' \in Seq(ScLogEntry)
      <3>1. PICK x : x = ScEntry(op, ScCurrent.id) OBVIOUS
      <3>2. ScCurrent.id \in ScNames BY <2>5, ScCurrentTyped
      <3>3. x \in ScLogEntry BY <2>2, <3>1, <3>2 DEF ScScaleOps, ScNames
      <3>4. scI5' = Append(scI5, x) BY <2>5, <3>1
      <3>5. QED
        <4> HIDE DEF ScLogEntry
        <4>1. QED BY <2>1, <3>3, <3>4, AppendProperties
    <2>14. CASE ScCommit
      <3>1. scI5' \in Seq(ScLogEntry) BY <2>5, <2>14 DEF ScCommit
      <3>2. QED BY <2>14, <3>1 DEF ScCommit, scSort, ScTyped
    <2>15. CASE ScEffectRefuses
      <3>1. scI5' \in Seq(ScLogEntry) BY <2>5, <2>15 DEF ScEffectRefuses, ScTyped
      <3>2. QED BY <2>15, <3>1 DEF ScEffectRefuses, scSort, ScTyped
    <2>6. CASE ScBeginPass
      <3>1. scSwapped' \in BOOLEAN BY <2>6, Zenon DEF ScBeginPass
      <3>2. scPass' \in Nat /\ UNCHANGED <<scQueue, scI5, scPc>> /\ scPc = "sort"
        BY <2>6 DEF ScBeginPass, ScTyped
      <3>3. QED BY <3>1, <3>2 DEF ScTyped
    <2>7. CASE ScCompare
      <3>1. scSwapped' \in BOOLEAN BY <2>7 DEF ScCompare, ScTyped
      <3>2. UNCHANGED <<scQueue, scI5, scPc, scPass>> /\ scPc = "sort" BY <2>7 DEF ScCompare
      <3>3. QED BY <3>1, <3>2 DEF ScTyped
    <2>8. CASE ScEndPass \/ ScSorted BY <2>8 DEF ScEndPass, ScSorted, scSort, ScTyped
    <2>9. CASE ScEffect BY <2>9 DEF ScEffect, scSort, ScTyped
    <2>10. CASE ScDone \/ ScAdmitRaises \/ ScEffectRaises
      <3>1. ScIdle BY <2>10 DEF ScDone, ScAdmitRaises, ScEffectRaises
      <3>2. scSwapped' \in BOOLEAN BY <3>1, Zenon DEF ScIdle
      <3>3. scPass' \in Nat /\ scPc' = "idle" /\ UNCHANGED scQueue BY <3>1 DEF ScIdle
      <3>4. scI5' \in Seq(ScLogEntry)
        <4>1. CASE ScAdmitRaises BY <2>5, <4>1 DEF ScAdmitRaises
        <4>2. CASE ScDone \/ ScEffectRaises BY <2>1, <4>2 DEF ScDone, ScEffectRaises
        <4>3. QED BY <2>10, <4>1, <4>2
      <3>5. QED BY <3>2, <3>3, <3>4 DEF ScTyped
    <2>11. CASE ScEnqueue \/ ScRecover
      <3>1. scQueue' \in 0..ScMaxQueue BY <1>0, <2>11 DEF ScEnqueue, ScRecover, ScTyped
      <3>2. QED BY <2>11, <3>1 DEF ScEnqueue, ScRecover, scSort, ScTyped
    <2>12. CASE UNCHANGED scVars BY <2>12 DEF scVars, scSort, ScTyped
    <2>13. QED
      BY <2>3, <2>4, <2>6, <2>7, <2>8, <2>9, <2>10, <2>11, <2>12, <2>14, <2>15 DEF ScNext
  <1>3. ScInductive /\ ScTyped => ScTypeOK BY DEF ScInductive, ScPermutes, ScTyped, ScTypeOK
  <1>4. QED BY <1>1, <1>2, <1>3, ScInductiveInit, ScInductiveNext, PTL DEF ScSpec

(* The calls admitted and not yet written; what was pruned, what is in the   *)
(* log and what is admitted are together within the bound.                   *)
NsAdmitted == {t \in NsThreads : nsPending[t] # NsIdle}
NsRoom == IsFiniteSet(NsAdmitted) /\ NsReceipts <= NsMaxLog

(* Namespace: an admitted call has been given room in the log, so the write  *)
(* that follows it stays in the bound.                                       *)
LEMMA NamespaceTypes == NsSpec => []NsTypeOK
  <1>0. NsMaxLog \in Nat BY NsAssumption
  <1>1. NsInit => NsRoom
    <2> SUFFICES ASSUME NsInit PROVE NsRoom OBVIOUS
    <2>1. NsAdmitted = {} /\ Len(nsLog) = 0 /\ nsPruned = 0 BY DEF NsInit, NsAdmitted
    <2>2. Cardinality(NsAdmitted) = 0 /\ IsFiniteSet(NsAdmitted) BY <2>1, FS_EmptySet
    <2>3. NsReceipts = 0 BY <2>1, <2>2 DEF NsReceipts, NsAdmitted
    <2>4. QED BY <1>0, <2>2, <2>3 DEF NsRoom
  <1>2. NsInv /\ NsRoom /\ [NsNext]_nsVars => NsRoom'
    <2> SUFFICES ASSUME NsInv, NsRoom, [NsNext]_nsVars PROVE NsRoom' OBVIOUS
    <2>1. PICK n, m, c : n = Len(nsLog) /\ m = nsPruned /\ c = Cardinality(NsAdmitted) OBVIOUS
    <2>2. n \in Nat /\ m \in Nat /\ c \in Nat /\ m + n + c <= NsMaxLog
      <3>1. nsLog \in Seq(NsReceipt) /\ nsPruned \in Nat BY DEF NsInv
      <3>2. n \in Nat
        <4> HIDE DEF NsReceipt
        <4>1. QED BY <2>1, <3>1, LenProperties
      <3>3. c \in Nat BY <2>1, FS_CardinalityType DEF NsRoom
      <3>4. m + n + c <= NsMaxLog BY <2>1 DEF NsRoom, NsReceipts, NsAdmitted
      <3>5. QED BY <2>1, <3>1, <3>2, <3>3, <3>4
    <2>3. ASSUME NEW t \in NsThreads, NEW op, NEW s, NEW a, NEW who, NsAdmit(t, op, s, a, who)
          PROVE  NsRoom'
      <3>1. NsAdmitted' \subseteq NsAdmitted \cup {t} BY <2>3 DEF NsAdmit, NsAdmitted, NsInv
      <3>2. t \notin NsAdmitted BY <2>3 DEF NsAdmit, NsAdmitted
      <3>3. /\ IsFiniteSet(NsAdmitted \cup {t})
            /\ Cardinality(NsAdmitted \cup {t}) = c + 1
        BY <2>1, <3>2, FS_AddElement DEF NsRoom
      <3>4. PICK A : A = NsAdmitted' OBVIOUS
      <3>5. IsFiniteSet(A) /\ Cardinality(A) <= c + 1 BY <3>1, <3>3, <3>4, FS_Subset
      <3>6. Cardinality(A) \in Nat BY <3>5, FS_CardinalityType
      <3>7. m + n + c < NsMaxLog /\ Len(nsLog') = n /\ nsPruned' = m
        BY <2>1, <2>3 DEF NsAdmit, NsReceipts, NsAdmitted
      <3>8. m + n + Cardinality(A) <= NsMaxLog BY <1>0, <2>2, <3>5, <3>6, <3>7
      <3>9. NsReceipts' = m + n + Cardinality(A) BY <3>4, <3>7 DEF NsReceipts, NsAdmitted
      <3>10. QED BY <3>4, <3>5, <3>8, <3>9 DEF NsRoom
    <2>4. ASSUME NEW t \in NsThreads, NsWrite(t) PROVE NsRoom'
      <3>1. NsAdmitted' = NsAdmitted \ {t} /\ t \in NsAdmitted
        BY <2>4 DEF NsWrite, NsAdmitted, NsInv
      <3>2. PICK A : A = NsAdmitted' OBVIOUS
      <3>3. IsFiniteSet(A) /\ Cardinality(A) = c - 1
        BY <2>1, <3>1, <3>2, FS_RemoveElement DEF NsRoom
      <3>4. PICK r : r = nsPending[t] OBVIOUS
      <3>5. nsLog' = Append(nsLog, r) /\ r \in NsReceipt /\ nsLog \in Seq(NsReceipt) /\ nsPruned' = m
        BY <2>1, <2>4, <3>4 DEF NsWrite, NsInv
      <3>6. Len(nsLog') = n + 1
        <4> HIDE DEF NsReceipt
        <4>1. QED BY <2>1, <3>5, AppendProperties
      <3>7. NsReceipts' = m + (n + 1) + (c - 1) BY <3>2, <3>3, <3>5, <3>6 DEF NsReceipts, NsAdmitted
      <3>8. QED BY <1>0, <2>2, <3>2, <3>3, <3>7 DEF NsRoom
    <2>5. ASSUME NEW i \in DOMAIN nsLog, NsPrune(i) PROVE NsRoom'
      <3>1. /\ nsLog' = SubSeq(nsLog, i + 1, Len(nsLog)) /\ nsPruned' = m + i /\ nsPending' = nsPending
            /\ nsLog \in Seq(NsReceipt)
        BY <2>1, <2>5 DEF NsPrune, NsInv
      <3>2. i \in 1..n
        <4> HIDE DEF NsReceipt
        <4>1. QED BY <2>1, <2>5, <3>1, LenProperties
      <3>3. Len(nsLog') = n - i
        <4> HIDE DEF NsReceipt
        <4>1. 1 <= i + 1 /\ i + 1 <= n + 1 /\ i \in Nat BY <2>2, <3>2
        <4>2. Len(nsLog') = IF i + 1 <= n THEN n - (i + 1) + 1 ELSE 0
          BY <2>1, <2>2, <3>1, <4>1, SubSeqProperties
        <4>3. QED BY <2>2, <3>2, <4>2
      <3>4. NsAdmitted' = NsAdmitted BY <3>1 DEF NsAdmitted
      <3>5. NsReceipts' = (m + i) + (n - i) + c BY <2>1, <3>1, <3>3, <3>4 DEF NsReceipts, NsAdmitted
      <3>6. QED BY <1>0, <2>2, <3>2, <3>4, <3>5 DEF NsRoom
    <2>6. CASE UNCHANGED nsVars BY <2>6 DEF nsVars, NsRoom, NsReceipts, NsAdmitted
    <2>7. ASSUME NEW t \in NsThreads, NEW s \in NsSpellings, NEW a \in NsArgs,
                 NsClaim(t, s, a) \/ NsAllocate(t, s, a) \/ NsRevoke(t, s, a) \/ NsInvalidate(t, s, a)
          PROVE  NsRoom'
      <3>1. PICK op : NsAdmit(t, op, s, a, "None") BY <2>7 DEF NsClaim, NsAllocate, NsRevoke, NsInvalidate
      <3>2. QED BY <2>3, <3>1
    <2>8. ASSUME NEW t \in NsThreads, NEW s \in NsSpellings, NEW a \in NsArgs, NEW to \in NsAuthorities,
                 NsDelegate(t, s, a, to) \/ NsSupersede(t, s, a, to) \/ NsAdjudicate(t, s, a, to)
          PROVE  NsRoom'
      <3>1. PICK op : NsAdmit(t, op, s, a, to) BY <2>8 DEF NsDelegate, NsSupersede, NsAdjudicate
      <3>2. QED BY <2>3, <3>1
    <2>9. QED BY <2>4, <2>5, <2>6, <2>7, <2>8 DEF NsNext
  <1>3. NsInv /\ NsRoom => NsTypeOK
    <2> SUFFICES ASSUME NsInv, NsRoom PROVE NsTypeOK OBVIOUS
    <2>1. nsLog \in Seq(NsReceipt) /\ nsPruned \in Nat BY DEF NsInv
    <2>2. Len(nsLog) \in Nat
      <3> HIDE DEF NsReceipt
      <3>1. QED BY <2>1, LenProperties
    <2>3. Cardinality(NsAdmitted) \in Nat BY FS_CardinalityType DEF NsRoom
    <2>4. nsPruned + Len(nsLog) + Cardinality(NsAdmitted) <= NsMaxLog
      BY DEF NsRoom, NsReceipts, NsAdmitted
    <2>5. Len(nsLog) <= NsMaxLog /\ nsPruned \in 0..NsMaxLog BY <1>0, <2>1, <2>2, <2>3, <2>4
    <2>6. QED BY <2>1, <2>5 DEF NsTypeOK, NsInv
  <1>4. QED BY <1>1, <1>2, <1>3, NamespaceInvariance, PTL DEF NsSpec

(* The others: their invariants hold their types as they stand. *)
LEMMA InvariantTypes ==
    /\ WlSpec => []WlTypeOK
    /\ CtSpec => []CtTypeOK
    /\ TrSpec => []TrTypeOK
    /\ CshSpec => []CshTypeOK
    /\ RdSpec => []RdTypeOK
  <1>1. WlSpec => []WlTypeOK
    <2>1. WlInv => WlTypeOK BY DEF WlInv
    <2>2. QED BY <2>1, WillInvariance, PTL
  <1>2. CtSpec => []CtTypeOK
    <2>1. CtInv => CtTypeOK BY DEF CtInv
    <2>2. QED BY <2>1, DeferredInvariance, PTL
  <1>3. TrSpec => []TrTypeOK
    <2>1. TrInv => TrTypeOK BY DEF TrInv
    <2>2. QED BY <2>1, TransportInvariance, PTL
  <1>4. CshSpec => []CshTypeOK
    <2>1. CshInductive => CshTypeOK BY DEF CshInductive
    <2>2. QED BY <2>1, CshInductiveInit, CshInductiveNext, PTL DEF CshSpec
  <1>5. RdSpec => []RdTypeOK
    <2>1. RdInv => RdTypeOK BY DEF RdInv
    <2>2. QED BY <2>1, DetachedInvariance, PTL
  <1>6. QED BY <1>1, <1>2, <1>3, <1>4, <1>5

(* The type invariant of the composition.                                    *)
THEOREM SubsystemsTypes == SubsystemsSpec => []SubsystemsTypeOK
  <1>1. /\ NsTypeOK /\ WlTypeOK /\ CtTypeOK /\ AmTypeOK /\ TrTypeOK /\ CshTypeOK
        /\ PvTypeOK /\ ScTypeOK /\ RlTypeOK /\ FrTypeOK /\ RdTypeOK /\ DpTypeOK
        => SubsystemsTypeOK
    BY DEF SubsystemsTypeOK
  <1>2. QED
    BY <1>1, SubsystemsImplementEach, InvariantTypes, NamespaceTypes, AmendmentTypes, ProvenanceTypes,
       ScaleTypes, ReleaseTypes, FrontierTypes, DeploymentTypes, PTL

-----------------------------------------------------------------------------
(* The safety of the subsystems, in the composition that the run checks.     *)

(* Every safety property of a subsystem holds of the composition: the        *)
(* invariants ...                                                            *)
THEOREM SubsystemsSafe ==
    SubsystemsSpec =>
        /\ []NsDelegatesOfHolder /\ []WlRevokedNeverSeeds /\ []AmPassedThroughout
        /\ []TrNonceOnce /\ []TrAnswerCovers /\ []CshAgreement /\ []PvAttenuated
        /\ []ScDependentOrderKept /\ []ScPrioritySettled /\ []RlPassEarned /\ []FrPassEarned
        /\ []RdPassIsOwn /\ []DpQuorumIsOwn
  BY SubsystemsImplementEach, DelegatesAreTheHoldersOwn, RevokedNeverSeeds,
     LedgersPassedThroughout, NoncesRunOnce, AnswersCover, CshAgreementHolds, PathsAttenuate,
     ScDependentOrderHolds, SortSettles, CertificatesAreEarned, BundlePassIsEarned, PassIsTheJobsOwn,
     QuorumIsTheGovernorsOwn, PTL

(* ... and what a step of the composition may never do. *)
THEOREM SubsystemsStepsSafe ==
    SubsystemsSpec =>
        /\ NsOnlyHolderActs /\ NsRevocationPermanent /\ CtSettledNotReentered
        /\ PvWitnessOfRoot /\ PvVerdictMonotone
  BY SubsystemsImplementEach, OnlyTheHolderActs, RevocationIsPermanent, SettledIsNotReentered,
     RootWitnessOpens, VerdictsOnlyWorsen, PTL
=============================================================================

--------------------------- MODULE ReleaseProofs ---------------------------
(***************************************************************************)
(* Theorems about the release tools and the genesis directory: the         *)
(* detached launcher, the certification orchestrator, its bundle phase     *)
(* with the proof cache, and the commands that share a deployment's        *)
(* genesis directory (modules Detached, Release, Frontier, Deployment).    *)
(*                                                                         *)
(* In each of them the property speaks of the end of a long way, the       *)
(* verdict, the manifest or the quorum flag; the inductive invariant says  *)
(* the same of every place the value passes on that way.                   *)
(***************************************************************************)
EXTENDS Detached, Release, Frontier, Deployment, SequenceTheorems, TLAPS

-----------------------------------------------------------------------------
(* The detached launcher.                                                  *)

(* The job polled is the latest one launched; a status, and a PASS read from  *)
(* one, is the exit code of a job of the path that is gone, and of the job     *)
(* polled if its launch was alone and left no status behind.                   *)
RdOwned(status) ==
    status # "none" =>
        \E j \in 1..rdAt :
            /\ rdJobs[j] = "gone" /\ rdRc[j] = status
            /\ rdAlone /\ rdFresh => j = rdAt
RdInv ==
    /\ RdTypeOK
    /\ rdAt = 0 => rdPc = "idle"
    /\ \A j \in RdIds : j > rdAt => rdJobs[j] = "absent"
    /\ rdAlone => \A j \in RdIds : j # rdAt => rdJobs[j] \notin RdLive
    /\ RdOwned(rdStatus)
    /\ rdVerdict = "PASS" => RdOwned("zero")

(* Initially no job has been launched. *)
LEMMA RdInitInv == ASSUME RdInit PROVE RdInv
  <1>1. rdAt \in 0..RdMaxJobs BY RdAssumption DEF RdInit
  <1>2. rdMarked \in BOOLEAN /\ rdAlone \in BOOLEAN /\ rdFresh \in BOOLEAN BY DEF RdInit
  <1>3. RdTypeOK BY <1>1, <1>2 DEF RdInit, RdTypeOK
  <1>4. QED BY <1>3, RdAssumption DEF RdInit, RdInv, RdOwned, RdIds, RdLive

(* A step of a job: its command ends, its status is recorded, or it is       *)
(* killed.  Under a caller that was alone only the polled job can step.      *)
LEMMA RdJobStep ==
    ASSUME RdInv, NEW j \in RdIds, RdEnd(j) \/ RdRecord(j) \/ RdKilled(j)
    PROVE  RdInv'
  <1>1. CASE RdEnd(j)
    BY <1>1, RdAssumption DEF RdInv, RdOwned, RdTypeOK, RdIds, RdLive, RdEnd
  <1>2. CASE RdRecord(j)
    <2>1. j \in 1..rdAt /\ (rdAlone => j = rdAt)
      BY <1>2, RdAssumption DEF RdInv, RdTypeOK, RdIds, RdLive, RdRecord
    <2>2. RdOwned(rdStatus)'
      BY <1>2, <2>1 DEF RdInv, RdOwned, RdTypeOK, RdRecord
    <2>3. (rdVerdict = "PASS" => RdOwned("zero"))'
      BY <1>2 DEF RdInv, RdOwned, RdTypeOK, RdIds, RdRecord
    <2>4. QED
      BY <1>2, <2>2, <2>3, RdAssumption DEF RdInv, RdTypeOK, RdIds, RdLive, RdRecord
  <1>3. CASE RdKilled(j)
    BY <1>3, RdAssumption DEF RdInv, RdOwned, RdTypeOK, RdIds, RdLive, RdKilled
  <1>4. QED BY <1>1, <1>2, <1>3

(* A step of the caller. *)
LEMMA RdCallerStep ==
    ASSUME RdInv, RdLaunch \/ RdRead \/ RdLook \/ RdTimeout
    PROVE  RdInv'
  <1>1. CASE RdLaunch
    <2>1. RdOwned(rdStatus)'
      <3> SUFFICES ASSUME rdStatus' # "none"
                   PROVE  \E j \in 1..rdAt' : /\ rdJobs'[j] = "gone" /\ rdRc'[j] = rdStatus'
                                              /\ rdAlone' /\ rdFresh' => j = rdAt'
        BY DEF RdOwned
      <3>1. rdStatus' = rdStatus /\ rdFresh' = FALSE
        BY <1>1 DEF RdLaunch
      <3>2. PICK j \in 1..rdAt : rdJobs[j] = "gone" /\ rdRc[j] = rdStatus
        BY <3>1 DEF RdInv, RdOwned
      <3>3. j \in 1..rdAt' /\ rdJobs'[j] = "gone" /\ rdRc'[j] = rdStatus'
        BY <1>1, <3>1, <3>2, RdAssumption DEF RdInv, RdTypeOK, RdIds, RdLaunch
      <3>4. QED BY <3>1, <3>3
    <2>2. QED
      BY <1>1, <2>1, RdAssumption DEF RdInv, RdTypeOK, RdIds, RdLive, RdLaunch
  <1>2. CASE RdRead
    BY <1>2, RdAssumption DEF RdInv, RdOwned, RdTypeOK, RdIds, RdLive, RdRead, RdVerdicts, RdConclude
  <1>3. CASE RdLook
    BY <1>3, RdAssumption DEF RdInv, RdOwned, RdTypeOK, RdIds, RdLive, RdLook, RdConclude
  <1>4. CASE RdTimeout
    BY <1>4, RdAssumption DEF RdInv, RdOwned, RdTypeOK, RdIds, RdLive, RdTimeout, RdConclude
  <1>5. QED BY <1>1, <1>2, <1>3, <1>4

(* RdInv is an invariant of the launcher. *)
THEOREM DetachedInvariance == RdSpec => []RdInv
  <1>1. RdInv /\ [RdNext]_rdVars => RdInv'
    <2> SUFFICES ASSUME RdInv, [RdNext]_rdVars PROVE RdInv'
      OBVIOUS
    <2>1. CASE RdNext BY <2>1, RdJobStep, RdCallerStep DEF RdNext
    <2>2. CASE UNCHANGED rdVars
      BY <2>2 DEF RdInv, RdOwned, RdTypeOK, RdIds, RdLive, rdVars
    <2>3. QED BY <2>1, <2>2
  <1>2. QED BY <1>1, RdInitInv, PTL DEF RdSpec

(* A caller of run_exitcode_detached records PASS only for a command of its  *)
(* path that exited 0, and for its own if it launched alone on a path it     *)
(* left without a status, however its polls and the jobs' ends interleave,   *)
(* for any number of launches on one status path.                            *)
THEOREM PassIsTheJobsOwn == RdSpec => []RdPassIsOwn
  <1>1. RdInv => RdPassIsOwn
    <2> SUFFICES ASSUME RdInv, rdVerdict = "PASS"
                 PROVE  \E j \in 1..rdAt : rdRc[j] = "zero" /\ (rdAlone /\ rdFresh => j = rdAt)
      BY DEF RdPassIsOwn
    <2>1. RdOwned("zero") BY DEF RdInv
    <2>2. PICK j \in 1..rdAt : rdRc[j] = "zero" /\ (rdAlone /\ rdFresh => j = rdAt)
      BY <2>1 DEF RdOwned
    <2>3. QED BY <2>2
  <1>2. QED BY <1>1, DetachedInvariance, PTL

-----------------------------------------------------------------------------
(* The certification orchestrator.                                         *)

(* A sequence, of whatever its elements are. *)
IsSequence(s) == s \in Seq({s[i] : i \in DOMAIN s})

(* Appending to a sequence gives a sequence with the same elements before    *)
(* the new one.                                                              *)
LEMMA AppendSequence ==
    ASSUME NEW s, NEW e, IsSequence(s)
    PROVE  /\ IsSequence(Append(s, e))
           /\ \A i \in DOMAIN Append(s, e) :
                \/ i \in DOMAIN s /\ Append(s, e)[i] = s[i]
                \/ Append(s, e)[i] = e
  <1> DEFINE S == {s[i] : i \in DOMAIN s}
             T == S \cup {e}
             a == Append(s, e)
  <1>1. s \in Seq(S) BY DEF IsSequence
  <1>2. s \in Seq(T) BY <1>1, SeqMonotonic
  <1>3. a \in Seq(T) BY <1>2, AppendProperties
  <1>4. /\ Len(a) = Len(s) + 1 /\ a[Len(s) + 1] = e
        /\ \A i \in 1..Len(s) : a[i] = s[i]
    BY <1>2, AppendProperties
  <1>5. DOMAIN s = 1..Len(s) /\ Len(s) \in Nat /\ DOMAIN a = 1..Len(a) BY <1>2, <1>3, LenProperties
  <1>6. a \in Seq({a[i] : i \in DOMAIN a})
    <2>1. a \in [1..Len(a) -> T] BY <1>3, LenProperties
    <2>2. a = [i \in 1..Len(a) |-> a[i]] BY <2>1
    <2> DEFINE R == {a[i] : i \in DOMAIN a}
    <2>3. \A i \in 1..Len(a) : a[i] \in R BY <1>5
    <2>4. Len(a) \in Nat BY <1>4, <1>5
    <2>5. a \in [1..Len(a) -> R] BY <2>2, <2>3
    <2>6. QED BY <2>4, <2>5, SeqDef
  <1>7. \A i \in DOMAIN a : (i \in DOMAIN s /\ a[i] = s[i]) \/ a[i] = e
    BY <1>4, <1>5
  <1>8. QED BY <1>6, <1>7 DEF IsSequence

(* The empty sequence is one. *)
LEMMA EmptySequence == IsSequence(<<>>) /\ DOMAIN <<>> = {}
  BY EmptySeq DEF IsSequence

(* A PASS record goes back to a success of its member, with its tool and its *)
(* command, in the environment and in a tree that holds the archive.         *)
RlBacked(c, a, e, passes) ==
    c.verdict = "PASS" =>
        \E p \in passes :
            /\ p.name = c.name /\ p.env = e /\ p.sha = c.sha /\ p.cmd = c.cmd
            /\ RlHolds(p.tree, a)

(* Not only the manifest that the property is about: the records of the run  *)
(* in progress and the cache it resumes from are earned, for the archive and *)
(* the environment of the run, and while it lasts its directory holds the    *)
(* archive.                                                                  *)
RlManifestEarned(m, passes) ==
    RlIsManifest(m) =>
        /\ \A i \in DOMAIN m.checks : RlBacked(m.checks[i], m.archive, m.env, passes)
        /\ m.aggregate = "PASS" =>
            \A i \in DOMAIN m.checks : m.checks[i].verdict \in {"PASS", "SKIPPED"}

RlRecordsEarned(r, passes) ==
    /\ IsSequence(r.records)
    /\ \A i \in DOMAIN r.records :
        /\ r.records[i].verdict \in RlVerdicts
        /\ RlBacked(r.records[i], r.archive, r.env, passes)

RlCacheEarned(r, passes) ==
    \A c \in r.cache : c.verdict = "PASS" /\ RlBacked(c, r.archive, r.env, passes)

RlRunFields ==
    {"archive", "env", "scratch", "phase", "prior", "worktree", "records", "cache"}

RlInv ==
    /\ DOMAIN rlTree = RlScratches
    /\ RlManifestEarned(rlManifest, rlPasses)
    /\ rlRun # RlNone =>
        /\ DOMAIN rlRun = RlRunFields
        /\ RlRecordsEarned(rlRun, rlPasses) /\ RlCacheEarned(rlRun, rlPasses)
        /\ RlHolds(rlTree[rlRun.scratch], rlRun.archive)

(* An extraction leaves a tree that holds the archive, and the tree of every *)
(* other scratch directory alone.                                            *)
LEMMA RlExtractHolds ==
    ASSUME NEW a, NEW s \in RlScratches, DOMAIN rlTree = RlScratches,
           rlTree' = [rlTree EXCEPT ![s] = RlExtract(a, s)]
    PROVE  DOMAIN rlTree' = RlScratches /\ RlHolds(rlTree'[s], a)
  <1>1. RlHolds(RlExtract(a, s), a) BY DEF RlHolds, RlExtract, RlLaidOver
  <1>2. DOMAIN rlTree' = RlScratches /\ rlTree'[s] = RlExtract(a, s) OBVIOUS
  <1>3. QED BY <1>1, <1>2

(* What is earned stays so when more members succeed. *)
LEMMA RlEarnedGrows ==
    ASSUME NEW P, NEW Q, P \subseteq Q, NEW x
    PROVE  /\ RlManifestEarned(x, P) => RlManifestEarned(x, Q)
           /\ RlRecordsEarned(x, P) => RlRecordsEarned(x, Q)
           /\ RlCacheEarned(x, P) => RlCacheEarned(x, Q)
  BY DEF RlManifestEarned, RlRecordsEarned, RlCacheEarned, RlBacked

(* A record of the run's member joins the run's records. *)
LEMMA RlRecordJoins ==
    ASSUME NEW P, NEW r, NEW c, RlRecordsEarned(r, P), RlCacheEarned(r, P),
           c.verdict \in RlVerdicts, RlBacked(c, r.archive, r.env, P),
           NEW s,
           s.records = Append(r.records, c), s.archive = r.archive, s.env = r.env, s.cache = r.cache
    PROVE  RlRecordsEarned(s, P) /\ RlCacheEarned(s, P)
  <1>1. IsSequence(s.records)
    BY AppendSequence DEF RlRecordsEarned
  <1>2. ASSUME NEW i \in DOMAIN s.records
        PROVE  s.records[i].verdict \in RlVerdicts /\ RlBacked(s.records[i], s.archive, s.env, P)
    <2>1. \/ i \in DOMAIN r.records /\ s.records[i] = r.records[i]
          \/ s.records[i] = c
      BY <1>2, AppendSequence DEF RlRecordsEarned
    <2>2. QED BY <2>1 DEF RlRecordsEarned
  <1>3. RlCacheEarned(s, P) BY DEF RlCacheEarned
  <1>4. QED BY <1>1, <1>2, <1>3 DEF RlRecordsEarned

(* The field accesses of a run to which a record is appended. *)
LEMMA RlAppended ==
    ASSUME NEW c, DOMAIN rlRun = RlRunFields, RlAppend(c)
    PROVE  /\ DOMAIN rlRun' = RlRunFields
           /\ rlRun'.records = Append(rlRun.records, c)
           /\ rlRun'.archive = rlRun.archive /\ rlRun'.env = rlRun.env /\ rlRun'.cache = rlRun.cache
           /\ rlRun'.scratch = rlRun.scratch
  BY DEF RlAppend, RlRunFields

(* A run is started, or its archive fails preflight.  The cache it takes     *)
(* over is earned because the manifest is of its archive and environment.    *)
LEMMA RlStartStep ==
    ASSUME RlInv, NEW a, NEW e, NEW s \in RlScratches, NEW phase, NEW prior, NEW worktree, NEW resume,
           RlStart(a, e, s, phase, prior, worktree, resume)
    PROVE  RlInv'
  <1> DEFINE r == [archive |-> a, env |-> e, scratch |-> s, phase |-> phase,
                   prior |-> prior # RlNone, worktree |-> worktree, records |-> <<>>,
                   cache |-> IF resume THEN RlCache(a, e) ELSE {}]
  <1>1. rlRun' = r /\ rlManifest' = rlManifest /\ rlPasses' = rlPasses BY DEF RlStart
  <1>2. RlCacheEarned(r, rlPasses)
    <2>1. ASSUME NEW c \in RlCache(a, e)
          PROVE  c.verdict = "PASS" /\ RlBacked(c, a, e, rlPasses)
      BY <2>1 DEF RlCache, RlInv, RlManifestEarned
    <2>2. r.archive = a /\ r.env = e /\ r.cache \in {RlCache(a, e), {}} OBVIOUS
    <2> HIDE DEF r
    <2>3. QED BY <2>1, <2>2 DEF RlCacheEarned
  <1>3. RlRecordsEarned(r, rlPasses) /\ DOMAIN r = RlRunFields
    BY EmptySequence DEF RlRecordsEarned, RlRunFields
  <1>4. DOMAIN rlTree' = RlScratches /\ RlHolds(rlTree'[s], a)
    BY RlExtractHolds DEF RlStart, RlInv
  <1>5. r.scratch = s /\ r.archive = a OBVIOUS
  <1> HIDE DEF r
  <1>6. QED BY <1>1, <1>2, <1>3, <1>4, <1>5 DEF RlInv

(* A member of the run is resumed from the cache. *)
LEMMA RlResumeStep == ASSUME RlInv, RlResume PROVE RlInv'
  <1>1. PICK c \in RlHits(RlCurrent) : RlAppend(c) BY DEF RlResume
  <1>2. /\ rlRun # RlNone /\ c \in rlRun.cache /\ rlManifest' = rlManifest /\ rlPasses' = rlPasses
        /\ rlTree' = rlTree
    BY <1>1 DEF RlResume, RlWorking, RlHits, RlKept
  <1>3. DOMAIN rlRun = RlRunFields /\ RlRecordsEarned(rlRun, rlPasses) /\ RlCacheEarned(rlRun, rlPasses)
        /\ RlManifestEarned(rlManifest, rlPasses)
    BY <1>2 DEF RlInv
  <1>4. c.verdict \in RlVerdicts /\ RlBacked(c, rlRun.archive, rlRun.env, rlPasses)
    BY <1>2, <1>3 DEF RlCacheEarned, RlVerdicts
  <1>5. DOMAIN rlRun' = RlRunFields /\ RlRecordsEarned(rlRun', rlPasses) /\ RlCacheEarned(rlRun', rlPasses)
    BY <1>1, <1>3, <1>4, RlAppended, RlRecordJoins
  <1>6. RlHolds(rlTree'[rlRun'.scratch], rlRun'.archive)
    BY <1>1, <1>2, <1>3, RlAppended DEF RlInv
  <1>7. QED BY <1>2, <1>3, <1>5, <1>6 DEF RlInv

(* A member of the run is executed: a PASS is noted together with it. *)
LEMMA RlExecuteStep == ASSUME RlInv, RlExecute PROVE RlInv'
  <1> DEFINE Verdicts == IF RlIsExit(RlCurrent) THEN RlExitVerdicts(RlCurrent) ELSE RlCompareVerdicts(RlCurrent)
  <1>1. PICK v \in Verdicts :
            /\ RlAppend(RlRecord(RlCurrent, RlSha(RlCurrent), RlCommand(RlCurrent), v))
            /\ rlPasses' = IF v = "PASS"
                           THEN rlPasses \cup {RlSuccess(RlCurrent)} ELSE rlPasses
    BY DEF RlExecute
  <1>2. v \in RlVerdicts
    BY DEF RlVerdicts, RlExitVerdicts, RlCompareVerdicts, RlFrameVerdicts, RlAttestationVerdicts,
           RlForestVerdicts, RlConfinementVerdict, RlNoDriftVerdict
  <1>3. PICK c, n : c = RlRecord(n, RlSha(RlCurrent), RlCommand(RlCurrent), v) /\ n = RlCurrent
    OBVIOUS
  <1>4. c.verdict = v /\ c.name = n /\ c.sha = RlSha(n) /\ c.cmd = RlCommand(n) BY <1>3 DEF RlRecord
  <1>5. rlRun # RlNone /\ rlManifest' = rlManifest /\ rlTree' = rlTree
    BY DEF RlExecute, RlWorking, RlKept
  <1>6. rlPasses \subseteq rlPasses' BY <1>1
  <1>7. DOMAIN rlRun = RlRunFields /\ RlRecordsEarned(rlRun, rlPasses') /\ RlCacheEarned(rlRun, rlPasses')
        /\ RlManifestEarned(rlManifest, rlPasses')
    BY <1>5, <1>6, RlEarnedGrows DEF RlInv
  <1>8. RlBacked(c, rlRun.archive, rlRun.env, rlPasses')
    <2>1. PICK p : p = RlSuccess(n) OBVIOUS
    <2>2. /\ p.name = n /\ p.env = rlRun.env /\ p.sha = RlSha(n) /\ p.cmd = RlCommand(n)
          /\ p.tree = rlTree[rlRun.scratch]
      BY <2>1 DEF RlSuccess, RlExtracted
    <2>3. RlHolds(p.tree, rlRun.archive) BY <1>5, <2>2 DEF RlInv
    <2>4. c.verdict = "PASS" => p \in rlPasses' BY <1>1, <1>3, <1>4, <2>1
    <2>5. QED BY <1>4, <2>2, <2>3, <2>4 DEF RlBacked
  <1>9. RlAppend(c) BY <1>1, <1>3
  <1>10. DOMAIN rlRun' = RlRunFields /\ RlRecordsEarned(rlRun', rlPasses') /\ RlCacheEarned(rlRun', rlPasses')
    BY <1>2, <1>4, <1>7, <1>8, <1>9, RlAppended, RlRecordJoins
  <1>11. RlHolds(rlTree'[rlRun'.scratch], rlRun'.archive)
    BY <1>5, <1>7, <1>9, RlAppended DEF RlInv
  <1>12. QED BY <1>5, <1>7, <1>10, <1>11 DEF RlInv

(* The run ends with its manifest, whose aggregate is PASS only if no record *)
(* is FAIL or HOLD.                                                          *)
LEMMA RlFinishStep == ASSUME RlInv, RlFinish PROVE RlInv'
  <1>1. rlRun # RlNone /\ rlRun' = RlNone /\ rlPasses' = rlPasses /\ rlTree' = rlTree
    BY DEF RlFinish
  <1>2. PICK m : m = RlManifestOf(rlRun, RlAggregate(rlRun.records)) OBVIOUS
  <1>3. /\ m.archive = rlRun.archive /\ m.env = rlRun.env /\ m.checks = rlRun.records
        /\ m.aggregate = RlAggregate(rlRun.records)
    BY <1>2 DEF RlManifestOf
  <1>4. RlRecordsEarned(rlRun, rlPasses) BY <1>1 DEF RlInv
  <1>5. ASSUME m.aggregate = "PASS", NEW i \in DOMAIN m.checks
        PROVE  m.checks[i].verdict \in {"PASS", "SKIPPED"}
    <2>1. m.checks[i].verdict \in RlVerdictsOf(rlRun.records) BY <1>3, <1>5 DEF RlVerdictsOf
    <2>2. m.checks[i].verdict \notin {"FAIL", "HOLD"} BY <1>3, <1>5, <2>1 DEF RlAggregate
    <2>3. m.checks[i].verdict \in RlVerdicts BY <1>3, <1>4, <1>5 DEF RlRecordsEarned
    <2>4. QED BY <2>2, <2>3 DEF RlVerdicts
  <1>6. RlManifestEarned(m, rlPasses)
    BY <1>3, <1>4, <1>5 DEF RlManifestEarned, RlRecordsEarned
  <1>7. rlManifest' = m BY <1>2 DEF RlFinish
  <1>8. QED BY <1>1, <1>6, <1>7 DEF RlInv

(* The orchestrator dies, perhaps over the manifest. *)
LEMMA RlCrashStep == ASSUME RlInv, RlCrash PROVE RlInv'
  <1>1. /\ rlRun' = RlNone /\ rlPasses' = rlPasses /\ rlManifest' \in {rlManifest, RlNone}
        /\ rlTree' = rlTree
    BY DEF RlCrash
  <1>2. QED BY <1>1 DEF RlInv, RlManifestEarned, RlIsManifest

(* RlInv is an invariant of the orchestrator. *)
THEOREM ReleaseInvariance == RlSpec => []RlInv
  <1>1. RlInit => RlInv BY DEF RlInit, RlInv, RlManifestEarned, RlIsManifest
  <1>2. RlInv /\ [RlNext]_rlVars => RlInv'
    <2> SUFFICES ASSUME RlInv, [RlNext]_rlVars PROVE RlInv'
      OBVIOUS
    <2>1. ASSUME NEW a, NEW s \in RlScratches, RlPreflightFails(a, s) PROVE RlInv'
      BY <2>1, RlExtractHolds DEF RlPreflightFails, RlInv
    <2>2. CASE RlNext
      BY <2>1, <2>2, RlStartStep, RlResumeStep, RlExecuteStep, RlFinishStep, RlCrashStep DEF RlNext
    <2>3. CASE UNCHANGED rlVars BY <2>3 DEF rlVars, RlInv
    <2>4. QED BY <2>2, <2>3
  <1>3. QED BY <1>1, <1>2, PTL DEF RlSpec

(* RlPassEarned is an invariant: a manifest whose aggregate is PASS was      *)
(* earned.  Each of its checks was skipped or goes back, through any number  *)
(* of resumed manifests, crashes and shared scratch directories, to a        *)
(* success of that member with that tool and command, in that environment    *)
(* and in a tree that held the archive (resume guard and aggregate of main())*)
THEOREM CertificatesAreEarned == RlSpec => []RlPassEarned
  <1>1. RlInv => RlPassEarned BY DEF RlInv, RlManifestEarned, RlBacked, RlEarned, RlPassEarned
  <1>2. QED BY <1>1, ReleaseInvariance, PTL
-----------------------------------------------------------------------------
(* The bundle phase and its proof cache.                                   *)

(* A proof-cache entry has the verdict of an evaluation, and a HOLD is one   *)
(* that was found.                                                           *)
FrCacheEarned(cache, proved) ==
    \A e \in cache :
        /\ e.verdict \in {"HOLD", "FAIL"}
        /\ e.verdict = "HOLD" => <<e.base, e.cand>> \in proved

FrItemEarned(item, proved) ==
    /\ item.verdict \in {"HOLD", "FAIL", "UNFINISHED"}
    /\ item.verdict = "HOLD" => <<item.base, item.cand>> \in proved

FrItemsEarned(items, proved) ==
    IsSequence(items) /\ \A i \in DOMAIN items : FrItemEarned(items[i], proved)

FrRunFields == {"pc", "archive", "failed", "todo", "items", "cache", "bad", "head"}

FrManifestEarned(m, proved) ==
    m # FrNone /\ m.aggregate = "PASS" =>
        /\ m.failed = {}
        /\ \A i \in DOMAIN m.items : <<m.items[i].base, m.items[i].cand>> \in proved
        /\ \/ m.items = <<>> /\ m.head = m.archive
           \/ \E pair \in proved : pair[2] = m.archive

(* The saved cache, the cache in the hands of the run and the run's items    *)
(* are all earned; a manifest with aggregate PASS is what is promised of it. *)
FrInv ==
    /\ FrCacheEarned(frCache, frProved)
    /\ frRun # FrNone =>
        /\ DOMAIN frRun = FrRunFields
        /\ FrCacheEarned(frRun.cache, frProved) /\ FrItemsEarned(frRun.items, frProved)
    /\ FrManifestEarned(frManifest, frProved)

(* What is earned stays so when more pairs are found to hold. *)
LEMMA FrEarnedGrows ==
    ASSUME NEW P, NEW Q, P \subseteq Q, NEW x
    PROVE  /\ FrCacheEarned(x, P) => FrCacheEarned(x, Q)
           /\ FrItemsEarned(x, P) => FrItemsEarned(x, Q)
           /\ FrManifestEarned(x, P) => FrManifestEarned(x, Q)
  BY DEF FrCacheEarned, FrItemEarned, FrItemsEarned, FrManifestEarned

(* An item is recorded: it and the run's new cache are earned, and nothing   *)
(* but the run and what was proved changes.                                  *)
LEMMA FrRecordedStep ==
    ASSUME FrInv, NEW item, NEW cache, NEW stop, frRun # FrNone,
           FrRecorded(item, cache, stop), frProved \subseteq frProved',
           FrItemEarned(item, frProved'), FrCacheEarned(cache, frProved'),
           UNCHANGED <<frCache, frManifest>>
    PROVE  FrInv'
  <1>1. DOMAIN frRun = FrRunFields /\ FrItemsEarned(frRun.items, frProved') BY FrEarnedGrows DEF FrInv
  <1>2. frRun'.items = Append(frRun.items, item) /\ frRun'.cache = cache /\ DOMAIN frRun' = FrRunFields
    BY <1>1 DEF FrRecorded, FrRunFields
  <1>3. FrItemsEarned(Append(frRun.items, item), frProved')
    <2>1. IsSequence(frRun.items) BY <1>1 DEF FrItemsEarned
    <2>2. /\ IsSequence(Append(frRun.items, item))
          /\ \A i \in DOMAIN Append(frRun.items, item) :
                \/ i \in DOMAIN frRun.items /\ Append(frRun.items, item)[i] = frRun.items[i]
                \/ Append(frRun.items, item)[i] = item
      BY <2>1, AppendSequence
    <2>3. QED BY <1>1, <2>2 DEF FrItemsEarned
  <1>4. FrCacheEarned(frCache', frProved') /\ FrManifestEarned(frManifest', frProved')
    BY FrEarnedGrows DEF FrInv
  <1>5. QED BY <1>2, <1>3, <1>4 DEF FrInv

(* A run begins with the cache on disk and no item. *)
LEMMA FrStartStep ==
    ASSUME FrInv, NEW archive, NEW surf, NEW att, NEW failed, FrStart(archive, surf, att, failed)
    PROVE  FrInv'
  <1>1. frRun'.cache = frCache /\ frRun'.items = <<>> /\ DOMAIN frRun' = FrRunFields
    BY DEF FrStart, FrRunFields
  <1>2. UNCHANGED <<frCache, frManifest, frProved>> BY DEF FrStart
  <1>3. FrItemsEarned(<<>>, frProved) BY EmptySequence DEF FrItemsEarned
  <1>4. QED BY <1>1, <1>2, <1>3 DEF FrInv

(* The budget is exhausted, or the link cannot be evaluated: the item is not *)
(* a HOLD.                                                                   *)
LEMMA FrUnevaluatedStep == ASSUME FrInv, FrExhausted \/ FrNotEvaluated PROVE FrInv'
  <1>1. frRun # FrNone /\ UNCHANGED <<frCache, frManifest, frProved>>
    BY DEF FrExhausted, FrNotEvaluated, FrOnLink
  <1>2. FrCacheEarned(frRun.cache, frProved') BY <1>1 DEF FrInv
  <1>3. \E v \in {"UNFINISHED", "FAIL"} : \E id, stop : FrRecorded(FrItem(v, id), frRun.cache, stop)
    BY DEF FrExhausted, FrNotEvaluated
  <1>4. PICK v, id, stop : /\ v \in {"UNFINISHED", "FAIL"}
                           /\ FrRecorded(FrItem(v, id), frRun.cache, stop)
    BY <1>3
  <1>5. FrItemEarned(FrItem(v, id), frProved') BY <1>4 DEF FrItemEarned, FrItem
  <1>6. QED BY <1>1, <1>2, <1>4, <1>5, FrRecordedStep

(* A cached verdict of the same identity: the entry's pair is the item's. *)
LEMMA FrFromCacheStep == ASSUME FrInv, FrFromCache PROVE FrInv'
  <1>1. frRun # FrNone /\ UNCHANGED <<frCache, frManifest, frProved>>
    BY DEF FrFromCache, FrOnLink
  <1>2. FrCacheEarned(frRun.cache, frProved') BY <1>1 DEF FrInv
  <1>3. PICK id : id = FrIdentity(FrLink) OBVIOUS
  <1>4. PICK e \in FrHits(frRun.cache, id) : FrRecorded(FrItem(e.verdict, id), frRun.cache, FALSE)
    BY <1>3 DEF FrFromCache
  <1>5. e \in frRun.cache /\ e.base = id.base /\ e.cand = id.cand BY DEF FrHits, FrEntry
  <1>6. FrItemEarned(FrItem(e.verdict, id), frProved')
    BY <1>2, <1>5 DEF FrCacheEarned, FrItemEarned, FrItem
  <1>7. QED BY <1>1, <1>2, <1>4, <1>6, FrRecordedStep

(* An evaluation of two archives that are there: the identity under which    *)
(* its verdict is remembered is that of the contents evaluated.              *)
LEMMA FrEvaluateStep == ASSUME FrInv, FrEvaluate PROVE FrInv'
  <1>1. frRun # FrNone /\ UNCHANGED <<frCache, frManifest>>
    BY DEF FrEvaluate, FrOnLink
  <1>2. PICK id, base, cand :
            /\ id = FrIdentity(FrLink)
            /\ base = FrResolve(FrLink.base, FrLink.baseFile)
            /\ cand = FrResolve(FrLink.cand, FrLink.candFile)
    OBVIOUS
  <1>3. PICK v \in FrOutcomes(base, cand) :
            /\ FrRecorded(FrItem(v, id), frRun.cache \cup {FrEntry(id, v)}, FALSE)
            /\ frProved' = IF v = "HOLD" THEN frProved \cup {<<base, cand>>} ELSE frProved
    BY <1>2 DEF FrEvaluate
  <1>4. id.base = base /\ id.cand = cand
    <2>1. base # FrNone /\ cand # FrNone BY <1>2 DEF FrEvaluate
    <2>2. QED BY <1>2, <2>1 DEF FrIdentity
  <1>5. v \in {"HOLD", "FAIL"} /\ frProved \subseteq frProved' BY <1>3 DEF FrOutcomes
  <1>6. v = "HOLD" => <<id.base, id.cand>> \in frProved' BY <1>3, <1>4
  <1>7. FrItemEarned(FrItem(v, id), frProved') BY <1>5, <1>6 DEF FrItemEarned, FrItem
  <1>8. FrCacheEarned(frRun.cache \cup {FrEntry(id, v)}, frProved')
    <2>1. FrCacheEarned(frRun.cache, frProved') BY <1>1, <1>5, FrEarnedGrows DEF FrInv
    <2>2. FrCacheEarned({FrEntry(id, v)}, frProved')
      BY <1>5, <1>6 DEF FrCacheEarned, FrEntry
    <2>3. QED BY <2>1, <2>2 DEF FrCacheEarned
  <1>9. QED BY <1>1, <1>3, <1>5, <1>7, <1>8, FrRecordedStep

(* The cache is saved. *)
LEMMA FrAssembleStep == ASSUME FrInv, FrAssemble PROVE FrInv'
  <1>1. /\ frRun # FrNone /\ UNCHANGED <<frManifest, frProved>>
        /\ frCache' \in {frCache, frRun.cache} /\ frRun' = [frRun EXCEPT !.pc = "verify"]
    BY DEF FrAssemble
  <1>2. DOMAIN frRun = FrRunFields BY <1>1 DEF FrInv
  <1>3. frRun'.cache = frRun.cache /\ frRun'.items = frRun.items /\ DOMAIN frRun' = FrRunFields
    BY <1>1, <1>2 DEF FrRunFields
  <1>4. FrCacheEarned(frRun'.cache, frProved') /\ FrItemsEarned(frRun'.items, frProved')
    BY <1>1, <1>3 DEF FrInv
  <1>5. FrCacheEarned(frCache', frProved') BY <1>1 DEF FrInv
  <1>6. FrManifestEarned(frManifest', frProved') BY <1>1 DEF FrInv
  <1>7. QED BY <1>3, <1>4, <1>5, <1>6 DEF FrInv

(* The consumer's verdict becomes the aggregate: PASS only if no section     *)
(* failed, every item holds, and the last of them ends at the archive.       *)
LEMMA FrConcludeStep == ASSUME FrInv, FrConclude PROVE FrInv'
  <1>1. frRun # FrNone /\ frRun' = FrNone /\ UNCHANGED <<frCache, frProved>>
    BY DEF FrConclude
  <1>2. PICK v \in {FrVerifyBundle(frRun), "FAIL"} :
            frManifest' = [archive |-> frRun.archive, aggregate |-> v, failed |-> frRun.failed,
                           head |-> frRun.head, items |-> frRun.items]
    BY DEF FrConclude
  <1>3. PICK m : m = frManifest' OBVIOUS
  <1>4. /\ m.archive = frRun.archive /\ m.aggregate = v /\ m.failed = frRun.failed
        /\ m.head = frRun.head /\ m.items = frRun.items
    BY <1>2, <1>3
  <1>5. FrItemsEarned(frRun.items, frProved) BY <1>1 DEF FrInv
  <1>6. ASSUME v = "PASS"
        PROVE  /\ frRun.failed = {}
               /\ \A i \in DOMAIN frRun.items : <<frRun.items[i].base, frRun.items[i].cand>> \in frProved
               /\ \/ frRun.items = <<>> /\ frRun.head = frRun.archive
                  \/ \E pair \in frProved : pair[2] = frRun.archive
    <2>1. FrVerifyBundle(frRun) = "PASS" BY <1>2, <1>6
    <2>2. FrClean(frRun) /\ FrTerminal(frRun) /\ FrFrontierVerdict(frRun) \notin {"FAIL", "UNFINISHED"}
      BY <2>1 DEF FrVerifyBundle
    <2>3. "FAIL" \notin FrVerdicts(frRun.items) /\ "UNFINISHED" \notin FrVerdicts(frRun.items)
      BY <2>2 DEF FrFrontierVerdict
    <2>4. ASSUME NEW i \in DOMAIN frRun.items
          PROVE  <<frRun.items[i].base, frRun.items[i].cand>> \in frProved
      <3>1. frRun.items[i].verdict \in FrVerdicts(frRun.items) BY <2>4 DEF FrVerdicts
      <3>2. FrItemEarned(frRun.items[i], frProved) BY <1>5, <2>4 DEF FrItemsEarned
      <3>3. QED BY <2>3, <3>1, <3>2 DEF FrItemEarned
    <2>5. CASE frRun.items = <<>> BY <2>2, <2>4, <2>5 DEF FrClean, FrTerminal
    <2>6. CASE frRun.items # <<>>
      <3>1. IsSequence(frRun.items) BY <1>5 DEF FrItemsEarned
      <3>2. Len(frRun.items) \in DOMAIN frRun.items
        <4> DEFINE S == {frRun.items[i] : i \in DOMAIN frRun.items}
        <4>1. frRun.items \in Seq(S) BY <3>1 DEF IsSequence
        <4> HIDE DEF S
        <4>2. Len(frRun.items) # 0 BY <2>6, <4>1, EmptySeq
        <4>3. QED BY <4>1, <4>2, LenProperties
      <3>3. PICK pair : pair = <<frRun.items[Len(frRun.items)].base, frRun.items[Len(frRun.items)].cand>>
        OBVIOUS
      <3>4. pair \in frProved /\ pair[2] = frRun.archive
        BY <2>2, <2>4, <2>6, <3>2, <3>3 DEF FrTerminal
      <3>5. QED BY <2>2, <2>4, <3>4 DEF FrClean
    <2>7. QED BY <2>5, <2>6
  <1>7. FrManifestEarned(m, frProved) BY <1>4, <1>6 DEF FrManifestEarned
  <1>8. QED BY <1>1, <1>3, <1>7 DEF FrInv

(* FrInv is an invariant of the bundle phase. *)
THEOREM FrontierInvariance == FrSpec => []FrInv
  <1>1. FrInit => FrInv BY DEF FrInit, FrInv, FrCacheEarned, FrManifestEarned
  <1>2. FrInv /\ [FrNext]_frVars => FrInv'
    <2> SUFFICES ASSUME FrInv, [FrNext]_frVars PROVE FrInv'
      OBVIOUS
    <2>1. CASE FrCrash BY <2>1 DEF FrCrash, FrInv
    <2>2. CASE FrDisturb BY <2>2 DEF FrDisturb, FrInv, FrCacheEarned
    <2>3. CASE UNCHANGED frVars BY <2>3 DEF frVars, FrInv
    <2>4. QED
      BY <2>1, <2>2, <2>3, FrStartStep, FrUnevaluatedStep, FrFromCacheStep, FrEvaluateStep,
         FrAssembleStep, FrConcludeStep DEF FrNext
  <1>3. QED BY <1>1, <1>2, PTL DEF FrSpec

(* A bundle's PASS rests on evaluations of exactly the contents it names,    *)
(* whatever happened to the archives directory and the proof cache between   *)
(* the runs.                                                                 *)
THEOREM BundlePassIsEarned == FrSpec => []FrPassEarned
  <1>1. FrInv => FrPassEarned BY DEF FrInv, FrManifestEarned, FrPassEarned
  <1>2. QED BY <1>1, FrontierInvariance, PTL
-----------------------------------------------------------------------------
(* The genesis directory.                                                  *)

DpWrite == [file : DpNames, value : DpContents]

DpState ==
    [cmd : {"none", "charter", "set", "govern", "attest", "suite"},
     pc : {"idle", "import", "ceremony", "csh", "ic", "finality", "active",
           "gates", "restore", "restored", "written"},
     key : DpContents, want : DpContents, todo : Seq(DpWrite), opened : BOOLEAN,
     pub : DpContents, priv : DpContents, set : DpContents, quorum : BOOLEAN,
     was : [DpNames -> DpContents], doomed : SUBSET DpNames]

(* A process that may still write the charter. *)
DpHasCharter(r) == r.cmd \in {"charter", "set"} \/ (r.cmd = "suite" /\ r.todo # <<>>)

(* Of a process by itself: which commands are at which places, that only the *)
(* writers of the charter have it among their writes, and that from          *)
(* _activate_csh on the key file it has read is the key of its import.       *)
DpPlaces(r) ==
    /\ r.opened => r.todo # <<>>
    /\ r.pc \notin {"ic", "finality", "written", "gates"} => r.todo = <<>>
    /\ r.pc = "written" => r.cmd \in {"charter", "set"}
    /\ r.pc = "gates" => r.cmd = "suite"
    /\ r.pc \in {"import", "ceremony", "csh", "ic", "finality", "active"} =>
        r.cmd \in {"set", "govern", "attest"}
    /\ r.pc \in {"ic", "finality"} =>
        \A i \in DOMAIN r.todo : r.todo[i].file \in {"set", "ic"}

DpKeysOf(r) ==
    /\ r.pc \in {"csh", "ic", "finality"} => r.key # "absent"
    /\ r.pc \in {"ic", "finality"} => r.pub = r.key
    /\ r.quorum => /\ r.pc \in {"active", "written"}
                   /\ r.key \in DpAllKeys /\ r.key = r.set /\ r.key = r.priv

DpProcInv(r) == r \in DpState /\ DpPlaces(r) /\ DpKeysOf(r)

(* Between a process's import and its _activate_csh the key file is the one  *)
(* it imported, or gone.                                                     *)
DpKeyStays(r, file) == r.pc \in {"ceremony", "csh"} => file["pub"] \in {r.key, "absent"}

(* The processes together: one that may still write the charter has the      *)
(* directory to itself.                                                      *)
DpInv ==
    /\ dpFile \in [DpNames -> DpContents] /\ dpStarts \in 0..DpMaxStarts
    /\ DOMAIN dpProc = DpProcs
    /\ \A p \in DpProcs :
        /\ DpProcInv(dpProc[p])
        /\ DpHasCharter(dpProc[p]) => \A q \in DpProcs \ {p} : dpProc[q] = DpIdle
        /\ DpKeyStays(dpProc[p], dpFile)

(* A process that is not there. *)
LEMMA DpIdleInv ==
    DpProcInv(DpIdle) /\ ~DpHasCharter(DpIdle) /\ \A file : DpKeyStays(DpIdle, file)
  <1>1. <<>> \in Seq(DpWrite) BY EmptySeq
  <1>2. DpIdle \in DpState BY <1>1 DEF DpIdle, DpState, DpContents, DpGone
  <1>3. DpPlaces(DpIdle) /\ DpKeysOf(DpIdle) BY DEF DpIdle, DpPlaces, DpKeysOf
  <1>4. ~DpHasCharter(DpIdle) /\ \A file : DpKeyStays(DpIdle, file)
    BY DEF DpIdle, DpHasCharter, DpKeyStays
  <1>5. QED BY <1>2, <1>3, <1>4 DEF DpProcInv

(* What a step of one process has to keep: its own invariant, the charter    *)
(* writers' solitude, and the key file of everyone who has imported it.      *)
LEMMA DpStepOf ==
    ASSUME DpInv, NEW p \in DpProcs, NEW r, DpSet(p, r), DpProcInv(r),
           dpFile' \in [DpNames -> DpContents], dpStarts' \in 0..DpMaxStarts,
           DpHasCharter(r) => \A q \in DpProcs \ {p} : dpProc[q] = DpIdle,
           \A q \in DpProcs \ {p} : DpHasCharter(dpProc[q]) => r = DpIdle,
           DpKeyStays(r, dpFile'),
           \A q \in DpProcs \ {p} : DpKeyStays(dpProc[q], dpFile')
    PROVE  DpInv'
  <1>1. DOMAIN dpProc' = DpProcs /\ dpProc'[p] = r /\ \A q \in DpProcs \ {p} : dpProc'[q] = dpProc[q]
    BY DEF DpSet, DpInv
  <1>2. ASSUME NEW q \in DpProcs
        PROVE  /\ DpProcInv(dpProc'[q])
               /\ DpHasCharter(dpProc'[q]) => \A s \in DpProcs \ {q} : dpProc'[s] = DpIdle
               /\ DpKeyStays(dpProc'[q], dpFile')
    <2>1. CASE q = p BY <1>1, <2>1
    <2>2. CASE q # p BY <1>1, <2>2 DEF DpInv
    <2>3. QED BY <2>1, <2>2
  <1>3. QED BY <1>1, <1>2 DEF DpInv

(* A process that is under way keeps the others' solitude by going on with   *)
(* the same command, or by ending.                                           *)
LEMMA DpGoesOn ==
    ASSUME DpInv, NEW p \in DpProcs, dpProc[p] # DpIdle, NEW r, DpSet(p, r), DpProcInv(r),
           r.cmd = dpProc[p].cmd, dpProc[p].cmd = "suite" /\ r.todo # <<>> => dpProc[p].todo # <<>>,
           dpFile' \in [DpNames -> DpContents], dpStarts' = dpStarts,
           DpKeyStays(r, dpFile'),
           dpFile'["pub"] \in {dpFile["pub"], "absent"} \/ DpHasCharter(dpProc[p])
    PROVE  DpInv'
  <1>1. DpHasCharter(r) => \A q \in DpProcs \ {p} : dpProc[q] = DpIdle
    BY DEF DpInv, DpHasCharter
  <1>2. \A q \in DpProcs \ {p} : ~DpHasCharter(dpProc[q]) BY DEF DpInv
  <1>3. ASSUME NEW q \in DpProcs \ {p} PROVE DpKeyStays(dpProc[q], dpFile')
    <2>1. CASE DpHasCharter(dpProc[p])
      BY <1>3, <2>1, DpIdleInv DEF DpInv
    <2>2. CASE dpFile'["pub"] \in {dpFile["pub"], "absent"}
      BY <1>3, <2>2 DEF DpInv, DpKeyStays
    <2>3. QED BY <2>1, <2>2
  <1>4. dpStarts' \in 0..DpMaxStarts BY DEF DpInv
  <1>5. QED BY <1>1, <1>2, <1>3, <1>4, DpStepOf

(* A process ends. *)
LEMMA DpEnds ==
    ASSUME DpInv, NEW p \in DpProcs, DpEnd(p), UNCHANGED <<dpFile, dpStarts>>
    PROVE  DpInv'
  <1>1. DpSet(p, DpIdle) BY DEF DpEnd
  <1>2. dpFile' \in [DpNames -> DpContents] /\ dpStarts' \in 0..DpMaxStarts BY DEF DpInv
  <1>3. \A q \in DpProcs \ {p} : DpKeyStays(dpProc[q], dpFile') BY DEF DpInv
  <1>4. QED BY <1>1, <1>2, <1>3, DpIdleInv, DpStepOf

(* A command starts under the operator's discipline: what rewrites the       *)
(* charter starts alone, and nothing starts beside a charter still being     *)
(* written.                                                                  *)
LEMMA DpStarted ==
    ASSUME DpInv, NEW p \in DpProcs, NEW cmd, NEW r0, DpStart(p, cmd, r0),
           NEW r, r = [r0 EXCEPT !.cmd = cmd], r.cmd = cmd, DpProcInv(r),
           r.pc \notin {"ceremony", "csh"}
    PROVE  DpInv'
  <1>1. DpMayStart(p, cmd) /\ DpSet(p, r) /\ dpFile' = dpFile /\ dpStarts' = dpStarts + 1
    BY DEF DpStart
  <1>2. dpStarts' \in 0..DpMaxStarts /\ dpFile' \in [DpNames -> DpContents]
    BY <1>1, DpAssumption DEF DpMayStart, DpInv
  <1>3. DpHasCharter(r) => \A q \in DpProcs \ {p} : dpProc[q] = DpIdle
    BY <1>1 DEF DpHasCharter, DpMayStart, DpRewrites
  <1>4. ASSUME NEW q \in DpProcs \ {p}, DpHasCharter(dpProc[q]) PROVE FALSE
    <2>1. dpProc[q] # DpIdle BY <1>4, DpIdleInv
    <2>2. dpProc[q].cmd \in DpRewrites BY <1>4 DEF DpHasCharter, DpRewrites
    <2>3. DpReady(q, "gates") BY <1>1, <2>1, <2>2 DEF DpMayStart
    <2>4. DpPlaces(dpProc[q]) BY DEF DpInv, DpProcInv
    <2>5. QED BY <1>4, <2>3, <2>4 DEF DpReady, DpPlaces, DpHasCharter
  <1>5. \A q \in DpProcs \ {p} : DpKeyStays(dpProc[q], dpFile') BY <1>1 DEF DpInv
  <1>6. DpKeyStays(r, dpFile') BY DEF DpKeyStays
  <1>7. QED BY <1>1, <1>2, <1>3, <1>4, <1>5, <1>6, DpStepOf

(* The charter's two writes, and the suite's three. *)
LEMMA DpCharterTyped ==
    ASSUME NEW k \in DpContents
    PROVE  /\ DpCharterWrites(k) \in Seq(DpWrite) /\ DpCharterWrites(k) # <<>>
           /\ \A j \in DpContents : Append(DpCharterWrites(k), DpPut("priv", j)) \in Seq(DpWrite)
  <1>1. \A f \in DpNames, v \in DpContents : DpPut(f, v) \in DpWrite BY DEF DpPut, DpWrite
  <1>2. DpPut("pub", k) \in DpWrite /\ DpPut("manifest", k) \in DpWrite BY <1>1 DEF DpNames
  <1> HIDE DEF DpWrite
  <1>3. DpCharterWrites(k) \in Seq(DpWrite) /\ DpCharterWrites(k) # <<>> BY <1>2 DEF DpCharterWrites
  <1>4. ASSUME NEW j \in DpContents
        PROVE Append(DpCharterWrites(k), DpPut("priv", j)) \in Seq(DpWrite)
    <2>1. DpPut("priv", j) \in DpWrite BY <1>1 DEF DpNames
    <2>2. QED BY <1>3, <2>1, AppendProperties
  <1>5. QED BY <1>3, <1>4

(* ugk charter starts. *)
LEMMA DpCharterStep == ASSUME DpInv, NEW p \in DpProcs, DpCharter(p) PROVE DpInv'
  <1>1. PICK k \in DpKeys :
            DpStart(p, "charter", [DpIdle EXCEPT !.pc = "written", !.todo = DpCharterWrites(k)])
    BY DEF DpCharter
  <1>2. PICK w : w = DpCharterWrites(k) OBVIOUS
  <1>3. w \in Seq(DpWrite) BY <1>2, DpCharterTyped DEF DpContents, DpAllKeys
  <1>4. PICK r0 : r0 = [DpIdle EXCEPT !.pc = "written", !.todo = w] OBVIOUS
  <1>5. PICK r : r = [r0 EXCEPT !.cmd = "charter"] OBVIOUS
  <1>6. r.cmd = "charter" /\ r.pc = "written" /\ r.todo = w /\ ~r.opened /\ ~r.quorum
    BY <1>4, <1>5 DEF DpIdle
  <1>7. r \in DpState BY <1>3, <1>4, <1>5, DpIdleInv DEF DpProcInv, DpState
  <1>8. DpProcInv(r) BY <1>6, <1>7 DEF DpProcInv, DpPlaces, DpKeysOf
  <1>9. DpStart(p, "charter", r0) BY <1>1, <1>2, <1>4
  <1>10. QED BY <1>5, <1>6, <1>8, <1>9, DpStarted

(* The commands that found a kernel: authority-model --set, govern, attest. *)
LEMMA DpCommandStep ==
    ASSUME DpInv, NEW p \in DpProcs, DpAuthorityModel(p) \/ DpGovern(p) \/ DpAttest(p)
    PROVE  DpInv'
  <1> DEFINE Founds(r) == /\ r \in DpState /\ r.pc = "import" /\ r.todo = <<>>
                          /\ ~r.opened /\ ~r.quorum
  <1>1. \A k \in DpContents : Founds([DpIdle EXCEPT !.pc = "import", !.want = k])
    <2> TAKE k \in DpContents
    <2>1. [DpIdle EXCEPT !.pc = "import", !.want = k] \in DpState BY DpIdleInv DEF DpProcInv, DpState
    <2>2. QED BY <2>1 DEF DpIdle
  <1>2. Founds([DpIdle EXCEPT !.pc = "import"])
    <2>1. [DpIdle EXCEPT !.pc = "import"] \in DpState BY DpIdleInv DEF DpProcInv, DpState
    <2>2. QED BY <2>1 DEF DpIdle
  <1>3. dpFile["manifest"] \in DpContents BY DEF DpInv, DpNames
  <1> HIDE DEF Founds
  <1>4. PICK c, r0 : c \in {"set", "govern", "attest"} /\ DpStart(p, c, r0) /\ Founds(r0)
    BY <1>1, <1>2, <1>3 DEF DpAuthorityModel, DpGovern, DpAttest
  <1>5. PICK r : r = [r0 EXCEPT !.cmd = c] OBVIOUS
  <1>6. r0 \in DpState BY <1>4 DEF Founds
  <1>7. r \in DpState BY <1>4, <1>5, <1>6 DEF DpState
  <1>8. r.cmd = c /\ r.pc = "import" /\ r.todo = <<>> /\ ~r.opened /\ ~r.quorum
    BY <1>4, <1>5, <1>6 DEF DpState, Founds
  <1>9. DpProcInv(r) BY <1>4, <1>7, <1>8 DEF DpProcInv, DpPlaces, DpKeysOf
  <1>10. QED BY <1>4, <1>5, <1>8, <1>9, DpStarted

(* The conformance suite on an unfounded tree. *)
LEMMA DpSuiteStep == ASSUME DpInv, NEW p \in DpProcs, DpSuite(p) PROVE DpInv'
  <1>1. PICK w : w = Append(DpCharterWrites(DpFixture), DpPut("priv", DpFixture)) OBVIOUS
  <1>2. w \in Seq(DpWrite) BY <1>1, DpCharterTyped DEF DpContents, DpAllKeys
  <1>3. PICK r0 : r0 = [DpIdle EXCEPT !.pc = "gates", !.was = dpFile, !.todo = w] OBVIOUS
  <1>4. PICK r : r = [r0 EXCEPT !.cmd = "suite"] OBVIOUS
  <1>5. r.cmd = "suite" /\ r.pc = "gates" /\ r.todo = w /\ ~r.opened /\ ~r.quorum
    BY <1>3, <1>4 DEF DpIdle
  <1>6. r \in DpState
    <2>1. dpFile \in [DpNames -> DpContents] BY DEF DpInv
    <2>2. QED BY <1>2, <1>3, <1>4, <2>1, DpIdleInv DEF DpProcInv, DpState
  <1>7. DpProcInv(r) BY <1>5, <1>6 DEF DpProcInv, DpPlaces, DpKeysOf
  <1>8. DpStart(p, "suite", r0) BY <1>1, <1>3 DEF DpSuite
  <1>9. QED BY <1>4, <1>5, <1>7, <1>8, DpStarted

(* The first of a process's writes: its file and value, and that only a      *)
(* process that has the directory to itself writes the key file.             *)
LEMMA DpFirstWrite ==
    ASSUME DpInv, NEW p \in DpProcs, dpProc[p].todo # <<>>
    PROVE  /\ Head(dpProc[p].todo) \in DpWrite /\ Tail(dpProc[p].todo) \in Seq(DpWrite)
           /\ dpProc[p].pc \in {"ic", "finality", "written", "gates"} /\ dpProc[p] # DpIdle
           /\ Head(dpProc[p].todo).file = "pub" => DpHasCharter(dpProc[p])
           /\ dpProc[p].pc \in {"ic", "finality"} =>
                \A i \in DOMAIN Tail(dpProc[p].todo) : Tail(dpProc[p].todo)[i].file \in {"set", "ic"}
  <1>1. DpPlaces(dpProc[p]) /\ dpProc[p].todo \in Seq(DpWrite)
    BY DEF DpInv, DpProcInv, DpState
  <1>2. PICK s : s = dpProc[p].todo OBVIOUS
  <1> HIDE DEF DpWrite
  <1>3. s \in Seq(DpWrite) /\ s # <<>> BY <1>1, <1>2
  <1>4. /\ Head(s) \in DpWrite /\ Tail(s) \in Seq(DpWrite) /\ Head(s) = s[1] /\ 1 \in DOMAIN s
        /\ \A i \in DOMAIN Tail(s) : i + 1 \in DOMAIN s /\ Tail(s)[i] = s[i + 1]
    BY <1>3
  <1>5. dpProc[p].pc \in {"ic", "finality", "written", "gates"} BY <1>1 DEF DpPlaces
  <1>6. dpProc[p] # DpIdle BY DEF DpIdle
  <1>7. dpProc[p].pc \in {"ic", "finality"} => \A i \in DOMAIN s : s[i].file \in {"set", "ic"}
    BY <1>1, <1>2 DEF DpPlaces
  <1>8. Head(s).file = "pub" => DpHasCharter(dpProc[p])
    <2>1. SUFFICES ASSUME Head(s).file = "pub" PROVE DpHasCharter(dpProc[p]) OBVIOUS
    <2>2. dpProc[p].pc \in {"written", "gates"} BY <1>4, <1>5, <1>7, <2>1
    <2>3. QED BY <1>1, <2>2 DEF DpPlaces, DpHasCharter
  <1>9. QED BY <1>2, <1>4, <1>5, <1>6, <1>7, <1>8

(* open(path, "w") *)
LEMMA DpTruncateStep == ASSUME DpInv, NEW p \in DpProcs, DpTruncate(p) PROVE DpInv'
  <1>1. dpProc[p].todo # <<>> BY DEF DpTruncate
  <1>2. PICK w : w = Head(dpProc[p].todo) OBVIOUS
  <1>3. /\ w \in DpWrite /\ dpProc[p].pc \in {"ic", "finality", "written", "gates"} /\ dpProc[p] # DpIdle
        /\ w.file = "pub" => DpHasCharter(dpProc[p])
    BY <1>1, <1>2, DpFirstWrite
  <1>4. PICK r : r = [dpProc[p] EXCEPT !.opened = TRUE] OBVIOUS
  <1>5. DpProcInv(dpProc[p]) /\ dpFile \in [DpNames -> DpContents] BY DEF DpInv
  <1>6. r \in DpState BY <1>4, <1>5 DEF DpProcInv, DpState
  <1>7. /\ r.cmd = dpProc[p].cmd /\ r.pc = dpProc[p].pc /\ r.todo = dpProc[p].todo
        /\ r.key = dpProc[p].key /\ r.pub = dpProc[p].pub /\ r.set = dpProc[p].set
        /\ r.priv = dpProc[p].priv /\ r.quorum = dpProc[p].quorum
    BY <1>4, <1>5 DEF DpProcInv, DpState
  <1>8. DpProcInv(r)
    <2>1. DpPlaces(r) BY <1>1, <1>5, <1>7 DEF DpProcInv, DpPlaces
    <2>2. DpKeysOf(r) BY <1>5, <1>7 DEF DpProcInv, DpKeysOf
    <2>3. QED BY <1>6, <2>1, <2>2 DEF DpProcInv
  <1>9. DpSet(p, r) /\ dpFile' = [dpFile EXCEPT ![w.file] = "empty"] /\ dpStarts' = dpStarts
    BY <1>2, <1>4 DEF DpTruncate
  <1>10. dpFile' \in [DpNames -> DpContents]
    BY <1>3, <1>5, <1>9 DEF DpWrite, DpContents, DpGone
  <1>11. dpFile'["pub"] = dpFile["pub"] \/ DpHasCharter(dpProc[p])
    BY <1>3, <1>5, <1>9 DEF DpWrite, DpNames
  <1>12. DpKeyStays(r, dpFile') BY <1>3, <1>7 DEF DpKeyStays
  <1>13. QED BY <1>3, <1>7, <1>8, <1>9, <1>10, <1>11, <1>12, DpGoesOn

(* The write itself. *)
LEMMA DpFillStep == ASSUME DpInv, NEW p \in DpProcs, DpFill(p) PROVE DpInv'
  <1>1. DpProcInv(dpProc[p]) /\ dpFile \in [DpNames -> DpContents] BY DEF DpInv
  <1>2. dpProc[p].todo # <<>> BY <1>1 DEF DpFill, DpProcInv, DpPlaces
  <1>3. PICK w, s : w = Head(dpProc[p].todo) /\ s = Tail(dpProc[p].todo) OBVIOUS
  <1>4. /\ w \in DpWrite /\ s \in Seq(DpWrite)
        /\ dpProc[p].pc \in {"ic", "finality", "written", "gates"} /\ dpProc[p] # DpIdle
        /\ w.file = "pub" => DpHasCharter(dpProc[p])
        /\ dpProc[p].pc \in {"ic", "finality"} => \A i \in DOMAIN s : s[i].file \in {"set", "ic"}
    BY <1>2, <1>3, DpFirstWrite
  <1>5. PICK r : r = [dpProc[p] EXCEPT !.opened = FALSE, !.todo = s] OBVIOUS
  <1>6. r \in DpState BY <1>1, <1>4, <1>5 DEF DpProcInv, DpState
  <1>7. /\ r.cmd = dpProc[p].cmd /\ r.pc = dpProc[p].pc /\ r.todo = s /\ ~r.opened
        /\ r.key = dpProc[p].key /\ r.pub = dpProc[p].pub /\ r.set = dpProc[p].set
        /\ r.priv = dpProc[p].priv /\ r.quorum = dpProc[p].quorum
    BY <1>1, <1>5 DEF DpProcInv, DpState
  <1>8. DpProcInv(r)
    <2>1. DpPlaces(r) BY <1>1, <1>4, <1>7 DEF DpProcInv, DpPlaces
    <2>2. DpKeysOf(r) BY <1>1, <1>7 DEF DpProcInv, DpKeysOf
    <2>3. QED BY <1>6, <2>1, <2>2 DEF DpProcInv
  <1>9. DpSet(p, r) /\ dpFile' = [dpFile EXCEPT ![w.file] = w.value] /\ dpStarts' = dpStarts
    BY <1>3, <1>5 DEF DpFill
  <1>10. dpFile' \in [DpNames -> DpContents]
    BY <1>1, <1>4, <1>9 DEF DpWrite
  <1>11. dpFile'["pub"] = dpFile["pub"] \/ DpHasCharter(dpProc[p])
    BY <1>1, <1>4, <1>9 DEF DpWrite, DpNames
  <1>12. DpKeyStays(r, dpFile') BY <1>4, <1>7 DEF DpKeyStays
  <1>13. QED BY <1>2, <1>4, <1>7, <1>8, <1>9, <1>10, <1>11, <1>12, DpGoesOn

(* A process under way, with nothing left to write, goes on without touching *)
(* the directory.                                                            *)
LEMMA DpPasses ==
    ASSUME DpInv, NEW p \in DpProcs, dpProc[p].pc # "idle", NEW r, DpSet(p, r), DpProcInv(r),
           r.cmd = dpProc[p].cmd, dpProc[p].cmd # "suite" \/ r.todo = <<>>,
           UNCHANGED <<dpFile, dpStarts>>, DpKeyStays(r, dpFile)
    PROVE  DpInv'
  <1>1. dpProc[p] # DpIdle BY DEF DpIdle
  <1>2. dpFile' \in [DpNames -> DpContents] BY DEF DpInv
  <1>3. QED BY <1>1, <1>2, DpGoesOn

(* Founding: the import binds the key file's content, and the ceremony, or   *)
(* hydrate_readonly, goes on only with a key.                                *)
LEMMA DpFoundingStep ==
    ASSUME DpInv, NEW p \in DpProcs, DpImport(p) \/ DpCeremony(p) \/ DpHydrateReadonly(p)
    PROVE  DpInv'
  <1>1. DpProcInv(dpProc[p]) /\ dpFile \in [DpNames -> DpContents] /\ DpKeyStays(dpProc[p], dpFile)
    BY DEF DpInv
  <1>2. CASE DpImport(p)
    <2>1. dpProc[p].pc = "import" /\ dpProc[p].todo = <<>> BY <1>2 DEF DpImport, DpReady
    <2>2. PICK r : r = [dpProc[p] EXCEPT !.key = dpFile["pub"], !.pc = "ceremony"] OBVIOUS
    <2>3. r \in DpState BY <1>1, <2>2 DEF DpProcInv, DpState, DpNames
    <2>4. /\ r.cmd = dpProc[p].cmd /\ r.pc = "ceremony" /\ r.todo = <<>> /\ r.key = dpFile["pub"]
          /\ r.opened = dpProc[p].opened /\ r.quorum = dpProc[p].quorum
      BY <1>1, <2>1, <2>2 DEF DpProcInv, DpState
    <2>5. DpPlaces(r) /\ DpKeysOf(r) BY <1>1, <2>1, <2>4 DEF DpProcInv, DpPlaces, DpKeysOf
    <2>6. DpSet(p, r) /\ UNCHANGED <<dpFile, dpStarts>> BY <1>2, <2>2 DEF DpImport
    <2>7. DpKeyStays(r, dpFile) BY <2>4 DEF DpKeyStays
    <2>8. QED BY <2>1, <2>3, <2>4, <2>5, <2>6, <2>7, DpPasses DEF DpProcInv
  <1>3. CASE DpCeremony(p) \/ DpHydrateReadonly(p)
    <2>1. /\ dpProc[p].pc = "ceremony" /\ dpProc[p].todo = <<>> /\ UNCHANGED <<dpFile, dpStarts>>
          /\ \/ DpEnd(p)
             \/ dpProc[p].key # "absent" /\ DpSet(p, [dpProc[p] EXCEPT !.pc = "csh"])
      BY <1>3 DEF DpCeremony, DpHydrateReadonly, DpReady
    <2>2. CASE DpEnd(p) BY <2>1, <2>2, DpEnds
    <2>3. CASE dpProc[p].key # "absent" /\ DpSet(p, [dpProc[p] EXCEPT !.pc = "csh"])
      <3>1. PICK r : r = [dpProc[p] EXCEPT !.pc = "csh"] OBVIOUS
      <3>2. r \in DpState BY <1>1, <3>1 DEF DpProcInv, DpState
      <3>3. /\ r.cmd = dpProc[p].cmd /\ r.pc = "csh" /\ r.todo = <<>> /\ r.key = dpProc[p].key
            /\ r.opened = dpProc[p].opened /\ r.quorum = dpProc[p].quorum
        BY <1>1, <2>1, <3>1 DEF DpProcInv, DpState
      <3>4. DpPlaces(r) /\ DpKeysOf(r) BY <1>1, <2>1, <2>3, <3>3 DEF DpProcInv, DpPlaces, DpKeysOf
      <3>5. DpKeyStays(r, dpFile) BY <1>1, <2>1, <3>3 DEF DpKeyStays
      <3>6. QED BY <2>1, <2>3, <3>1, <3>2, <3>3, <3>4, <3>5, DpPasses DEF DpProcInv
    <2>4. QED BY <2>1, <2>2, <2>3
  <1>4. QED BY <1>2, <1>3

(* _activate_csh: the key file it reads is the one imported, since it is     *)
(* there; the validator set is loaded, or sealed over the process's own key. *)
LEMMA DpActivateCshStep == ASSUME DpInv, NEW p \in DpProcs, DpActivateCsh(p) PROVE DpInv'
  <1>1. DpProcInv(dpProc[p]) /\ dpFile \in [DpNames -> DpContents] /\ DpKeyStays(dpProc[p], dpFile)
    BY DEF DpInv
  <1>2. dpProc[p].pc = "csh" /\ dpProc[p].todo = <<>> /\ UNCHANGED <<dpFile, dpStarts>>
    BY DEF DpActivateCsh, DpReady
  <1>3. PICK pub, priv : pub = dpFile["pub"] /\ priv = dpFile["priv"] OBVIOUS
  <1>4. pub \in DpContents /\ priv \in DpContents /\ dpFile["set"] \in DpContents
    BY <1>1, <1>3 DEF DpNames
  <1>5. CASE DpSet(p, [dpProc[p] EXCEPT !.pc = "active"])
    <2>1. PICK r : r = [dpProc[p] EXCEPT !.pc = "active"] OBVIOUS
    <2>2. r \in DpState BY <1>1, <2>1 DEF DpProcInv, DpState
    <2>3. /\ r.cmd = dpProc[p].cmd /\ r.pc = "active" /\ r.todo = <<>>
          /\ r.opened = dpProc[p].opened /\ r.quorum = dpProc[p].quorum
      BY <1>1, <1>2, <2>1 DEF DpProcInv, DpState
    <2>4. DpPlaces(r) /\ DpKeysOf(r) BY <1>1, <1>2, <2>3 DEF DpProcInv, DpPlaces, DpKeysOf
    <2>5. DpKeyStays(r, dpFile) BY <2>3 DEF DpKeyStays
    <2>6. QED BY <1>2, <1>5, <2>1, <2>2, <2>3, <2>4, <2>5, DpPasses DEF DpProcInv
  <1>6. CASE DpEnd(p) BY <1>2, <1>6, DpEnds
  <1>7. ASSUME DpExists("pub"), NEW set \in DpContents, NEW todo \in Seq(DpWrite),
               \A i \in DOMAIN todo : todo[i].file = "set",
               DpSet(p, [dpProc[p] EXCEPT !.pub = pub, !.priv = priv, !.pc = "ic",
                                          !.set = set, !.todo = todo])
        PROVE  DpInv'
    <2>1. PICK r : r = [dpProc[p] EXCEPT !.pub = pub, !.priv = priv, !.pc = "ic",
                                         !.set = set, !.todo = todo]
      OBVIOUS
    <2>2. r \in DpState BY <1>1, <1>4, <2>1 DEF DpProcInv, DpState
    <2>3. /\ r.cmd = dpProc[p].cmd /\ r.pc = "ic" /\ r.todo = todo /\ r.key = dpProc[p].key /\ r.pub = pub
          /\ r.opened = dpProc[p].opened /\ r.quorum = dpProc[p].quorum
      BY <1>1, <2>1 DEF DpProcInv, DpState
    <2>4. pub = dpProc[p].key BY <1>1, <1>2, <1>3, <1>7 DEF DpKeyStays, DpExists
    <2>5. dpProc[p].cmd \in {"set", "govern", "attest"} /\ ~dpProc[p].opened /\ ~dpProc[p].quorum
          /\ dpProc[p].key # "absent"
      BY <1>1, <1>2 DEF DpProcInv, DpState, DpPlaces, DpKeysOf
    <2>6. DpPlaces(r) BY <1>7, <2>3, <2>5 DEF DpPlaces
    <2>7. DpKeysOf(r) BY <2>3, <2>4, <2>5 DEF DpKeysOf
    <2>8. DpKeyStays(r, dpFile) BY <2>3 DEF DpKeyStays
    <2>9. QED BY <1>2, <1>7, <2>1, <2>2, <2>3, <2>5, <2>6, <2>7, <2>8, DpPasses DEF DpProcInv
  <1>8. CASE /\ DpExists("pub")
             /\ DpSet(p, [[dpProc[p] EXCEPT !.pub = dpFile["pub"], !.priv = dpFile["priv"], !.pc = "ic"]
                            EXCEPT !.set = dpFile["set"]])
    <2>1. [[dpProc[p] EXCEPT !.pub = pub, !.priv = priv, !.pc = "ic"] EXCEPT !.set = dpFile["set"]]
          = [dpProc[p] EXCEPT !.pub = pub, !.priv = priv, !.pc = "ic", !.set = dpFile["set"], !.todo = <<>>]
      BY <1>1, <1>2 DEF DpProcInv, DpState
    <2>2. <<>> \in Seq(DpWrite) BY EmptySeq
    <2>3. \A i \in DOMAIN <<>> : <<>>[i].file = "set" BY EmptySeq
    <2>4. DpSet(p, [dpProc[p] EXCEPT !.pub = pub, !.priv = priv, !.pc = "ic",
                                     !.set = dpFile["set"], !.todo = <<>>])
      BY <1>3, <1>8, <2>1
    <2>5. PICK w, set : w = <<>> /\ set = dpFile["set"] OBVIOUS
    <2>6. DpSet(p, [dpProc[p] EXCEPT !.pub = pub, !.priv = priv, !.pc = "ic", !.set = set, !.todo = w])
      BY <2>4, <2>5
    <2>7. w \in Seq(DpWrite) /\ set \in DpContents /\ \A i \in DOMAIN w : w[i].file = "set"
      BY <1>4, <2>2, <2>3, <2>5
    <2>8. QED BY <1>7, <1>8, <2>6, <2>7
  <1>9. CASE /\ DpExists("pub")
             /\ \E r : /\ r = [dpProc[p] EXCEPT !.pub = dpFile["pub"], !.priv = dpFile["priv"], !.pc = "ic"]
                       /\ DpSet(p, [r EXCEPT !.set = r.key, !.todo = <<DpPut("set", r.key)>>])
    <2>1. PICK key : key = dpProc[p].key OBVIOUS
    <2>2. key \in DpContents BY <1>1, <2>1 DEF DpProcInv, DpState
    <2>3. PICK r : /\ r = [dpProc[p] EXCEPT !.pub = dpFile["pub"], !.priv = dpFile["priv"], !.pc = "ic"]
                   /\ DpSet(p, [r EXCEPT !.set = r.key, !.todo = <<DpPut("set", r.key)>>])
      BY <1>9
    <2>4. r.key = key BY <1>1, <2>1, <2>3 DEF DpProcInv, DpState
    <2>5. PICK w : w = <<DpPut("set", key)>> OBVIOUS
    <2>6. DpPut("set", key) \in DpWrite BY <2>2 DEF DpPut, DpWrite, DpNames
    <2>7. w \in Seq(DpWrite) /\ DOMAIN w = {1} /\ w[1] = DpPut("set", key)
      <3> HIDE DEF DpWrite
      <3>1. QED BY <2>5, <2>6
    <2>8. \A i \in DOMAIN w : w[i].file = "set" BY <2>7 DEF DpPut
    <2>9. [r EXCEPT !.set = r.key, !.todo = <<DpPut("set", r.key)>>]
          = [dpProc[p] EXCEPT !.pub = pub, !.priv = priv, !.pc = "ic", !.set = key, !.todo = w]
      BY <1>1, <1>3, <2>3, <2>4, <2>5 DEF DpProcInv, DpState
    <2>10. DpSet(p, [dpProc[p] EXCEPT !.pub = pub, !.priv = priv, !.pc = "ic", !.set = key, !.todo = w])
      BY <2>3, <2>9
    <2>11. QED BY <1>7, <1>9, <2>2, <2>7, <2>8, <2>10
  <1>10. QED BY <1>5, <1>6, <1>8, <1>9 DEF DpActivateCsh

(* The launch certificate is there, unreadable, or about to be written. *)
LEMMA DpLaunchIcStep == ASSUME DpInv, NEW p \in DpProcs, DpLaunchIc(p) PROVE DpInv'
  <1>1. DpProcInv(dpProc[p]) BY DEF DpInv
  <1>2. dpProc[p].pc = "ic" /\ dpProc[p].todo = <<>> /\ UNCHANGED <<dpFile, dpStarts>>
    BY DEF DpLaunchIc, DpReady
  <1>3. dpProc[p].set \in DpContents BY <1>1 DEF DpProcInv, DpState
  <1>4. ASSUME NEW r \in DpState, DpSet(p, r), r.pc = "finality",
               r.cmd = dpProc[p].cmd, r.opened = dpProc[p].opened, r.key = dpProc[p].key,
               r.pub = dpProc[p].pub, r.quorum = dpProc[p].quorum,
               \A i \in DOMAIN r.todo : r.todo[i].file = "ic"
        PROVE  DpInv'
    <2>1. /\ dpProc[p].cmd \in {"set", "govern", "attest"} /\ ~dpProc[p].opened /\ ~dpProc[p].quorum
          /\ dpProc[p].key # "absent" /\ dpProc[p].pub = dpProc[p].key
      BY <1>1, <1>2 DEF DpProcInv, DpState, DpPlaces, DpKeysOf
    <2>2. DpPlaces(r) BY <1>4, <2>1 DEF DpPlaces
    <2>3. DpKeysOf(r) BY <1>4, <2>1 DEF DpKeysOf
    <2>4. DpKeyStays(r, dpFile) BY <1>4 DEF DpKeyStays
    <2>5. QED BY <1>2, <1>4, <2>1, <2>2, <2>3, <2>4, DpPasses DEF DpProcInv
  <1>5. CASE DpSet(p, [dpProc[p] EXCEPT !.pc = "finality"])
    <2>1. PICK r : r = [dpProc[p] EXCEPT !.pc = "finality"] OBVIOUS
    <2>2. r \in DpState BY <1>1, <2>1 DEF DpProcInv, DpState
    <2>3. /\ r.cmd = dpProc[p].cmd /\ r.pc = "finality" /\ r.todo = <<>> /\ r.key = dpProc[p].key
          /\ r.pub = dpProc[p].pub /\ r.opened = dpProc[p].opened /\ r.quorum = dpProc[p].quorum
      BY <1>1, <1>2, <2>1 DEF DpProcInv, DpState
    <2>4. \A i \in DOMAIN r.todo : r.todo[i].file = "ic" BY <2>3, EmptySeq
    <2>5. QED BY <1>4, <1>5, <2>1, <2>2, <2>3, <2>4
  <1>6. CASE DpEnd(p) BY <1>2, <1>6, DpEnds
  <1>7. CASE DpSet(p, [dpProc[p] EXCEPT !.pc = "finality", !.todo = <<DpPut("ic", dpProc[p].set)>>])
    <2>1. PICK w : w = <<DpPut("ic", dpProc[p].set)>> OBVIOUS
    <2>2. DpPut("ic", dpProc[p].set) \in DpWrite BY <1>3 DEF DpPut, DpWrite, DpNames
    <2>3. w \in Seq(DpWrite) /\ DOMAIN w = {1} /\ w[1] = DpPut("ic", dpProc[p].set)
      <3> HIDE DEF DpWrite
      <3>1. QED BY <2>1, <2>2
    <2>4. PICK r : r = [dpProc[p] EXCEPT !.pc = "finality", !.todo = w] OBVIOUS
    <2>5. r \in DpState BY <1>1, <2>3, <2>4 DEF DpProcInv, DpState
    <2>6. /\ r.cmd = dpProc[p].cmd /\ r.pc = "finality" /\ r.todo = w /\ r.key = dpProc[p].key
          /\ r.pub = dpProc[p].pub /\ r.opened = dpProc[p].opened /\ r.quorum = dpProc[p].quorum
      BY <1>1, <2>4 DEF DpProcInv, DpState
    <2>7. \A i \in DOMAIN r.todo : r.todo[i].file = "ic" BY <2>3, <2>6 DEF DpPut
    <2>8. QED BY <1>4, <1>7, <2>1, <2>4, <2>5, <2>6, <2>7
  <1>8. QED BY <1>5, <1>6, <1>7 DEF DpLaunchIc

(* achieve_finality: a quorum is the imported key's, because the key file    *)
(* that was read is.                                                         *)
LEMMA DpFinalityStep == ASSUME DpInv, NEW p \in DpProcs, DpFinality(p) PROVE DpInv'
  <1>1. DpProcInv(dpProc[p]) BY DEF DpInv
  <1>2. dpProc[p].pc = "finality" /\ dpProc[p].todo = <<>> /\ UNCHANGED <<dpFile, dpStarts>>
    BY DEF DpFinality, DpReady
  <1>3. PICK b : b = DpAttested(dpProc[p]) /\ b \in BOOLEAN BY DEF DpAttested
  <1>4. PICK r : r = [dpProc[p] EXCEPT !.quorum = b, !.pc = "active"] OBVIOUS
  <1>5. r \in DpState BY <1>1, <1>3, <1>4 DEF DpProcInv, DpState
  <1>6. /\ r.cmd = dpProc[p].cmd /\ r.pc = "active" /\ r.todo = <<>> /\ r.key = dpProc[p].key
        /\ r.set = dpProc[p].set /\ r.priv = dpProc[p].priv /\ r.opened = dpProc[p].opened /\ r.quorum = b
    BY <1>1, <1>2, <1>4 DEF DpProcInv, DpState
  <1>7. DpPlaces(r) BY <1>1, <1>2, <1>6 DEF DpProcInv, DpPlaces
  <1>8. b => /\ r.key \in DpAllKeys /\ r.key = r.set /\ r.key = r.priv
    <2>1. dpProc[p].pub = dpProc[p].key /\ dpProc[p].key # "absent" /\ dpProc[p].key \in DpContents
      BY <1>1, <1>2 DEF DpProcInv, DpState, DpKeysOf
    <2>2. QED BY <1>3, <1>6, <2>1 DEF DpAttested, DpContents, DpGone
  <1>9. DpKeysOf(r) BY <1>6, <1>8 DEF DpKeysOf
  <1>10. DpKeyStays(r, dpFile) BY <1>6 DEF DpKeyStays
  <1>11. DpSet(p, r) BY <1>3, <1>4 DEF DpFinality
  <1>12. QED BY <1>2, <1>5, <1>6, <1>7, <1>9, <1>10, <1>11, DpPasses DEF DpProcInv

(* The command runs; authority-model --set goes on to rewrite the charter. *)
LEMMA DpRunStep == ASSUME DpInv, NEW p \in DpProcs, DpRun(p) PROVE DpInv'
  <1>1. DpProcInv(dpProc[p]) BY DEF DpInv
  <1>2. dpProc[p].pc = "active" /\ UNCHANGED <<dpFile, dpStarts>>
    BY DEF DpRun, DpReady
  <1>3. CASE DpEnd(p) BY <1>2, <1>3, DpEnds
  <1>4. CASE /\ dpProc[p].cmd = "set"
             /\ DpSet(p, [dpProc[p] EXCEPT !.pc = "written", !.todo = DpCharterWrites(dpProc[p].want)])
    <2>1. PICK w : w = DpCharterWrites(dpProc[p].want) OBVIOUS
    <2>2. dpProc[p].want \in DpContents BY <1>1 DEF DpProcInv, DpState
    <2>3. w \in Seq(DpWrite) BY <2>1, <2>2, DpCharterTyped
    <2>4. PICK r : r = [dpProc[p] EXCEPT !.pc = "written", !.todo = w] OBVIOUS
    <2>5. r \in DpState BY <1>1, <2>3, <2>4 DEF DpProcInv, DpState
    <2>6. /\ r.cmd = dpProc[p].cmd /\ r.pc = "written" /\ r.key = dpProc[p].key
          /\ r.set = dpProc[p].set /\ r.priv = dpProc[p].priv /\ r.opened = dpProc[p].opened
          /\ r.quorum = dpProc[p].quorum
      BY <1>1, <2>4 DEF DpProcInv, DpState
    <2>7. DpPlaces(r) BY <1>1, <1>2, <1>4, <2>6 DEF DpProcInv, DpPlaces
    <2>8. DpKeysOf(r) BY <1>1, <2>6 DEF DpProcInv, DpKeysOf
    <2>9. DpKeyStays(r, dpFile) BY <2>6 DEF DpKeyStays
    <2>10. QED BY <1>2, <1>4, <2>1, <2>4, <2>5, <2>6, <2>7, <2>8, <2>9, DpPasses DEF DpProcInv
  <1>5. QED BY <1>3, <1>4 DEF DpRun

(* The suite's finally begins, and then removes one file after the other:    *)
(* the key file can only go.                                                 *)
LEMMA DpRestoreStep ==
    ASSUME DpInv, NEW p \in DpProcs, DpRestore(p) \/ DpUnlink(p)
    PROVE  DpInv'
  <1>1. DpProcInv(dpProc[p]) /\ dpFile \in [DpNames -> DpContents] BY DEF DpInv
  <1>2. /\ dpProc[p].pc \in {"gates", "restore"} /\ dpProc[p].todo = <<>> /\ dpProc[p] # DpIdle
        /\ dpStarts' = dpStarts
    BY <1>1 DEF DpRestore, DpUnlink, DpReady, DpProcInv, DpPlaces, DpIdle
  <1>3. /\ dpFile' \in [DpNames -> DpContents] /\ dpFile'["pub"] \in {dpFile["pub"], "absent"}
        /\ \E pc \in {"restore", "restored"}, doomed \in SUBSET DpNames :
              DpSet(p, [dpProc[p] EXCEPT !.pc = pc, !.doomed = doomed])
    <2>1. dpProc[p].doomed \in SUBSET DpNames BY <1>1 DEF DpProcInv, DpState
    <2>2. CASE DpRestore(p)
      <3>1. {f \in DpNames : DpExists(f) /\ dpProc[p].was[f] = "absent"} \in SUBSET DpNames OBVIOUS
      <3>2. dpFile' = dpFile BY <2>2 DEF DpRestore
      <3>3. QED BY <1>1, <2>2, <3>1, <3>2 DEF DpRestore
    <2>3. CASE DpUnlink(p)
      <3>1. dpProc[p].pc = "restore" BY <2>3 DEF DpUnlink
      <3>2. CASE \E f \in dpProc[p].doomed :
                    /\ dpFile' = [dpFile EXCEPT ![f] = "absent"]
                    /\ DpSet(p, [dpProc[p] EXCEPT !.doomed = @ \ {f}])
        <4>1. PICK f \in dpProc[p].doomed :
                    /\ dpFile' = [dpFile EXCEPT ![f] = "absent"]
                    /\ DpSet(p, [dpProc[p] EXCEPT !.doomed = @ \ {f}])
          BY <3>2
        <4>2. PICK d : d = dpProc[p].doomed \ {f} OBVIOUS
        <4>3. d \in SUBSET DpNames BY <2>1, <4>2
        <4>4. [dpProc[p] EXCEPT !.doomed = @ \ {f}] = [dpProc[p] EXCEPT !.pc = "restore", !.doomed = d]
          BY <1>1, <3>1, <4>2 DEF DpProcInv, DpState
        <4>5. DpSet(p, [dpProc[p] EXCEPT !.pc = "restore", !.doomed = d]) BY <4>1, <4>4
        <4>6. dpFile' \in [DpNames -> DpContents] /\ dpFile'["pub"] \in {dpFile["pub"], "absent"}
          BY <1>1, <2>1, <4>1 DEF DpContents, DpGone, DpNames
        <4>7. QED BY <4>3, <4>5, <4>6
      <3>3. CASE DpSet(p, [dpProc[p] EXCEPT !.pc = "restored"]) /\ UNCHANGED dpFile
        <4>1. PICK d : d = dpProc[p].doomed OBVIOUS
        <4>2. [dpProc[p] EXCEPT !.pc = "restored"] = [dpProc[p] EXCEPT !.pc = "restored", !.doomed = d]
          BY <1>1, <4>1 DEF DpProcInv, DpState
        <4>3. DpSet(p, [dpProc[p] EXCEPT !.pc = "restored", !.doomed = d]) BY <3>3, <4>2
        <4>4. QED BY <1>1, <2>1, <3>3, <4>1, <4>3
      <3>4. QED BY <2>3, <3>2, <3>3 DEF DpUnlink
    <2>4. QED BY <2>2, <2>3
  <1>4. PICK pc \in {"restore", "restored"}, doomed \in SUBSET DpNames :
            DpSet(p, [dpProc[p] EXCEPT !.pc = pc, !.doomed = doomed])
    BY <1>3
  <1>5. PICK r : r = [dpProc[p] EXCEPT !.pc = pc, !.doomed = doomed] OBVIOUS
  <1>6. r \in DpState BY <1>1, <1>5 DEF DpProcInv, DpState
  <1>7. /\ r.cmd = dpProc[p].cmd /\ r.pc = pc /\ r.todo = <<>>
        /\ r.opened = dpProc[p].opened /\ r.quorum = dpProc[p].quorum
    BY <1>1, <1>2, <1>5 DEF DpProcInv, DpState
  <1>8. DpPlaces(r) /\ DpKeysOf(r) BY <1>1, <1>2, <1>7 DEF DpProcInv, DpPlaces, DpKeysOf
  <1>9. DpKeyStays(r, dpFile') BY <1>7 DEF DpKeyStays
  <1>10. QED BY <1>2, <1>3, <1>4, <1>5, <1>6, <1>7, <1>8, <1>9, DpGoesOn DEF DpProcInv

(* The operator places a private key while nothing runs. *)
LEMMA DpPlaceKeyStep == ASSUME DpInv, NEW k \in DpKeys, DpPlaceKey(k) PROVE DpInv'
  <1>1. dpFile' = [dpFile EXCEPT !["priv"] = k] /\ UNCHANGED <<dpProc, dpStarts>> BY DEF DpPlaceKey
  <1>2. dpFile' \in [DpNames -> DpContents] /\ dpFile'["pub"] = dpFile["pub"]
    BY <1>1 DEF DpInv, DpContents, DpAllKeys, DpNames
  <1>3. QED BY <1>1, <1>2 DEF DpInv, DpKeyStays

(* DpInv is an invariant of the genesis directory. *)
THEOREM DeploymentInvariance == DpSpec => []DpInv
  <1>1. DpInit => DpInv
    <2> SUFFICES ASSUME DpInit PROVE DpInv
      OBVIOUS
    <2>1. \A p \in DpProcs : dpProc[p] = DpIdle BY DEF DpInit
    <2>2. DOMAIN dpProc = DpProcs /\ dpStarts \in 0..DpMaxStarts BY DpAssumption DEF DpInit
    <2>3. dpFile \in [DpNames -> DpContents]
      BY DEF DpInit, DpNames, DpContents, DpGone, DpAllKeys
    <2>4. QED BY <2>1, <2>2, <2>3, DpIdleInv DEF DpInv
  <1>2. DpInv /\ [DpNext]_dpVars => DpInv'
    <2> SUFFICES ASSUME DpInv, [DpNext]_dpVars PROVE DpInv'
      OBVIOUS
    <2>1. ASSUME NEW p \in DpProcs, DpReturn(p) \/ DpDie(p) PROVE DpInv'
      BY <2>1, DpEnds DEF DpReturn, DpDie
    <2>2. CASE DpNext
      BY <2>1, <2>2, DpPlaceKeyStep, DpCharterStep, DpCommandStep, DpSuiteStep, DpTruncateStep,
         DpFillStep, DpFoundingStep, DpActivateCshStep, DpLaunchIcStep, DpFinalityStep, DpRunStep,
         DpRestoreStep DEF DpNext
    <2>3. CASE UNCHANGED dpVars BY <2>3 DEF dpVars, DpInv
    <2>4. QED BY <2>2, <2>3
  <1>3. QED BY <1>1, <1>2, PTL DEF DpSpec

(* A kernel that reports CSH quorum has it from the governor it was founded  *)
(* under, for any number of processes, keys and commands, wherever one of    *)
(* them dies and whatever it leaves half written in the directory.           *)
THEOREM QuorumIsTheGovernorsOwn == DpSpec => []DpQuorumIsOwn
  <1>1. DpInv => DpQuorumIsOwn BY DEF DpInv, DpProcInv, DpKeysOf, DpQuorumIsOwn
  <1>2. QED BY <1>1, DeploymentInvariance, PTL
=============================================================================

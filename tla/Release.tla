------------------------------- MODULE Release -------------------------------
(***************************************************************************)
(* The release-certification orchestrator                                  *)
(* (tools/release/certify_release.py) in its quick, deep, compose and full *)
(* phases: preflight, extraction into a scratch directory, the cache of    *)
(* earlier PASS records that --resume builds from a prior manifest, the    *)
(* members of the phase in order, the aggregate verdict and the manifest.  *)
(* A run may die anywhere; the manifest is rewritten in place, so a death  *)
(* in the middle leaves a torn file, which a later --resume reads as an    *)
(* empty cache.                                                            *)
(*                                                                         *)
(* An archive is the function from its files to their contents.  Several   *)
(* runs may share a scratch directory: an extraction overwrites, and       *)
(* removes nothing.  One element of RlEnvs stands for the environment      *)
(* fingerprint and the orchestrator's own hash.  The archive file and the  *)
(* archives directory are not rewritten during a run.                      *)
(***************************************************************************)
EXTENDS Naturals, Sequences, FiniteSets

CONSTANTS
    RlArchives,     \* archive -> its files and their contents
    RlRequired,     \* the files preflight insists on
    RlMembers,      \* phase -> the sequence of its members
    RlKind,         \* member -> how it is run
    RlTool,         \* member -> the file of the extract that runs it
    RlEnvs,         \* environments
    RlScratches,    \* scratch directories
    RlPriors,       \* what --prior-archive names: archives, or RlNone
    RlWorktrees,    \* what --worktree holds: files and contents, or RlNone
    RlDeclared,     \* the surfaces declared as changed since the prior archive
    RlNone,         \* no archive, no worktree, no manifest, no run
    RlMaxRuns       \* bound: runs of the orchestrator

VARIABLES
    rlTree,         \* scratch -> what its extract directory holds
    rlPrior,        \* scratch -> what its prior directory holds
    rlManifest,     \* the manifest path: a manifest, or RlNone (no file, or one torn by a crash)
    rlRun,          \* the run in progress, or RlNone
    rlRuns,         \* runs started
    rlPasses        \* history: every execution of a member that succeeded, and the tree it ran in

rlVars == <<rlTree, rlPrior, rlManifest, rlRun, rlRuns, rlPasses>>

RlNames == DOMAIN RlKind

ASSUME RlAssumption ==
    RlMaxRuns \in Nat /\ \A phase \in DOMAIN RlMembers : RlMembers[phase] \in Seq(RlNames)

RlVerdicts == {"PASS", "FAIL", "HOLD", "SKIPPED"}
\* A record of the manifest, as far as a later run reads it.
RlRecord(n, sha, cmd, v) == [name |-> n, sha |-> sha, cmd |-> cmd, verdict |-> v]
RlManifestOf(r, v) == [archive |-> r.archive, env |-> r.env, checks |-> r.records, aggregate |-> v]
RlIsManifest(m) == m # RlNone

\* _ugk_diff: the files that differ, or that only one side has.
RlDiff(x, y) ==
    {f \in DOMAIN x \cup DOMAIN y : ~(f \in DOMAIN x \cap DOMAIN y /\ x[f] = y[f])}

RlTypeOK ==
    /\ DOMAIN rlTree = RlScratches /\ DOMAIN rlPrior = RlScratches
    /\ RlIsManifest(rlManifest) =>
        /\ rlManifest.archive \in DOMAIN RlArchives /\ rlManifest.env \in RlEnvs
        /\ rlManifest.aggregate \in {"PASS", "FAIL", "HOLD"}
        /\ \A i \in DOMAIN rlManifest.checks : rlManifest.checks[i].verdict \in RlVerdicts
    /\ rlRun # RlNone => Len(rlRun.records) <= Len(RlMembers[rlRun.phase])
    /\ rlRuns \in 0..RlMaxRuns

RlInit ==
    /\ rlTree = [s \in RlScratches |-> <<>>] /\ rlPrior = [s \in RlScratches |-> <<>>]
    /\ rlManifest = RlNone /\ rlRun = RlNone /\ rlRuns = 0 /\ rlPasses = {}

-----------------------------------------------------------------------------
(* Preflight, extraction and resume.                                       *)

\* Mutant of RlCache: a manifest of another archive is resumed.
RlCacheAnyArchive(a, e) ==
    IF RlIsManifest(rlManifest) /\ rlManifest.env = e
    THEN {c \in {rlManifest.checks[i] : i \in DOMAIN rlManifest.checks} : c.verdict = "PASS"}
    ELSE {}

\* The PASS records of a manifest of the same archive and environment; a file
\* that is not there or does not parse resumes nothing.
RlCache(a, e) ==
    IF RlIsManifest(rlManifest) /\ rlManifest.archive = a /\ rlManifest.env = e
    THEN {c \in {rlManifest.checks[i] : i \in DOMAIN rlManifest.checks} : c.verdict = "PASS"}
    ELSE {}

\* Extraction lays the archive over whatever the directory held.
RlLaidOver(x, y) ==
    [f \in DOMAIN x \cup DOMAIN y |-> IF f \in DOMAIN x THEN x[f] ELSE y[f]]
RlExtract(a, s) == RlLaidOver(RlArchives[a], rlTree[s])

\* The archive unpacks, but a required file is missing: exit 2, no manifest.
RlPreflightFails(a, s) ==
    /\ rlRun = RlNone /\ rlRuns < RlMaxRuns
    /\ ~(RlRequired \subseteq DOMAIN RlExtract(a, s))
    /\ rlTree' = [rlTree EXCEPT ![s] = RlExtract(a, s)]
    /\ rlRuns' = rlRuns + 1
    /\ UNCHANGED <<rlPrior, rlManifest, rlRun, rlPasses>>

RlStart(a, e, s, phase, prior, worktree, resume) ==
    /\ rlRun = RlNone /\ rlRuns < RlMaxRuns
    /\ RlRequired \subseteq DOMAIN RlExtract(a, s)
    /\ rlTree' = [rlTree EXCEPT ![s] = RlExtract(a, s)]
    /\ rlPrior' = IF prior = RlNone THEN rlPrior
                  ELSE [rlPrior EXCEPT ![s] = RlLaidOver(RlArchives[prior], @)]
    /\ rlRun' = [archive |-> a, env |-> e, scratch |-> s, phase |-> phase,
                 prior |-> prior # RlNone, worktree |-> worktree, records |-> <<>>,
                 cache |-> IF resume THEN RlCache(a, e) ELSE {}]
    /\ rlRuns' = rlRuns + 1
    /\ UNCHANGED <<rlManifest, rlPasses>>

-----------------------------------------------------------------------------
(* The members, one after the other.                                       *)

RlExtracted == rlTree[rlRun.scratch]
RlDone == Len(rlRun.records) = Len(RlMembers[rlRun.phase])
RlCurrent == RlMembers[rlRun.phase][Len(rlRun.records) + 1]
RlExitKinds == {"exit", "marked", "bounded"}
RlIsExit(n) == RlKind[n] \in RlExitKinds
\* tool_sha and the command, which names the extract directory.  A mechanical
\* comparison is recorded under a description no lookup asks for.
RlSha(n) == IF RlIsExit(n) THEN RlExtracted[RlTool[n]] ELSE RlNone
RlCommand(n) == IF RlIsExit(n) THEN rlRun.scratch ELSE "described"
RlHits(n) ==
    {c \in rlRun.cache : RlIsExit(n) /\ c.name = n /\ c.sha = RlSha(n) /\ c.cmd = RlCommand(n)}

RlWorking == rlRun # RlNone /\ ~RlDone
RlAppend(c) == rlRun' = [rlRun EXCEPT !.records = Append(@, c)]
RlKept == UNCHANGED <<rlTree, rlPrior, rlManifest, rlRuns>>

\* A member with a cached PASS is not run again.
RlResume ==
    /\ RlWorking
    /\ \E c \in RlHits(RlCurrent) : RlAppend(c)
    /\ RlKept /\ UNCHANGED rlPasses

\* _bounded_call: 124 when the call exceeds its budget.
RlBoundedHolds(n) == RlKind[n] = "bounded"

\* _verdict_from_rc: 0 with the marker, where one is expected, is PASS; 0
\* without it, or with an unreadable log, HOLD; 124 of a bounded call HOLD.
RlExitVerdicts(n) ==
    {"PASS", "FAIL"} \cup (IF RlKind[n] = "marked" \/ RlBoundedHolds(n) THEN {"HOLD"} ELSE {})

\* The recorded comparisons: the frame (HOLD when it could not be computed),
\* the attestation, the forest of leaf gates, ugk/ against the prior archive
\* and against the worktree.
RlFrameVerdicts == {"PASS", "FAIL", "HOLD"}
RlAttestationVerdicts == {"PASS", "FAIL"}
RlForestVerdicts == {"PASS", "FAIL"}
RlConfinementVerdict ==
    IF ~rlRun.prior THEN "SKIPPED"
    ELSE IF RlDiff(rlPrior[rlRun.scratch], RlExtracted) = RlDeclared THEN "PASS" ELSE "FAIL"
RlNoDriftVerdict ==
    IF rlRun.worktree = RlNone THEN "SKIPPED"
    ELSE IF RlDiff(RlExtracted, rlRun.worktree) = {} THEN "PASS" ELSE "FAIL"

RlCompareVerdicts(n) ==
    CASE RlKind[n] = "frame" -> RlFrameVerdicts
      [] RlKind[n] = "attestation" -> RlAttestationVerdicts
      [] RlKind[n] = "forest" -> RlForestVerdicts
      [] RlKind[n] = "confinement" -> {RlConfinementVerdict}
      [] RlKind[n] = "nodrift" -> {RlNoDriftVerdict}
      [] OTHER -> {"HOLD"}

RlSuccess(n) ==
    [name |-> n, env |-> rlRun.env, sha |-> RlSha(n), cmd |-> RlCommand(n), tree |-> RlExtracted]

\* The member is executed, in the tree the extraction left, what the directory
\* held before included; a success is noted with that tree.
RlExecute ==
    /\ RlWorking
    /\ RlHits(RlCurrent) = {}
    /\ \E v \in IF RlIsExit(RlCurrent) THEN RlExitVerdicts(RlCurrent) ELSE RlCompareVerdicts(RlCurrent) :
        /\ RlAppend(RlRecord(RlCurrent, RlSha(RlCurrent), RlCommand(RlCurrent), v))
        /\ rlPasses' = IF v = "PASS"
                       THEN rlPasses \cup {RlSuccess(RlCurrent)} ELSE rlPasses
    /\ RlKept

-----------------------------------------------------------------------------
(* The manifest.                                                           *)

RlVerdictsOf(s) == {s[i].verdict : i \in DOMAIN s}
RlAggregate(s) ==
    IF "FAIL" \in RlVerdictsOf(s) THEN "FAIL"
    ELSE IF "HOLD" \in RlVerdictsOf(s) THEN "HOLD" ELSE "PASS"

RlFinish ==
    /\ rlRun # RlNone /\ RlDone
    /\ rlManifest' = RlManifestOf(rlRun, RlAggregate(rlRun.records))
    /\ rlRun' = RlNone
    /\ UNCHANGED <<rlTree, rlPrior, rlRuns, rlPasses>>

\* The orchestrator dies: before the manifest, which then stays the earlier
\* one, or while it is being written over.
RlCrash ==
    /\ rlRun # RlNone
    /\ rlManifest' \in {rlManifest} \cup (IF RlDone THEN {RlNone} ELSE {})
    /\ rlRun' = RlNone
    /\ UNCHANGED <<rlTree, rlPrior, rlRuns, rlPasses>>

RlNext ==
    \/ \E a \in DOMAIN RlArchives, s \in RlScratches :
        \/ RlPreflightFails(a, s)
        \/ \E e \in RlEnvs, phase \in DOMAIN RlMembers, resume \in BOOLEAN,
              prior \in RlPriors, worktree \in RlWorktrees :
            RlStart(a, e, s, phase, prior, worktree, resume)
    \/ RlResume \/ RlExecute \/ RlFinish \/ RlCrash

RlSpec == RlInit /\ [][RlNext]_rlVars

-----------------------------------------------------------------------------
\* The tree holds the archive, every file with the archive's contents; it may
\* hold more.
RlHolds(tree, a) ==
    \A f \in DOMAIN RlArchives[a] : f \in DOMAIN tree /\ tree[f] = RlArchives[a][f]

RlEarned(c, a, e) ==
    \E p \in rlPasses :
        /\ p.name = c.name /\ p.env = e /\ p.sha = c.sha /\ p.cmd = c.cmd
        /\ RlHolds(p.tree, a)

\* In a manifest whose aggregate is PASS every check passed or was skipped, and
\* every PASS, resumed through however many manifests, goes back to a successful
\* execution of that member: in the manifest's environment, of the tool with the
\* recorded contents, in the directory the command names, when that directory
\* held every file of the manifest's archive as the archive has it (the resume
\* guard and key of main(), the aggregate, and the in-place manifest a crash may
\* tear).  Nothing is said of what else the directory held: a scratch directory
\* used before still has the files of earlier archives, and a tool among them
\* runs like one of this archive's own.
RlPassEarned ==
    RlIsManifest(rlManifest) /\ rlManifest.aggregate = "PASS" =>
        \A i \in DOMAIN rlManifest.checks :
            LET c == rlManifest.checks[i] IN
            \/ c.verdict = "SKIPPED"
            \/ c.verdict = "PASS" /\ RlEarned(c, rlManifest.archive, rlManifest.env)
=============================================================================

------------------------------ MODULE Frontier ------------------------------
(***************************************************************************)
(* The bundle phase of a release certification: the incremental continuity *)
(* frontier with its per-link proof cache (tools/grbsa/g6_proof_cache.py   *)
(* over tools/grbsa/proof_model_b.py), the release-cert bundle and its     *)
(* consumer (tools/grbsa/g6_bundle.py, g6_aggregate_validation_gate.py)    *)
(* and the orchestrator that drives them (run_bundle_phase in              *)
(* tools/release/certify_release.py).                                      *)
(*                                                                         *)
(* The archives directory maps file names to contents; between runs files  *)
(* appear, vanish and are replaced under their old names.  A link of the   *)
(* continuity declaration names its two archives by file name and by hash, *)
(* the hash of the newest candidate being null (FrNone).                   *)
(* Whether a link really holds is a fact about the two contents (FrHolds), *)
(* but an evaluation may still fail, because a child process timed out.    *)
(* The cache is replaced atomically at the end of a frontier run, so a     *)
(* death before that loses what the run proved and nothing else.           *)
(***************************************************************************)
EXTENDS Naturals, Sequences, FiniteSets, TLC

CONSTANTS
    FrContents,         \* contents of archives
    FrUgk,              \* content -> its ugk/ tree
    FrHolds,            \* the pairs of contents between which B1..B4 hold
    FrContaminated,     \* contents that carry genesis or key files
    FrSurfaces,         \* continuity declarations: sequences of links
    FrAttestations,     \* attestations, FrNone for an absent or unreadable one
    FrCorpora,          \* states of the archives directory
    FrCertified,        \* contents handed to the orchestrator as --archive
    FrFailures,         \* sets of sections of the bundle that may fail together
    FrNone,             \* nothing
    FrMaxRuns           \* bound: runs of the bundle phase

VARIABLES
    frCorpus,       \* the archives directory: file name -> content
    frCache,        \* the proof cache on disk: a set of entries
    frRun,          \* the run in progress, or FrNone
    frManifest,     \* the manifest, or FrNone
    frRuns,         \* runs started
    frProved        \* the pairs of contents some evaluation found to hold

frVars == <<frCorpus, frCache, frRun, frManifest, frRuns, frProved>>

FrSections == {"conformance", "gates", "receipts", "identity", "hygiene"}
FrItemVerdicts == {"HOLD", "FAIL", "UNFINISHED"}
FrAggregates == {"PASS", "FAIL", "UNFINISHED"}

ASSUME FrAssumption ==
    /\ FrMaxRuns \in Nat /\ FrFailures \subseteq SUBSET FrSections
    /\ \A corpus \in FrCorpora : \A file \in DOMAIN corpus : corpus[file] \in FrContents

FrTypeOK ==
    /\ frCorpus \in FrCorpora
    /\ \A e \in frCache : e.verdict \in {"HOLD", "FAIL"} /\ {e.base, e.cand} \subseteq FrContents
    /\ frRun # FrNone =>
        /\ frRun.pc \in {"links", "assemble", "verify"} /\ frRun.failed \subseteq FrSections
        /\ \A i \in DOMAIN frRun.items : frRun.items[i].verdict \in FrItemVerdicts
    /\ frManifest # FrNone => frManifest.aggregate \in FrAggregates
    /\ frRuns \in 0..FrMaxRuns
    /\ frProved \subseteq FrContents \X FrContents

FrInit ==
    /\ frCorpus \in FrCorpora
    /\ frCache = {} /\ frRun = FrNone /\ frManifest = FrNone /\ frRuns = 0 /\ frProved = {}

-----------------------------------------------------------------------------
(* The attestation and the archives.                                       *)

FrHead(att) == att.links[Len(att.links)]
FrLabels(att) == {att.links[i].label : i \in DOMAIN att.links}
FrUnattested(surf, att) == SelectSeq(surf, LAMBDA l : l.label \notin FrLabels(att))

\* _verify_attestation: every attested link HOLD, their hashes contiguous, and
\* every link not attested starting from the attested head.
FrAttestationOK(surf, att) ==
    /\ att.links # <<>>
    /\ \A i \in DOMAIN att.links : att.links[i].verdict = "HOLD"
    /\ \A i \in 1..(Len(att.links) - 1) : att.links[i].cand = att.links[i + 1].base
    /\ \A i \in DOMAIN surf : surf[i].label \notin FrLabels(att) => surf[i].base = FrHead(att).cand

\* _resolve_arch: by content first, by file name when no file has the content.
FrResolve(content, file) ==
    IF \E f \in DOMAIN frCorpus : frCorpus[f] = content THEN content
    ELSE IF file \in DOMAIN frCorpus THEN frCorpus[file] ELSE FrNone

-----------------------------------------------------------------------------
(* The proof cache.                                                        *)

\* Mutant of FrIdentity: the hashes the link declares, whatever file stands in for them.
FrIdentityDeclared(l) == [label |-> l.label, base |-> l.base, cand |-> l.cand, body |-> l]

\* The identity of a link: its label, the hashes of the archives that will be
\* evaluated (the declared ones for archives that are not there) and its body.
FrIdentity(l) ==
    LET base == FrResolve(l.base, l.baseFile)
        cand == FrResolve(l.cand, l.candFile)
    IN [label |-> l.label, base |-> IF base = FrNone THEN l.base ELSE base,
        cand |-> IF cand = FrNone THEN l.cand ELSE cand, body |-> l]

FrEntry(id, v) == [label |-> id.label, base |-> id.base, cand |-> id.cand, body |-> id.body, verdict |-> v]
FrHits(cache, id) == {e \in cache : e = FrEntry(id, e.verdict)}

-----------------------------------------------------------------------------
(* A run of the bundle phase.                                              *)

\* Conformance, leaf gates, migration receipts, registry identity and
\* hygiene/no-drift are executed first, each to a verdict of its own; then the
\* attestation is checked and the frontier determined.  A bad attestation is
\* a frontier verdict of FAIL without items.
FrStart(archive, surf, att, failed) ==
    /\ frRun = FrNone /\ frRuns < FrMaxRuns
    /\ LET good == att # FrNone /\ att.composed /\ FrAttestationOK(surf, att)
           todo == IF good THEN FrUnattested(surf, att) ELSE <<>>
       IN frRun' = [pc |-> IF todo = <<>> THEN "assemble" ELSE "links",
                    archive |-> archive, failed |-> failed, todo |-> todo, items |-> <<>>,
                    cache |-> frCache, bad |-> ~good,
                    head |-> IF att = FrNone \/ att.links = <<>> THEN FrNone ELSE FrHead(att).cand]
    /\ frRuns' = frRuns + 1
    /\ UNCHANGED <<frCorpus, frCache, frManifest, frProved>>

FrLink == frRun.todo[Len(frRun.items) + 1]
FrRecorded(item, cache, stop) ==
    frRun' = [frRun EXCEPT !.items = Append(@, item), !.cache = cache,
                           !.pc = IF stop \/ Len(frRun.items) + 1 = Len(frRun.todo) THEN "assemble" ELSE @]
FrItem(v, id) == [verdict |-> v, base |-> id.base, cand |-> id.cand]
FrNoIdentity == [base |-> FrNone, cand |-> FrNone]
FrOnLink == frRun # FrNone /\ frRun.pc = "links"

\* Mutant of FrExhausted: the verdict reserved for the full audit.
FrExhaustedAsAudit ==
    /\ FrOnLink
    /\ FrRecorded(FrItem("RESOURCE_TIMEOUT", FrNoIdentity), frRun.cache, TRUE)
    /\ UNCHANGED <<frCorpus, frCache, frManifest, frRuns, frProved>>

\* The budget is exhausted: the item has no identity, and the loop ends.
FrExhausted ==
    /\ FrOnLink
    /\ FrRecorded(FrItem("UNFINISHED", FrNoIdentity), frRun.cache, TRUE)
    /\ UNCHANGED <<frCorpus, frCache, frManifest, frRuns, frProved>>

\* A cached verdict of the same identity is taken over, HOLD or FAIL.
FrFromCache ==
    /\ FrOnLink
    /\ \E e \in FrHits(frRun.cache, FrIdentity(FrLink)) :
        FrRecorded(FrItem(e.verdict, FrIdentity(FrLink)), frRun.cache, FALSE)
    /\ UNCHANGED <<frCorpus, frCache, frManifest, frRuns, frProved>>

\* Nothing cached: an absent archive leaves the link UNFINISHED, a contaminated
\* one fails it, and neither is remembered.
FrNotEvaluated ==
    /\ FrOnLink
    /\ FrHits(frRun.cache, FrIdentity(FrLink)) = {}
    /\ LET base == FrResolve(FrLink.base, FrLink.baseFile)
           cand == FrResolve(FrLink.cand, FrLink.candFile)
       IN \/ /\ FrNone \in {base, cand}
             /\ FrRecorded(FrItem("UNFINISHED", FrIdentity(FrLink)), frRun.cache, FALSE)
          \/ /\ FrNone \notin {base, cand}
             /\ {base, cand} \cap FrContaminated # {}
             /\ FrRecorded(FrItem("FAIL", FrIdentity(FrLink)), frRun.cache, FALSE)
    /\ UNCHANGED <<frCorpus, frCache, frManifest, frRuns, frProved>>

\* evaluate_link: equal ugk/ trees suffice; otherwise the frame or an amendment
\* (B1), the leaf gates (B2), conformance (B3) and the declared surfaces (B4).
FrOutcomes(base, cand) ==
    IF FrUgk[base] = FrUgk[cand] THEN {"HOLD"}
    ELSE {"FAIL"} \cup (IF <<base, cand>> \in FrHolds THEN {"HOLD"} ELSE {})

FrEvaluate ==
    /\ FrOnLink
    /\ FrHits(frRun.cache, FrIdentity(FrLink)) = {}
    /\ LET base == FrResolve(FrLink.base, FrLink.baseFile)
           cand == FrResolve(FrLink.cand, FrLink.candFile)
       IN /\ FrNone \notin {base, cand}
          /\ {base, cand} \cap FrContaminated = {}
          /\ \E v \in FrOutcomes(base, cand) :
                /\ FrRecorded(FrItem(v, FrIdentity(FrLink)),
                              frRun.cache \cup {FrEntry(FrIdentity(FrLink), v)}, FALSE)
                /\ frProved' = IF v = "HOLD" THEN frProved \cup {<<base, cand>>} ELSE frProved
    /\ UNCHANGED <<frCorpus, frCache, frManifest, frRuns>>

-----------------------------------------------------------------------------
(* The bundle and its consumer.                                            *)

FrVerdicts(items) == {items[i].verdict : i \in DOMAIN items}
FrFrontierVerdict(r) ==
    IF r.bad \/ "FAIL" \in FrVerdicts(r.items) THEN "FAIL"
    ELSE IF "UNFINISHED" \in FrVerdicts(r.items) THEN "UNFINISHED" ELSE "HOLD"

\* The cache is saved; when the attestation was bad, or covered every link,
\* it was not even loaded.
FrAssemble ==
    /\ frRun # FrNone /\ frRun.pc = "assemble"
    /\ frCache' = IF frRun.todo = <<>> THEN frCache ELSE frRun.cache
    /\ frRun' = [frRun EXCEPT !.pc = "verify"]
    /\ UNCHANGED <<frCorpus, frManifest, frRuns, frProved>>

\* The frontier ends at the certified archive, the attested head when there is
\* no frontier.
FrTerminal(r) ==
    IF r.items # <<>> THEN r.items[Len(r.items)].cand = r.archive ELSE r.head = r.archive

FrClean(r) == r.failed = {}

\* verify_bundle: FAIL before UNFINISHED before PASS.
FrVerifyBundle(r) ==
    IF ~FrClean(r) \/ ~FrTerminal(r) \/ FrFrontierVerdict(r) = "FAIL" THEN "FAIL"
    ELSE IF FrFrontierVerdict(r) = "UNFINISHED" THEN "UNFINISHED" ELSE "PASS"

\* The consumer's printed verdict, FAIL when it died before printing one,
\* becomes the aggregate, whatever its exit code.
FrConclude ==
    /\ frRun # FrNone /\ frRun.pc = "verify"
    /\ \E v \in {FrVerifyBundle(frRun), "FAIL"} :
        frManifest' = [archive |-> frRun.archive, aggregate |-> v, failed |-> frRun.failed,
                       head |-> frRun.head, items |-> frRun.items]
    /\ frRun' = FrNone
    /\ UNCHANGED <<frCorpus, frCache, frRuns, frProved>>

\* The orchestrator dies.
FrCrash ==
    /\ frRun # FrNone
    /\ frRun' = FrNone
    /\ UNCHANGED <<frCorpus, frCache, frManifest, frRuns, frProved>>

\* Between runs the archives directory changes, or the cache file is lost or
\* garbled, which load_cache reads as empty.
FrDisturb ==
    /\ frRun = FrNone /\ frRuns < FrMaxRuns
    /\ frCorpus' \in FrCorpora
    /\ frCache' \in {frCache, {}}
    /\ UNCHANGED <<frRun, frManifest, frRuns, frProved>>

FrNext ==
    \/ \E archive \in FrCertified, surf \in FrSurfaces, att \in FrAttestations, failed \in FrFailures :
        FrStart(archive, surf, att, failed)
    \/ FrExhausted \/ FrFromCache \/ FrNotEvaluated \/ FrEvaluate
    \/ FrAssemble \/ FrConclude \/ FrCrash \/ FrDisturb

FrSpec == FrInit /\ [][FrNext]_frVars

-----------------------------------------------------------------------------
\* A PASS rests on evaluations, not on names: when the aggregate is PASS every
\* section passed, and every link of the frontier goes back, through the cache
\* and whatever was replaced, removed or lost since, to an evaluation that
\* found exactly these two contents to hold, the last of them the certified
\* archive (cache_get's identity, verify_frontier and verify_bundle).
FrPassEarned ==
    frManifest # FrNone /\ frManifest.aggregate = "PASS" =>
        /\ frManifest.failed = {}
        /\ \A i \in DOMAIN frManifest.items :
            <<frManifest.items[i].base, frManifest.items[i].cand>> \in frProved
        /\ \/ frManifest.items = <<>> /\ frManifest.head = frManifest.archive
           \/ \E pair \in frProved : pair[2] = frManifest.archive
=============================================================================

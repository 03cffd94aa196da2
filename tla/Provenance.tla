----------------------------- MODULE Provenance -----------------------------
(***************************************************************************)
(* The registries that receipts commit to, and the procedures that read    *)
(* them back: the authority graph and its capabilities, the policy and     *)
(* authority-key caches, the decision procedures D_s .. D_j and the        *)
(* witnesses (ugk/authority/*, governance/policy.py, freshness.py,         *)
(* lineage.py, decision.py, witness.py, the head of store.write()).        *)
(*                                                                         *)
(* The registries are process-wide dictionaries without a lock.  Who reads *)
(* one tests for the name, fills in a default if it is not there, and      *)
(* reads.  store.write() does so four times, for the policy, for the key   *)
(* and twice for the path (the capabilities and the chain), and only then  *)
(* hashes and inserts its row: registrations and the fills of other        *)
(* readers may come between any two of these steps.  The store's lock      *)
(* keeps only a second write out.  A walk up the graph is one step here.   *)
(***************************************************************************)
EXTENDS Naturals, Sequences, FiniteSets

CONSTANTS
    PvAuthorities,  \* authority names other than the Governor's
    PvCaps,         \* CAPABILITY_VOCABULARY
    PvRegistrable,  \* the edges an administrator may register
    PvMaxTime,      \* bound: current_time; also the default valid_until
    PvMaxWrites,    \* bound: receipts written
    PvMaxChanges    \* bound: changes to the registries from outside the write

(* good: issuer_key_id is the Governor's and the signature verifies. *)
PvEdge ==
    [issuer : PvAuthorities \cup {"Governor"}, caps : SUBSET PvCaps,
     until : 0..PvMaxTime, good : BOOLEAN]

ASSUME PvAssumption ==
    /\ PvAuthorities # {} /\ IsFiniteSet(PvAuthorities) /\ "Governor" \notin PvAuthorities
    /\ PvMaxTime \in Nat /\ PvMaxWrites \in Nat /\ PvMaxChanges \in Nat
    /\ PvRegistrable \subseteq PvEdge

VARIABLES
    pvEdges,    \* the default graph: for each subject its incoming edge, if any
    pvPolicy,   \* _POLICY_CACHE for the jurisdiction in use
    pvKeys,     \* _AUTHORITY_KEY_CACHE
    pvTime,     \* the clock a verifier passes as current_time
    pvWork,     \* where the write under way is, and the receipt it is making
    pvQuiet,    \* history: no entry changed under the write under way
    pvChanges,  \* how many changes came from outside the write
    pvReceipts  \* what the receipts written so far committed to

pvVars == <<pvEdges, pvPolicy, pvKeys, pvTime, pvWork, pvQuiet, pvChanges, pvReceipts>>

PvName == PvAuthorities \cup {"Governor"}

PvGraph == UNION {[D -> PvEdge] : D \in SUBSET PvAuthorities}

(* The edge _ensure_default_edge_for() signs: the full vocabulary, from the root. *)
PvDefaultEdge ==
    [issuer |-> "Governor", caps |-> PvCaps, until |-> PvMaxTime, good |-> TRUE]

PvNoEdges == [s \in {} |-> PvDefaultEdge]

PvPolicies == {"absent", "default", "signed", "foreign"}
PvKeyIds == {"absent", "derived", "registered"}

(* A receipt: the chain as the subjects of the path and their edges, the      *)
(* capabilities, policy id and key id, and whether its lineage is empty.      *)
PvCommit ==
    [authority : PvName, chain : Seq(PvName), edges : PvGraph, caps : SUBSET PvCaps,
     policy : PvPolicies, key : PvKeyIds, root : BOOLEAN]

PvLookups == {"policy", "key", "objs", "chain"}

PvPlace ==
    [at : {"idle", "test", "fill", "read", "row"}, of : PvLookups, escalates : BOOLEAN,
     receipt : PvCommit]

PvBlank(a) ==
    [authority |-> a, chain |-> <<>>, edges |-> PvNoEdges, caps |-> {}, policy |-> "absent",
     key |-> "absent", root |-> FALSE]

PvIdle == [at |-> "idle", of |-> "policy", escalates |-> FALSE, receipt |-> PvBlank("Governor")]

PvTypeOK ==
    /\ pvEdges \in PvGraph
    /\ pvPolicy \in PvPolicies
    /\ pvKeys \in [PvAuthorities -> PvKeyIds]
    /\ pvTime \in 0..PvMaxTime
    /\ pvWork \in PvPlace /\ (pvWork.at # "idle" => pvWork.receipt.authority \in PvAuthorities)
    /\ pvQuiet \in BOOLEAN /\ pvChanges \in 0..PvMaxChanges
    /\ pvReceipts \in Seq(PvCommit)

----------------------------------------------------------------------------
(* AuthorityGraph.canonical_path(): the subjects from the root to the        *)
(* target.  The walk up stops at the root, at a subject without an edge or   *)
(* at one already seen; in the last two cases the code raises.               *)
PvWalk(edges, target) ==
    LET up[k \in 0..Cardinality(PvAuthorities) + 1] ==
            IF k = 0 THEN <<target>>
            ELSE LET w == up[k - 1]
                     c == w[1]
                 IN  IF c \notin DOMAIN edges \/ \E i \in 2..Len(w) : w[i] = c THEN w
                     ELSE <<edges[c].issuer>> \o w
    IN  up[Cardinality(PvAuthorities) + 1]

PvHasPath(edges, target) == PvWalk(edges, target)[1] = "Governor"

PvPath(edges, target) == Tail(PvWalk(edges, target))

(* The capabilities above the i-th edge of a path. *)
PvAbove(edges, path, i) == IF i = 1 THEN PvCaps ELSE edges[path[i - 1]].caps

(* Mutant of PvEscalates: each edge is compared with the vocabulary. *)
PvEscalatesNever(edges, path) == \E i \in DOMAIN path : ~(edges[path[i]].caps \subseteq PvCaps)

(* compute_effective_capabilities(): an edge that grants more than the edge  *)
(* before it is an error, else the last edge's set is held.                  *)
PvEscalates(edges, path) ==
    \E i \in DOMAIN path : ~(edges[path[i]].caps \subseteq PvAbove(edges, path, i))

PvEffective(edges, target) ==
    IF target = "Governor" THEN PvCaps ELSE edges[target].caps

PvWith(edges, subject, edge) ==
    [s \in DOMAIN edges \cup {subject} |-> IF s = subject THEN edge ELSE edges[s]]

----------------------------------------------------------------------------
(* The administration: register_edge(), clear_graph(), register_policy(),    *)
(* clear_policy_cache(), register_authority_key() and its clearing.          *)
PvRegisterEdge(s, e) ==
    /\ pvEdges' = PvWith(pvEdges, s, e)
    /\ UNCHANGED <<pvPolicy, pvKeys, pvTime, pvWork, pvReceipts>>

PvClearGraph ==
    /\ pvEdges' = PvNoEdges
    /\ UNCHANGED <<pvPolicy, pvKeys, pvTime, pvWork, pvReceipts>>

PvRegisterPolicy(p) ==
    /\ pvPolicy' = p
    /\ UNCHANGED <<pvEdges, pvKeys, pvTime, pvWork, pvReceipts>>

PvRegisterKey(s) ==
    /\ pvKeys' = [pvKeys EXCEPT ![s] = "registered"]
    /\ UNCHANGED <<pvEdges, pvPolicy, pvTime, pvWork, pvReceipts>>

PvClearKeys ==
    /\ pvKeys' = [a \in PvAuthorities |-> "absent"]
    /\ UNCHANGED <<pvEdges, pvPolicy, pvTime, pvWork, pvReceipts>>

PvTick ==
    /\ pvTime < PvMaxTime /\ pvTime' = pvTime + 1
    /\ UNCHANGED <<pvEdges, pvPolicy, pvKeys, pvWork, pvReceipts>>

----------------------------------------------------------------------------
(* The three parts of a lookup: the test for the name, the default put in    *)
(* its place (over what was registered since the test), and the read.        *)
PvPresent(of, a) ==
    CASE of = "policy" -> pvPolicy # "absent"
      [] of = "key"    -> pvKeys[a] # "absent"
      [] OTHER         -> a \in DOMAIN pvEdges

PvFillIn(of, a) ==
    /\ pvPolicy' = IF of = "policy" THEN "default" ELSE pvPolicy
    /\ pvKeys' = IF of = "key" THEN [pvKeys EXCEPT ![a] = "derived"] ELSE pvKeys
    /\ pvEdges' = IF of \in {"objs", "chain"} THEN PvWith(pvEdges, a, PvDefaultEdge) ELSE pvEdges

(* Someone else's lookup, a verifier's or another store's: it found nothing,  *)
(* however long ago (at first nothing is there), and fills in its default.    *)
PvOtherFills(of, a) ==
    /\ PvFillIn(of, a)
    /\ UNCHANGED <<pvTime, pvWork, pvReceipts>>

----------------------------------------------------------------------------
(* store.write(), up to its row, under the store's lock.                      *)
PvBegin(a) ==
    /\ pvWork = PvIdle /\ Len(pvReceipts) < PvMaxWrites
    /\ pvWork' = [PvIdle EXCEPT !.at = "test", !.receipt = PvBlank(a)]
    /\ UNCHANGED <<pvEdges, pvPolicy, pvKeys, pvTime, pvReceipts>>

PvTest ==
    /\ pvWork.at = "test"
    /\ pvWork' = [pvWork EXCEPT !.at =
            IF PvPresent(pvWork.of, pvWork.receipt.authority) THEN "read" ELSE "fill"]
    /\ UNCHANGED <<pvEdges, pvPolicy, pvKeys, pvTime, pvReceipts>>

PvFill ==
    /\ pvWork.at = "fill"
    /\ PvFillIn(pvWork.of, pvWork.receipt.authority)
    /\ pvWork' = [pvWork EXCEPT !.at = "read"]
    /\ UNCHANGED <<pvTime, pvReceipts>>

PvReads(of) == pvWork.at = "read" /\ pvWork.of = of

PvReadPolicy ==
    /\ PvReads("policy") /\ pvPolicy # "absent"
    /\ pvWork' = [pvWork EXCEPT !.at = "test", !.of = "key", !.receipt.policy = pvPolicy]
    /\ UNCHANGED <<pvEdges, pvPolicy, pvKeys, pvTime, pvReceipts>>

PvReadKey ==
    LET key == pvKeys[pvWork.receipt.authority]
    IN  /\ PvReads("key") /\ key # "absent"
        /\ pvWork' = [pvWork EXCEPT !.at = "test", !.of = "objs", !.receipt.key = key]
        /\ UNCHANGED <<pvEdges, pvPolicy, pvKeys, pvTime, pvReceipts>>

(* Mutant of PvReadObjs: the vocabulary in place of what the path leaves of it. *)
PvReadObjsAll ==
    LET a == pvWork.receipt.authority
    IN  /\ PvReads("objs") /\ PvHasPath(pvEdges, a)
        /\ pvWork' = [pvWork EXCEPT
               !.at = "test", !.of = "chain", !.receipt.caps = PvCaps,
               !.escalates = PvEscalates(pvEdges, PvPath(pvEdges, a))]
        /\ UNCHANGED <<pvEdges, pvPolicy, pvKeys, pvTime, pvReceipts>>

(* canonical_path_for(): the edges that the capabilities are computed from. *)
PvReadObjs ==
    LET a == pvWork.receipt.authority
    IN  /\ PvReads("objs") /\ PvHasPath(pvEdges, a)
        /\ pvWork' = [pvWork EXCEPT
               !.at = "test", !.of = "chain", !.receipt.caps = PvEffective(pvEdges, a),
               !.escalates = PvEscalates(pvEdges, PvPath(pvEdges, a))]
        /\ UNCHANGED <<pvEdges, pvPolicy, pvKeys, pvTime, pvReceipts>>

PvEdgesOf(edges, path) == [s \in {path[i] : i \in DOMAIN path} |-> edges[s]]

(* canonical_path_as_dicts(): the chain that is hashed. *)
PvReadChain ==
    LET path == PvPath(pvEdges, pvWork.receipt.authority)
    IN  /\ PvReads("chain") /\ PvHasPath(pvEdges, pvWork.receipt.authority)
        /\ pvWork' = [pvWork EXCEPT !.at = "row", !.receipt.chain = path,
                                    !.receipt.edges = PvEdgesOf(pvEdges, path)]
        /\ UNCHANGED <<pvEdges, pvPolicy, pvKeys, pvTime, pvReceipts>>

(* The entry has gone since the test, or the path has a gap or a cycle. *)
PvReadFails ==
    LET a == pvWork.receipt.authority
    IN  /\ pvWork.at = "read"
        /\ CASE pvWork.of = "policy" -> pvPolicy = "absent"
             [] pvWork.of = "key"    -> pvKeys[a] = "absent"
             [] OTHER                -> ~PvHasPath(pvEdges, a)
        /\ pvWork' = PvIdle
        /\ UNCHANGED <<pvEdges, pvPolicy, pvKeys, pvTime, pvReceipts>>

(* The hashes and the row; or capability escalation, found only here.  The    *)
(* lineage is empty exactly when no receipt precedes.                         *)
PvWrite ==
    /\ pvWork.at = "row"
    /\ pvReceipts' = IF pvWork.escalates THEN pvReceipts
                     ELSE Append(pvReceipts, [pvWork.receipt EXCEPT !.root = pvReceipts = <<>>])
    /\ pvWork' = PvIdle
    /\ UNCHANGED <<pvEdges, pvPolicy, pvKeys, pvTime>>

----------------------------------------------------------------------------
(* The decision procedures, on the registries as they are now.               *)

(* Mutant of PvUnexpired: the comparison is the wrong way round. *)
PvUnexpiredFlipped(edge, now) == now >= edge.until

(* verify_authority_edge(): refused when current_time > valid_until. *)
PvUnexpired(edge, now) == now <= edge.until

(* verify_canonical_path() and the capability check of D_c: the Governor     *)
(* itself has an empty path, which is refused.                               *)
PvPathVerifies(edges, a, now) ==
    /\ a # "Governor" /\ PvHasPath(edges, a)
    /\ LET path == PvPath(edges, a)
       IN  /\ \A i \in DOMAIN path : edges[path[i]].good /\ PvUnexpired(edges[path[i]], now)
           /\ ~PvEscalates(edges, path)

(* The graph once a reader's default is in it. *)
PvFilled(edges, a) ==
    IF a \in DOMAIN edges \/ a = "Governor" THEN edges ELSE PvWith(edges, a, PvDefaultEdge)

(* D_c: the path, the policy's signature and the default epoch's window,     *)
(* which is open from 0 to the end of time.  D_s, D_m and, unless strict,    *)
(* D_j depend on the receipt alone.                                          *)
PvDc(a, now) ==
    PvPathVerifies(PvFilled(pvEdges, a), a, now) /\ pvPolicy # "foreign"

(* construct_witness(): the leaves are rebuilt from the registries, defaults  *)
(* filled in, and with an empty lineage; verify_witness() then accepts iff    *)
(* they are the ones that were hashed.                                        *)
PvWitnessVerifies(r) ==
    LET edges == PvFilled(pvEdges, r.authority)
        path == PvPath(edges, r.authority)
    IN  /\ r.root /\ PvHasPath(edges, r.authority) /\ ~PvEscalates(edges, path)
        /\ r.chain = path /\ r.edges = PvEdgesOf(edges, path)
        /\ r.caps = PvEffective(edges, r.authority)
        /\ r.policy = IF pvPolicy = "absent" THEN "default" ELSE pvPolicy
        /\ r.key = IF pvKeys[r.authority] = "absent" THEN "derived" ELSE pvKeys[r.authority]

PvInit ==
    /\ pvEdges = PvNoEdges /\ pvPolicy = "absent"
    /\ pvKeys = [a \in PvAuthorities |-> "absent"] /\ pvTime = 0
    /\ pvWork = PvIdle /\ pvQuiet = TRUE /\ pvChanges = 0 /\ pvReceipts = <<>>

(* Steps outside the write: administration and others' lookups. *)
PvOutside ==
    \/ \E s \in PvAuthorities, e \in PvRegistrable : PvRegisterEdge(s, e)
    \/ PvClearGraph \/ PvClearKeys
    \/ \E p \in {"signed", "foreign", "absent"} : PvRegisterPolicy(p)
    \/ \E s \in PvAuthorities : PvRegisterKey(s)
    \/ \E of \in {"policy", "key", "objs"}, a \in PvAuthorities : PvOtherFills(of, a)

PvWriteStep ==
    \/ \E a \in PvAuthorities : PvBegin(a)
    \/ PvTest \/ PvFill \/ PvReadFails
    \/ PvReadPolicy \/ PvReadKey \/ PvReadObjs \/ PvReadChain
    \/ PvWrite

(* No entry that is there changes or goes: at most new ones come. *)
PvKept ==
    /\ \A s \in DOMAIN pvEdges : s \in DOMAIN pvEdges' /\ pvEdges'[s] = pvEdges[s]
    /\ pvPolicy # "absent" => pvPolicy' = pvPolicy
    /\ \A a \in PvAuthorities : pvKeys[a] # "absent" => pvKeys'[a] = pvKeys[a]

PvNext ==
    /\ \/ PvOutside /\ pvChanges < PvMaxChanges /\ pvChanges' = pvChanges + 1
       \/ (PvTick \/ PvWriteStep) /\ pvChanges' = pvChanges
    /\ pvQuiet' = (pvWork.at = "idle" \/ (pvQuiet /\ PvKept))

PvSpec == PvInit /\ [][PvNext]_pvVars

----------------------------------------------------------------------------
(* Whatever edges were registered, replaced or cleared, in whatever order:   *)
(* an authority whose path verifies holds no capability that its issuer does *)
(* not hold, and its issuer's own path verifies (no cycle, no gap).          *)
PvAttenuated ==
    \A a \in DOMAIN pvEdges : PvPathVerifies(pvEdges, a, pvTime) =>
        LET up == pvEdges[a].issuer
        IN  /\ PvEffective(pvEdges, a) \subseteq PvEffective(pvEdges, up)
            /\ up # "Governor" => PvPathVerifies(pvEdges, up, pvTime)

PvNewestOpens ==
    LET r == pvReceipts[Len(pvReceipts)] IN r.root => PvWitnessVerifies(r)

(* construct_witness() rebuilds what store.write() hashed: the witness of a   *)
(* first receipt verifies as soon as the receipt is written, unless an entry  *)
(* was replaced or removed while the write was under way.  New registrations  *)
(* and the defaults that other readers fill in meanwhile do no harm.          *)
PvWitnessOfRoot == [][pvReceipts' # pvReceipts /\ pvQuiet => PvNewestOpens']_pvVars

(* A verdict of D_c only gets worse with time: what was refused is accepted  *)
(* later only after a change to the graph or the policy.  (A write for an    *)
(* unknown authority is such a change: its default edge may complete the     *)
(* path of another.)                                                         *)
PvVerdictMonotone ==
    [][pvVars' # pvVars /\ pvEdges' = pvEdges /\ (pvPolicy' = "foreign") = (pvPolicy = "foreign")
        => \A a \in PvAuthorities : PvDc(a, pvTime)' => PvDc(a, pvTime)]_pvVars
=============================================================================

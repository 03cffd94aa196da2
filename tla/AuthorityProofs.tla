-------------------------- MODULE AuthorityProofs ---------------------------
(***************************************************************************)
(* Theorems about who may act: the validators' quorum (module Csh), the    *)
(* holders of names (Namespace), the amendment ledger and its keys         *)
(* (Amendments) and the registries of authorities (Provenance).            *)
(*                                                                         *)
(* The holdings of a name and the path of an authority are                 *)
(* folds, defined by recursive functions; what they compute is proved by   *)
(* induction over the naturals in its set form, from the well-foundedness  *)
(* of < (NatSetInduction).                                                 *)
(***************************************************************************)
EXTENDS Csh, Amendments, Namespace, Provenance, FiniteSetTheorems, SequenceTheorems,
        WellFoundedInduction, TLAPS

-----------------------------------------------------------------------------
(* The quorum: CshAgreement for every validator set, every set of hashes   *)
(* and epochs and every bound, because two quorums share a validator that  *)
(* does not equivocate, and it signed one hash in the epoch.               *)

(* The roots behind an MCIR. *)
CshVoters(m) == {a.root : a \in m.valid}

(* What an MCIR carries: verified attestations that were sent, of one hash,  *)
(* by a quorum of distinct validators.                                       *)
CshMcirEvidence ==
    \A m \in cshMcirs :
        /\ m.valid \subseteq {a \in cshSent : a.verifies /\ a.hash = m.hash}
        /\ CshVoters(m) \subseteq CshValidators
        /\ Cardinality(CshVoters(m)) >= CshThreshold(Cardinality(CshValidators))

(* A validator that does not equivocate has signed one hash per epoch: what  *)
(* else names it was signed by another key or does not verify.               *)
CshOneHash ==
    \A a, b \in cshSent :
        /\ a.root \in CshValidators \ CshFaulty
        /\ a.root = b.root /\ a.epoch = b.epoch
        /\ CshGenuine(a) /\ CshGenuine(b)
        => a.hash = b.hash

CshInductive == CshTypeOK /\ CshMcirEvidence /\ CshOneHash

(* _quorum_threshold() is more than two thirds, for every size. *)
LEMMA CshThresholdBound ==
    ASSUME NEW n \in Nat
    PROVE  CshThreshold(n) \in Nat /\ 3 * CshThreshold(n) > 2 * n
  BY SMT DEF CshThreshold

(* Two sets of validators of quorum size share one that is not faulty. *)
LEMMA CshQuorumsMeet ==
    ASSUME NEW A \in SUBSET CshValidators, NEW B \in SUBSET CshValidators,
           Cardinality(A) >= CshThreshold(Cardinality(CshValidators)),
           Cardinality(B) >= CshThreshold(Cardinality(CshValidators))
    PROVE  \E v \in A \cap B : v \notin CshFaulty
  <1> DEFINE n == Cardinality(CshValidators)
  <1>1. /\ IsFiniteSet(CshValidators) /\ n \in Nat
        /\ CshFaulty \in SUBSET CshValidators /\ 3 * Cardinality(CshFaulty) < n
    BY CshAssumption, FS_CardinalityType
  <1>2. /\ IsFiniteSet(A) /\ IsFiniteSet(B) /\ IsFiniteSet(A \cup B)
        /\ IsFiniteSet(A \cap B) /\ IsFiniteSet(CshFaulty)
        /\ Cardinality(A \cup B) <= n
    <2>1. A \cup B \in SUBSET CshValidators /\ A \cap B \in SUBSET CshValidators
      OBVIOUS
    <2> QED BY <1>1, <2>1, FS_Subset
  <1>3. /\ Cardinality(A) \in Nat /\ Cardinality(B) \in Nat /\ Cardinality(CshFaulty) \in Nat
        /\ Cardinality(A \cup B) \in Nat /\ Cardinality(A \cap B) \in Nat
    BY <1>2, FS_CardinalityType
  <1>4. Cardinality(A \cup B) = Cardinality(A) + Cardinality(B) - Cardinality(A \cap B)
    BY <1>2, FS_Union
  <1>5. CshThreshold(n) \in Nat /\ 3 * CshThreshold(n) > 2 * n
    BY <1>1, CshThresholdBound
  <1>6. Cardinality(A \cap B) > Cardinality(CshFaulty)
    <2> HIDE DEF n
    <2> QED BY <1>1, <1>2, <1>3, <1>4, <1>5, SMT DEF n
  <1>7. ~(A \cap B \subseteq CshFaulty)
    <2> SUFFICES ASSUME A \cap B \in SUBSET CshFaulty PROVE FALSE
      OBVIOUS
    <2>1. Cardinality(A \cap B) <= Cardinality(CshFaulty)
      BY <1>2, FS_Subset
    <2> QED BY <2>1, <1>3, <1>6
  <1> QED BY <1>7

(* An attestation per root: as many roots as attestations. *)
LEMMA CshCountRoots ==
    ASSUME NEW V, IsFiniteSet({a.root : a \in V}),
           \A a, b \in V : a.root = b.root => a = b
    PROVE  Cardinality(V) <= Cardinality({a.root : a \in V})
  <1> DEFINE R == {a.root : a \in V}
             f == [a \in V |-> a.root]
  <1>1. f \in Injection(V, R)
    BY DEF Injection, IsInjective
  <1> QED BY <1>1, FS_Injection

(* The initial state has neither attestations nor MCIRs. *)
LEMMA CshInductiveInit == CshInit => CshInductive
  BY DEF CshInit, CshInductive, CshTypeOK, CshMcirEvidence, CshOneHash

(* Every step keeps the evidence and the single hash per epoch. *)
LEMMA CshInductiveNext == CshInductive /\ [CshNext]_cshVars => CshInductive'
  <1> SUFFICES ASSUME CshInductive, [CshNext]_cshVars PROVE CshInductive'
    OBVIOUS
  <1> USE DEF CshInductive
  <1>1. ASSUME NEW a, a \in CshAttestation, cshSent' = cshSent \cup {a}, UNCHANGED cshMcirs
        PROVE  CshTypeOK' /\ CshMcirEvidence'
    <2>1. CshTypeOK'
      BY <1>1 DEF CshTypeOK
    <2>2. CshMcirEvidence'
      BY <1>1 DEF CshMcirEvidence, CshVoters
    <2> QED BY <2>1, <2>2
  <1>2. ASSUME NEW v \in CshValidators, NEW h \in CshHashes, NEW e \in CshEpochs,
               CshAttest(v, h, e)
        PROVE  CshInductive'
    <2> DEFINE new == [key |-> v, root |-> v, hash |-> h, epoch |-> e, verifies |-> TRUE]
    <2>1. new \in CshAttestation /\ cshSent' = cshSent \cup {new} /\ UNCHANGED cshMcirs
      BY <1>2 DEF CshAttest, CshSign, CshAttestation, CshParties
    <2>2. CshOneHash'
      BY <1>2, <2>1 DEF CshAttest, CshGenuine, CshOneHash
    <2> QED BY <1>1, <2>1, <2>2
  <1>3. ASSUME NEW k \in CshParties, NEW r \in CshParties, NEW h \in CshHashes,
               NEW e \in CshEpochs, CshAttestAny(k, r, h, e)
        PROVE  CshInductive'
    <2> DEFINE new == [key |-> k, root |-> r, hash |-> h, epoch |-> e, verifies |-> TRUE]
    <2>1. k \notin CshValidators \ CshFaulty
      BY <1>3, CshAssumption DEF CshAttestAny
    <2>2. new \in CshAttestation /\ cshSent' = cshSent \cup {new} /\ UNCHANGED cshMcirs
      BY <1>3 DEF CshAttestAny, CshSign, CshAttestation
    <2>3. CshOneHash'
      BY <2>1, <2>2 DEF CshGenuine, CshOneHash
    <2> QED BY <1>1, <2>2, <2>3
  <1>4. ASSUME NEW a \in cshSent, NEW h \in CshHashes, CshDamage(a, h)
        PROVE  CshInductive'
    <2> DEFINE new == [a EXCEPT !.hash = h, !.verifies = FALSE]
    <2>1. a \in CshAttestation
      BY DEF CshTypeOK
    <2>2. new \in CshAttestation /\ ~new.verifies
      BY <2>1 DEF CshAttestation
    <2>3. cshSent' = cshSent \cup {new} /\ UNCHANGED cshMcirs
      BY <1>4 DEF CshDamage
    <2>4. CshOneHash'
      BY <2>2, <2>3 DEF CshOneHash, CshGenuine
    <2> HIDE DEF new
    <2> QED BY <1>1, <2>2, <2>3, <2>4
  <1>5. ASSUME NEW atts \in SUBSET cshSent, NEW h \in CshHashes, CshAchieveFinality(atts, h)
        PROVE  CshInductive'
    <2>1. PICK valid \in CshValid(atts, h) :
            /\ Cardinality(valid) >= CshThreshold(CshSealed.n)
            /\ cshMcirs' = cshMcirs \cup {[hash |-> h, valid |-> valid]}
      BY <1>5 DEF CshAchieveFinality
    <2> DEFINE new == [hash |-> h, valid |-> valid]
               roots == {a.root : a \in valid}
    <2>2. UNCHANGED cshSent
      BY <1>5 DEF CshAchieveFinality
    <2>3. /\ valid \subseteq {a \in cshSent : a.verifies /\ a.hash = h}
          /\ \A a \in valid : a.root \in CshValidators
          /\ \A a, b \in valid : a.root = b.root => a = b
      BY <2>1 DEF CshValid, CshCounted, CshSealed
    <2>4. roots \in SUBSET CshValidators
      BY <2>3
    <2>5. IsFiniteSet(roots) /\ Cardinality(roots) \in Nat
      BY <2>4, CshAssumption, FS_Subset, FS_CardinalityType
    <2>6. Cardinality(valid) <= Cardinality(roots)
      BY <2>3, <2>5, CshCountRoots
    <2>7. Cardinality(roots) >= CshThreshold(Cardinality(CshValidators))
      <3>1. Cardinality(valid) \in Nat
        <4>1. [a \in valid |-> a.root] \in Injection(valid, roots)
          BY <2>3 DEF Injection, IsInjective
        <4> QED BY <4>1, <2>5, FS_Injection, FS_CardinalityType
      <3>2. CshThreshold(Cardinality(CshValidators)) \in Nat
        BY CshAssumption, FS_CardinalityType, CshThresholdBound
      <3> HIDE DEF roots
      <3> QED BY <2>1, <2>5, <2>6, <3>1, <3>2 DEF CshSealed
    <2>8. CshMcirEvidence'
      <3> SUFFICES ASSUME NEW m \in cshMcirs' PROVE
              /\ m.valid \subseteq {a \in cshSent : a.verifies /\ a.hash = m.hash}
              /\ CshVoters(m) \subseteq CshValidators
              /\ Cardinality(CshVoters(m)) >= CshThreshold(Cardinality(CshValidators))
        BY <2>2 DEF CshMcirEvidence
      <3>1. CASE m \in cshMcirs
        BY <3>1 DEF CshMcirEvidence
      <3>2. CASE m = new
        BY <3>2, <2>3, <2>4, <2>7 DEF CshVoters
      <3> QED BY <3>1, <3>2, <2>1
    <2>9. CshTypeOK' /\ CshOneHash'
      <3>1. new \in CshMcir
        BY <2>3 DEF CshMcir, CshTypeOK
      <3> QED BY <2>1, <2>2, <3>1 DEF CshTypeOK, CshOneHash
    <2> QED BY <2>8, <2>9
  <1>6. CASE UNCHANGED cshVars
    BY <1>6 DEF cshVars, CshTypeOK, CshMcirEvidence, CshOneHash, CshVoters
  <1> QED BY <1>2, <1>3, <1>4, <1>5, <1>6 DEF CshNext

(* The evidence implies agreement. *)
LEMMA CshEvidenceAgrees == CshInductive => CshAgreement
  <1> SUFFICES ASSUME CshInductive, NEW m1 \in cshMcirs, NEW m2 \in cshMcirs,
                      NEW e \in CshEpochs, CshBound(m1), CshBound(m2),
                      CshOfEpoch(m1, e), CshOfEpoch(m2, e)
               PROVE  m1.hash = m2.hash
    BY DEF CshAgreement
  <1>1. PICK v \in CshVoters(m1) \cap CshVoters(m2) : v \notin CshFaulty
    BY CshQuorumsMeet DEF CshInductive, CshMcirEvidence
  <1>2. PICK a \in m1.valid : a.root = v
    BY <1>1 DEF CshVoters
  <1>3. PICK b \in m2.valid : b.root = v
    BY <1>1 DEF CshVoters
  <1>4. v \in CshValidators
    BY <1>1 DEF CshInductive, CshMcirEvidence
  <1> QED BY <1>1, <1>2, <1>3, <1>4 DEF CshInductive, CshMcirEvidence, CshOneHash, CshOfEpoch, CshBound

(* Finality artifacts of one epoch, whose counted attestations were signed   *)
(* by the validators they are counted for, agree on the law hash, for every  *)
(* validator set of which fewer than a third equivocate (achieve_finality).  *)
THEOREM CshAgreementHolds == CshSpec => []CshAgreement
  <1>1. CshSpec => []CshInductive
    BY CshInductiveInit, CshInductiveNext, PTL DEF CshSpec
  <1> QED BY <1>1, CshEvidenceAgrees, PTL
-----------------------------------------------------------------------------
(* Induction over the naturals, and functions defined by recursion.        *)

(* A set that has 0, and n + 1 with every n, has every natural. *)
LEMMA NatSetInduction ==
    ASSUME NEW T, 0 \in T, \A n \in Nat : n \in T => n + 1 \in T
    PROVE  \A n \in Nat : n \in T
  <1>1. SUFFICES ASSUME NEW m \in Nat, m \notin T PROVE FALSE OBVIOUS
  <1>2. PICK M : M = {n \in Nat : n \notin T} OBVIOUS
  <1>3. M \subseteq Nat /\ m \in M BY <1>1, <1>2
  <1>4. PICK R : R = OpToRel(<, Nat) OBVIOUS
  <1>5. IsWellFoundedOn(R, Nat) BY <1>4, NatLessThanWellFounded
  <1>6. PICK x \in M : \A y \in M : ~(<<y, x>> \in R) BY <1>3, <1>5, WFMin
  <1>7. \A a, b \in Nat : a < b => <<a, b>> \in R BY <1>4 DEF OpToRel
  <1>8. x \in Nat /\ x # 0 /\ x \notin T BY <1>2, <1>6
  <1>9. x - 1 \in Nat /\ x - 1 < x /\ (x - 1) + 1 = x BY <1>8
  <1>10. x - 1 \notin M BY <1>6, <1>7, <1>8, <1>9
  <1>11. x - 1 \in T BY <1>2, <1>9, <1>10
  <1>12. QED BY <1>8, <1>9, <1>11

(* Two functions agree at k when they agree at k - 1. *)
SameRecursion(n, f, g) == \A k \in 1..n : f[k - 1] = g[k - 1] => f[k] = g[k]

(* Two functions that agree at 0, and at k when they agree at k - 1, agree. *)
LEMMA RecursionUnique ==
    ASSUME NEW n \in Nat, NEW f, NEW g, f[0] = g[0], SameRecursion(n, f, g)
    PROVE  \A k \in 0..n : f[k] = g[k]
  <1>1. PICK T : T = {k \in Nat : k <= n => f[k] = g[k]} OBVIOUS
  <1>2. 0 \in T BY <1>1
  <1>3. ASSUME NEW k \in Nat, k \in T PROVE k + 1 \in T
    <2>1. CASE k + 1 <= n
      <3>1. k + 1 \in 1..n /\ (k + 1) - 1 = k /\ k <= n BY <2>1
      <3>2. f[k] = g[k] BY <1>1, <1>3, <3>1
      <3>3. f[k + 1] = g[k + 1] BY <3>1, <3>2 DEF SameRecursion
      <3>4. QED BY <1>1, <3>3
    <2>2. CASE ~(k + 1 <= n) BY <1>1, <2>2
    <2>3. QED BY <2>1, <2>2
  <1>4. \A k \in Nat : k \in T BY <1>2, <1>3, NatSetInduction
  <1>5. QED BY <1>1, <1>4

(* A sequence that is not empty is a shorter one with an element appended. *)
LEMMA SeqFront ==
    ASSUME NEW S, NEW s \in Seq(S), NEW n \in Nat, Len(s) = n + 1
    PROVE  \E front \in Seq(S), x \in S : s = Append(front, x) /\ Len(front) = n
  <1>1. PICK front : front = SubSeq(s, 1, n) OBVIOUS
  <1>2. 1 <= n + 1 /\ n <= Len(s) /\ n + 1 \in 1..Len(s) OBVIOUS
  <1>3. front \in Seq(S) /\ Len(front) = n /\ \A i \in 1..n : front[i] = s[i]
    BY <1>1, <1>2, SubSeqProperties
  <1>4. s[n + 1] \in S BY <1>2, ElementOfSeq
  <1>5. PICK t : t = Append(front, s[n + 1]) OBVIOUS
  <1>6. t \in Seq(S) /\ Len(t) = n + 1 /\ t[n + 1] = s[n + 1] /\ \A i \in 1..n : t[i] = front[i]
    BY <1>3, <1>4, <1>5, AppendProperties
  <1>7. \A i \in 1..(n + 1) : t[i] = s[i] BY <1>3, <1>6
  <1>8. s = t BY <1>6, <1>7, SeqEqual
  <1>9. QED BY <1>3, <1>4, <1>5, <1>8
-----------------------------------------------------------------------------
(* Namespace: the fold over the ownership receipts.                        *)

(* The holdings of the first n receipts of a log, n by n. *)
NsUpTo(log, n, f) ==
    f = [k \in 0..n |-> IF k = 0 THEN NsEmpty ELSE NsApply(f[k - 1], log[k])]

(* What NsUpTo says of each value. *)
LEMMA NsUpToValues ==
    ASSUME NEW log, NEW n \in Nat, NEW f, NsUpTo(log, n, f)
    PROVE  f[0] = NsEmpty /\ \A k \in 1..n : f[k] = NsApply(f[k - 1], log[k])
  <1>1. 0 \in 0..n /\ \A k \in 1..n : k \in 0..n /\ k # 0 OBVIOUS
  <1>2. QED BY <1>1 DEF NsUpTo

(* The recursion of _project's loop has a solution, for a log of any length. *)
LEMMA NsUpToExists == ASSUME NEW log, NEW n \in Nat PROVE \E f : NsUpTo(log, n, f)
  <1>1. PICK T : T = {m \in Nat : \E f : NsUpTo(log, m, f)} OBVIOUS
  <1>2. 0 \in T
    <2>1. PICK f : f = [k \in 0..0 |-> NsEmpty] OBVIOUS
    <2>2. \A k \in 0..0 : k = 0 OBVIOUS
    <2>3. NsUpTo(log, 0, f) BY <2>1, <2>2 DEF NsUpTo
    <2>4. QED BY <1>1, <2>3
  <1>3. ASSUME NEW m \in Nat, m \in T PROVE m + 1 \in T
    <2>1. PICK f : NsUpTo(log, m, f) BY <1>1, <1>3
    <2>2. f[0] = NsEmpty /\ \A k \in 1..m : f[k] = NsApply(f[k - 1], log[k]) BY <2>1, NsUpToValues
    <2>3. PICK g : g = [k \in 0..(m + 1) |-> IF k = m + 1 THEN NsApply(f[m], log[m + 1]) ELSE f[k]] OBVIOUS
    <2>4. /\ \A k \in 0..(m + 1) : k = m + 1 \/ k \in 0..m
          /\ \A k \in 0..(m + 1) : k # 0 => k - 1 \in 0..m
          /\ \A k \in 0..m : k \in 0..(m + 1) /\ k # m + 1
          /\ m + 1 \in 0..(m + 1) /\ m + 1 # 0 /\ (m + 1) - 1 = m /\ m \in 0..m
          /\ \A k \in 0..m : k # 0 => k \in 1..m
      OBVIOUS
    <2>5. g[m + 1] = NsApply(f[m], log[m + 1]) /\ \A k \in 0..m : g[k] = f[k] BY <2>3, <2>4
    <2>6. \A k \in 0..(m + 1) : g[k] = IF k = 0 THEN NsEmpty ELSE NsApply(g[k - 1], log[k])
      <3> TAKE k \in 0..(m + 1)
      <3>1. CASE k = m + 1 BY <2>4, <2>5, <3>1
      <3>2. CASE k # m + 1
        <4>1. k \in 0..m /\ g[k] = f[k] BY <2>4, <2>5, <3>2
        <4>2. CASE k = 0 BY <2>2, <4>1, <4>2
        <4>3. CASE k # 0
          <5>1. k \in 1..m /\ g[k - 1] = f[k - 1] BY <2>4, <2>5, <4>1, <4>3
          <5>2. QED BY <2>2, <4>1, <4>3, <5>1
        <4>4. QED BY <4>2, <4>3
      <3>3. QED BY <3>1, <3>2
    <2>7. g = [k \in 0..(m + 1) |-> IF k = 0 THEN NsEmpty ELSE NsApply(g[k - 1], log[k])]
      BY <2>3, <2>6
    <2>8. QED BY <1>1, <2>7 DEF NsUpTo
  <1>4. \A m \in Nat : m \in T BY <1>2, <1>3, NatSetInduction
  <1>5. QED BY <1>1, <1>4

(* NsProject is the last value of that solution. *)
LEMMA NsProjectIs ==
    ASSUME NEW log, Len(log) \in Nat
    PROVE  \E f : NsUpTo(log, Len(log), f) /\ NsProject(log) = f[Len(log)]
  <1>1. PICK n : n = Len(log) OBVIOUS
  <1>2. PICK f : f = CHOOSE g : NsUpTo(log, n, g) OBVIOUS
  <1>3. NsUpTo(log, n, f) BY <1>1, <1>2, NsUpToExists
  <1>4. NsProject(log) = f[n] BY <1>1, <1>2 DEF NsProject, NsUpTo
  <1>5. QED BY <1>1, <1>3, <1>4

(* The empty log, and a receipt more. *)
LEMMA NsProjectSteps ==
    /\ NsProject(<<>>) = NsEmpty
    /\ \A log \in Seq(NsReceipt), r \in NsReceipt :
        NsProject(Append(log, r)) = NsApply(NsProject(log), r)
  <1>1. NsProject(<<>>) = NsEmpty
    <2>1. PICK log : log = <<>> OBVIOUS
    <2>2. Len(log) = 0 BY <2>1
    <2>3. PICK f : NsUpTo(log, 0, f) /\ NsProject(log) = f[0] BY <2>2, NsProjectIs
    <2>4. QED BY <2>1, <2>3, NsUpToValues
  <1>2. ASSUME NEW log \in Seq(NsReceipt), NEW r \in NsReceipt
        PROVE  NsProject(Append(log, r)) = NsApply(NsProject(log), r)
    <2>1. PICK n, more : n = Len(log) /\ more = Append(log, r) OBVIOUS
    <2> HIDE DEF NsReceipt
    <2>2. /\ n \in Nat /\ Len(more) = n + 1 /\ more[n + 1] = r
          /\ \A k \in 1..n : more[k] = log[k]
      BY <1>2, <2>1, LenProperties, AppendProperties
    <2>3. PICK f : NsUpTo(log, n, f) /\ NsProject(log) = f[n] BY <2>1, <2>2, NsProjectIs
    <2>4. n + 1 \in Nat BY <2>2
    <2>5. PICK g : NsUpTo(more, n + 1, g) /\ NsProject(more) = g[n + 1] BY <2>2, <2>4, NsProjectIs
    <2>6. f[0] = NsEmpty /\ \A k \in 1..n : f[k] = NsApply(f[k - 1], log[k])
      BY <2>2, <2>3, NsUpToValues
    <2>7. g[0] = NsEmpty /\ \A k \in 1..(n + 1) : g[k] = NsApply(g[k - 1], more[k])
      BY <2>4, <2>5, NsUpToValues
    <2>8. /\ n + 1 \in 1..(n + 1) /\ (n + 1) - 1 = n /\ n \in 0..n
          /\ \A k \in 1..n : k \in 1..(n + 1)
      BY <2>2
    <2>9. SameRecursion(n, f, g) BY <2>2, <2>6, <2>7, <2>8 DEF SameRecursion
    <2>10. f[n] = g[n]
      <3>1. f[0] = g[0] BY <2>6, <2>7
      <3>2. \A k \in 0..n : f[k] = g[k] BY <2>2, <2>9, <3>1, RecursionUnique
      <3>3. QED BY <2>8, <3>2
    <2>11. g[n + 1] = NsApply(g[n], r) BY <2>2, <2>7, <2>8
    <2>12. QED BY <2>1, <2>3, <2>5, <2>10, <2>11
  <1>3. QED BY <1>1, <1>2

(* What a projection is: a holder, delegates and a revocation per name. *)
NsState ==
    [owner : [NsNames -> NsArgs], revoked : SUBSET NsNames, delegates : [NsNames -> SUBSET NsArgs]]

(* The holding of the name n is as it was. *)
NsSameHolding(st, new, n) ==
    /\ new.owner[n] = st.owner[n] /\ new.delegates[n] = st.delegates[n]
    /\ n \in new.revoked <=> n \in st.revoked

(* The holding of the receipt's own name, by the branches of the loop. *)
NsAllocated(st, r, new) ==
    /\ r.op = "allocate" /\ st.owner[r.name] = "None" /\ r.name \notin st.revoked
    /\ new.owner[r.name] = r.authority /\ new.delegates[r.name] = st.delegates[r.name]
    /\ r.name \notin new.revoked
NsDelegated(st, r, new) ==
    /\ r.op = "delegate" /\ NsHolds(st, r)
    /\ new.owner[r.name] = st.owner[r.name] /\ new.delegates[r.name] = st.delegates[r.name] \cup {r.who}
    /\ r.name \in new.revoked <=> r.name \in st.revoked
NsGivenUp(st, r, new) ==
    /\ NsHolds(st, r)
    /\ new.owner[r.name] = "None" /\ new.delegates[r.name] = {} /\ r.name \in new.revoked
NsGiven(st, r, new) ==
    /\ NsHolds(st, r) \/ (r.op = "adjudicate" /\ r.name \notin st.revoked)
    /\ new.owner[r.name] = r.who /\ new.delegates[r.name] = {}
    /\ r.name \in new.revoked <=> r.name \in st.revoked

(* A receipt changes the holding of its own name, in one of these ways. *)
LEMMA NsApplyCases ==
    ASSUME NEW st \in NsState, NEW r \in NsReceipt
    PROVE  /\ NsApply(st, r) \in NsState
           /\ \A n \in NsNames : n # r.name => NsSameHolding(st, NsApply(st, r), n)
           /\ \/ NsSameHolding(st, NsApply(st, r), r.name)
              \/ NsAllocated(st, r, NsApply(st, r)) \/ NsDelegated(st, r, NsApply(st, r))
              \/ NsGivenUp(st, r, NsApply(st, r)) \/ NsGiven(st, r, NsApply(st, r))
  <1>1. PICK new, name : new = NsApply(st, r) /\ name = r.name OBVIOUS
  <1>2. /\ name \in NsNames /\ r.authority \in NsArgs /\ r.who \in NsArgs /\ "None" \in NsArgs
        /\ r.op \in NsOps
    BY <1>1 DEF NsReceipt, NsArgs
  <1>3. /\ st.owner \in [NsNames -> NsArgs] /\ st.revoked \in SUBSET NsNames
        /\ st.delegates \in [NsNames -> SUBSET NsArgs]
        /\ st = [owner |-> st.owner, revoked |-> st.revoked, delegates |-> st.delegates]
    BY DEF NsState
  <1>4. CASE r.op = "allocate" /\ st.owner[r.name] = "None" /\ r.name \notin st.revoked
    <2>1. new = [st EXCEPT !.owner[name] = r.authority]
      BY <1>1, <1>4 DEF NsApply, NsFold
    <2>2. /\ new.owner = [st.owner EXCEPT ![name] = r.authority]
          /\ new.revoked = st.revoked /\ new.delegates = st.delegates /\ new \in NsState
      BY <1>2, <1>3, <2>1 DEF NsState
    <2>3. QED BY <1>1, <1>2, <1>3, <1>4, <2>2 DEF NsSameHolding, NsAllocated
  <1>5. CASE r.op = "delegate" /\ NsHolds(st, r)
    <2>1. new = [st EXCEPT !.delegates[name] = @ \cup {r.who}]
      BY <1>1, <1>5 DEF NsApply, NsFold
    <2>2. /\ new.delegates = [st.delegates EXCEPT ![name] = st.delegates[name] \cup {r.who}]
          /\ new.revoked = st.revoked /\ new.owner = st.owner /\ new \in NsState
      BY <1>2, <1>3, <2>1 DEF NsState
    <2>3. QED BY <1>1, <1>2, <1>3, <1>5, <2>2 DEF NsSameHolding, NsDelegated
  <1>6. CASE r.op \in {"revoke", "invalidate"} /\ NsHolds(st, r)
    <2>1. new = [[st EXCEPT !.owner[name] = "None", !.delegates[name] = {}] EXCEPT !.revoked = @ \cup {name}]
      BY <1>1, <1>6 DEF NsApply, NsFold
    <2>2. /\ new.owner = [st.owner EXCEPT ![name] = "None"]
          /\ new.delegates = [st.delegates EXCEPT ![name] = {}]
          /\ new.revoked = st.revoked \cup {name} /\ new \in NsState
      BY <1>2, <1>3, <2>1 DEF NsState
    <2>3. QED BY <1>1, <1>2, <1>3, <1>6, <2>2 DEF NsSameHolding, NsGivenUp
  <1>7. CASE \/ r.op = "supersede" /\ NsHolds(st, r)
             \/ r.op = "adjudicate" /\ r.name \notin st.revoked
    <2>1. new = [st EXCEPT !.owner[name] = r.who, !.delegates[name] = {}]
      BY <1>1, <1>7 DEF NsApply, NsFold
    <2>2. /\ new.owner = [st.owner EXCEPT ![name] = r.who]
          /\ new.delegates = [st.delegates EXCEPT ![name] = {}]
          /\ new.revoked = st.revoked /\ new \in NsState
      BY <1>2, <1>3, <2>1 DEF NsState
    <2>3. QED BY <1>1, <1>2, <1>3, <1>7, <2>2 DEF NsSameHolding, NsGiven
  <1>8. CASE /\ ~(r.op = "allocate" /\ st.owner[r.name] = "None" /\ r.name \notin st.revoked)
             /\ ~(r.op = "delegate" /\ NsHolds(st, r))
             /\ ~(r.op \in {"revoke", "invalidate"} /\ NsHolds(st, r))
             /\ ~(r.op = "supersede" /\ NsHolds(st, r))
             /\ ~(r.op = "adjudicate" /\ r.name \notin st.revoked)
    <2>1. new = st BY <1>1, <1>8 DEF NsApply, NsFold
    <2>2. QED BY <1>1, <2>1 DEF NsSameHolding
  <1>9. QED BY <1>4, <1>5, <1>6, <1>7, <1>8

(* The i-th receipt of a log appointed d a delegate of n, and was signed by  *)
(* who holds n now and has held it since.                                    *)
NsAppointed(log, n, d, i) ==
    /\ log[i].op = "delegate" /\ log[i].name = n /\ log[i].who = d
    /\ log[i].authority = NsProject(log).owner[n]
    /\ \A j \in i..Len(log) : NsProject(SubSeq(log, 1, j)).owner[n] = NsProject(log).owner[n]

(* What the fold guarantees of any log of receipts: a name nobody holds has  *)
(* no delegates, a revoked name nobody holds, and delegates are the present  *)
(* holder's.                                                                 *)
NsSound(st) ==
    /\ st \in NsState
    /\ \A n \in NsNames :
        /\ st.owner[n] = "None" => st.delegates[n] = {}
        /\ n \in st.revoked => st.owner[n] = "None"

NsGood(log) ==
    /\ NsSound(NsProject(log))
    /\ \A n \in NsNames : \A d \in NsProject(log).delegates[n] :
        \E i \in DOMAIN log : NsAppointed(log, n, d, i)

(* One receipt more keeps the holdings sound. *)
LEMMA NsSoundStep ==
    ASSUME NEW st, NsSound(st), NEW r \in NsReceipt
    PROVE  NsSound(NsApply(st, r))
  <1>1. PICK new : new = NsApply(st, r) OBVIOUS
  <1>2. st \in NsState BY DEF NsSound
  <1>3. r.name \in NsNames BY DEF NsReceipt
  <1>4. /\ new \in NsState
        /\ \A n \in NsNames : n # r.name => NsSameHolding(st, new, n)
        /\ \/ NsSameHolding(st, new, r.name)
           \/ NsAllocated(st, r, new) \/ NsDelegated(st, r, new)
           \/ NsGivenUp(st, r, new) \/ NsGiven(st, r, new)
    BY <1>1, <1>2, NsApplyCases
  <1>5. ASSUME NEW n \in NsNames
        PROVE  /\ new.owner[n] = "None" => new.delegates[n] = {}
               /\ n \in new.revoked => new.owner[n] = "None"
    <2>1. /\ st.owner[n] = "None" => st.delegates[n] = {}
          /\ n \in st.revoked => st.owner[n] = "None"
      BY DEF NsSound
    <2>2. CASE NsSameHolding(st, new, n) BY <2>1, <2>2 DEF NsSameHolding
    <2>3. CASE n = r.name /\ NsAllocated(st, r, new) BY <2>1, <2>3 DEF NsAllocated
    <2>4. CASE n = r.name /\ NsDelegated(st, r, new) BY <2>1, <2>4 DEF NsDelegated, NsHolds
    <2>5. CASE n = r.name /\ NsGivenUp(st, r, new) BY <2>5 DEF NsGivenUp
    <2>6. CASE n = r.name /\ NsGiven(st, r, new) BY <2>1, <2>6 DEF NsGiven, NsHolds
    <2>7. QED BY <1>4, <2>2, <2>3, <2>4, <2>5, <2>6
  <1>6. QED BY <1>1, <1>4, <1>5 DEF NsSound

(* One receipt more keeps the delegates the present holder's. *)
LEMMA NsGoodStep ==
    ASSUME NEW log \in Seq(NsReceipt), NsGood(log), NEW r \in NsReceipt
    PROVE  NsGood(Append(log, r))
  <1>1. PICK more, len, st, new :
            /\ more = Append(log, r) /\ len = Len(log)
            /\ st = NsProject(log) /\ new = NsProject(more)
    OBVIOUS
  <1>2. new = NsApply(st, r) BY <1>1, NsProjectSteps
  <1>3. NsSound(st) /\ NsSound(new) BY <1>1, <1>2, NsSoundStep DEF NsGood
  <1>4. st \in NsState BY <1>3 DEF NsSound
  <1>5. /\ \A n \in NsNames : n # r.name => NsSameHolding(st, new, n)
        /\ \/ NsSameHolding(st, new, r.name)
           \/ NsAllocated(st, r, new) \/ NsDelegated(st, r, new)
           \/ NsGivenUp(st, r, new) \/ NsGiven(st, r, new)
    BY <1>2, <1>4, NsApplyCases
  <1> HIDE DEF NsReceipt
  <1>6. /\ len \in Nat /\ more \in Seq(NsReceipt) /\ Len(more) = len + 1 /\ more[len + 1] = r
        /\ \A i \in 1..len : more[i] = log[i]
        /\ DOMAIN log = 1..len /\ DOMAIN more = 1..(len + 1)
    BY <1>1, LenProperties, AppendProperties
  <1>7. SubSeq(more, 1, len + 1) = more BY <1>6, SubSeqFull
  <1>8. ASSUME NEW j \in 1..len PROVE SubSeq(more, 1, j) = SubSeq(log, 1, j)
    <2>1. PICK s, t : s = SubSeq(more, 1, j) /\ t = SubSeq(log, 1, j) OBVIOUS
    <2>2. 1 <= j + 1 /\ j <= len /\ j <= len + 1 /\ j \in Nat /\ 1 <= 1 BY <1>6
    <2>3. s \in Seq(NsReceipt) /\ Len(s) = j /\ \A i \in 1..j : s[i] = more[i]
      BY <1>6, <2>1, <2>2
    <2>4. t \in Seq(NsReceipt) /\ Len(t) = j /\ \A i \in 1..j : t[i] = log[i]
      BY <1>1, <1>6, <2>1, <2>2
    <2>5. \A i \in 1..j : s[i] = t[i] BY <1>6, <2>2, <2>3, <2>4
    <2>6. QED BY <2>1, <2>3, <2>4, <2>5, SeqEqual
  <1>9. ASSUME NEW n \in NsNames, new.owner[n] = st.owner[n], NEW d, d \in st.delegates[n]
        PROVE  \E i \in DOMAIN more : NsAppointed(more, n, d, i)
    <2>1. PICK i \in DOMAIN log : NsAppointed(log, n, d, i) BY <1>1, <1>9 DEF NsGood
    <2>2. i \in 1..len /\ i \in DOMAIN more /\ more[i] = log[i] BY <1>6, <2>1
    <2>3. ASSUME NEW j \in i..(len + 1) PROVE NsProject(SubSeq(more, 1, j)).owner[n] = new.owner[n]
      <3>1. CASE j = len + 1 BY <1>1, <1>7, <3>1
      <3>2. CASE j # len + 1
        <4>1. j \in i..len /\ j \in 1..len BY <1>6, <2>2, <2>3, <3>2
        <4>2. NsProject(SubSeq(log, 1, j)).owner[n] = st.owner[n] BY <1>1, <2>1, <4>1 DEF NsAppointed
        <4>3. QED BY <1>8, <1>9, <4>1, <4>2
      <3>3. QED BY <3>1, <3>2
    <2>4. NsAppointed(more, n, d, i) BY <1>1, <1>6, <1>9, <2>1, <2>2, <2>3 DEF NsAppointed
    <2>5. QED BY <2>2, <2>4
  <1>10. ASSUME NEW n \in NsNames, NEW d, d \in new.delegates[n]
         PROVE  \E i \in DOMAIN more : NsAppointed(more, n, d, i)
    <2>1. CASE NsSameHolding(st, new, n) BY <1>9, <1>10, <2>1 DEF NsSameHolding
    <2>2. CASE n = r.name /\ NsAllocated(st, r, new)
      <3>1. st.delegates[n] = {} BY <1>3, <2>2 DEF NsSound, NsAllocated
      <3>2. QED BY <1>10, <2>2, <3>1 DEF NsAllocated
    <2>3. CASE n = r.name /\ NsDelegated(st, r, new)
      <3>1. CASE d \in st.delegates[n] BY <1>9, <2>3, <3>1 DEF NsDelegated
      <3>2. CASE d \notin st.delegates[n]
        <4>1. d = r.who /\ r.authority = new.owner[n] /\ r.op = "delegate"
          BY <1>10, <2>3, <3>2 DEF NsDelegated, NsHolds
        <4>2. len + 1 \in DOMAIN more /\ \A j \in (len + 1)..(len + 1) : j = len + 1 BY <1>6
        <4>3. NsAppointed(more, n, d, len + 1)
          BY <1>1, <1>6, <1>7, <2>3, <4>1, <4>2 DEF NsAppointed
        <4>4. QED BY <4>2, <4>3
      <3>3. QED BY <3>1, <3>2
    <2>4. CASE n = r.name /\ (NsGivenUp(st, r, new) \/ NsGiven(st, r, new))
      BY <1>10, <2>4 DEF NsGivenUp, NsGiven
    <2>5. QED BY <1>5, <2>1, <2>2, <2>3, <2>4
  <1>11. QED BY <1>1, <1>3, <1>10 DEF NsGood

(* Every log is good, so also what a prune leaves of one. *)
LEMMA NsEveryLogGood == \A log \in Seq(NsReceipt) : NsGood(log)
  <1>1. PICK T : T = {n \in Nat : \A log \in Seq(NsReceipt) : Len(log) = n => NsGood(log)} OBVIOUS
  <1>2. 0 \in T
    <2>1. ASSUME NEW log \in Seq(NsReceipt), Len(log) = 0 PROVE NsGood(log)
      <3>1. log = <<>>
        <4> HIDE DEF NsReceipt
        <4>1. QED BY <2>1, EmptySeq
      <3>2. PICK st : st = NsProject(log) OBVIOUS
      <3>3. st = NsEmpty BY <3>1, <3>2, NsProjectSteps
      <3>4. st \in NsState /\ \A n \in NsNames : st.owner[n] = "None" /\ st.delegates[n] = {}
        BY <3>3 DEF NsEmpty, NsState, NsArgs
      <3>5. QED BY <3>2, <3>4 DEF NsGood, NsSound
    <2>2. QED BY <1>1, <2>1
  <1>3. ASSUME NEW n \in Nat, n \in T PROVE n + 1 \in T
    <2>1. ASSUME NEW log \in Seq(NsReceipt), Len(log) = n + 1 PROVE NsGood(log)
      <3> HIDE DEF NsReceipt
      <3>1. PICK front \in Seq(NsReceipt), r \in NsReceipt : log = Append(front, r) /\ Len(front) = n
        BY <2>1, SeqFront
      <3>2. NsGood(front) BY <1>1, <1>3, <3>1
      <3>3. QED BY <3>1, <3>2, NsGoodStep
    <2>2. QED BY <1>1, <2>1
  <1>4. \A n \in Nat : n \in T BY <1>2, <1>3, NatSetInduction
  <1>5. ASSUME NEW log \in Seq(NsReceipt) PROVE NsGood(log)
    <2>1. Len(log) \in Nat
      <3> HIDE DEF NsReceipt
      <3>1. QED BY LenProperties
    <2>2. QED BY <1>1, <1>4, <2>1
  <1>6. QED BY <1>5

(* The log and the admitted calls are receipts, and an award is admitted     *)
(* only in the Governor's name.                                              *)
NsInv ==
    /\ nsLog \in Seq(NsReceipt) /\ nsPruned \in Nat
    /\ nsPending \in [NsThreads -> {NsIdle} \cup NsReceipt]
    /\ \A t \in NsThreads : nsPending[t] # NsIdle /\ nsPending[t].op = "adjudicate" =>
            nsPending[t].authority = NsGovernor

(* A call is admitted: its receipt is one, and an award the Governor's. *)
LEMMA NsAdmitKeeps ==
    ASSUME NsInv, NEW t \in NsThreads, NEW op \in NsOps, NEW s \in NsSpellings,
           NEW a \in NsArgs, NEW who \in NsArgs, NsAdmit(t, op, s, a, who),
           op = "adjudicate" => a = NsGovernor
    PROVE  NsInv'
  <1>1. PICK r : r = [op |-> op, name |-> NsCanon[s], who |-> who,
                      authority |-> IF a = "None" THEN NsDefault ELSE a]
    OBVIOUS
  <1>2. /\ NsCanon[s] \in NsNames /\ NsGovernor \in NsAuthorities /\ NsDefault \in NsAuthorities
        /\ "None" \notin NsAuthorities
    BY NsAssumption DEF NsAdmit
  <1>3. r \in NsReceipt /\ (r.op = "adjudicate" => r.authority = NsGovernor)
    BY <1>1, <1>2 DEF NsReceipt, NsArgs
  <1>4. nsPending' = [nsPending EXCEPT ![t] = r] /\ nsLog' = nsLog /\ nsPruned' = nsPruned
    BY <1>1 DEF NsAdmit
  <1> HIDE DEF NsReceipt
  <1>5. /\ nsPending' \in [NsThreads -> {NsIdle} \cup NsReceipt] /\ nsPending'[t] = r
        /\ \A u \in NsThreads : u # t => nsPending'[u] = nsPending[u]
    BY <1>3, <1>4 DEF NsInv
  <1>6. \A u \in NsThreads : nsPending'[u] # NsIdle /\ nsPending'[u].op = "adjudicate" =>
            nsPending'[u].authority = NsGovernor
    BY <1>3, <1>5 DEF NsInv
  <1>7. QED BY <1>4, <1>5, <1>6 DEF NsInv

(* A step is an admission, or writes an admitted receipt, or prunes. *)
LEMMA NsSteps ==
    ASSUME NsInv, NsNext
    PROVE  \/ /\ nsLog' = nsLog /\ NsInv'
           \/ \E t \in NsThreads : NsWrite(t)
           \/ \E i \in DOMAIN nsLog : NsPrune(i)
  <1>1. ASSUME NEW t \in NsThreads, NEW s \in NsSpellings, NEW a \in NsArgs,
               NsClaim(t, s, a) \/ NsAllocate(t, s, a) \/ NsRevoke(t, s, a) \/ NsInvalidate(t, s, a)
        PROVE  nsLog' = nsLog /\ NsInv'
    <2>1. PICK op \in {"claim", "allocate", "revoke", "invalidate"} : NsAdmit(t, op, s, a, "None")
      BY <1>1 DEF NsClaim, NsAllocate, NsRevoke, NsInvalidate
    <2>2. op \in NsOps /\ op # "adjudicate" /\ "None" \in NsArgs BY DEF NsOps, NsArgs
    <2>3. NsInv' BY <2>1, <2>2, NsAdmitKeeps
    <2>4. QED BY <2>1, <2>3 DEF NsAdmit
  <1>2. ASSUME NEW t \in NsThreads, NEW s \in NsSpellings, NEW a \in NsArgs, NEW to \in NsAuthorities,
               NsDelegate(t, s, a, to) \/ NsSupersede(t, s, a, to) \/ NsAdjudicate(t, s, a, to)
        PROVE  nsLog' = nsLog /\ NsInv'
    <2>1. PICK op \in {"delegate", "supersede", "adjudicate"} :
            NsAdmit(t, op, s, a, to) /\ (op = "adjudicate" => a = NsGovernor)
      BY <1>2 DEF NsDelegate, NsSupersede, NsAdjudicate
    <2>2. op \in NsOps /\ to \in NsArgs BY DEF NsOps, NsArgs
    <2>3. NsInv' BY <2>1, <2>2, NsAdmitKeeps
    <2>4. QED BY <2>1, <2>3 DEF NsAdmit
  <1>3. QED BY <1>1, <1>2 DEF NsNext

(* What writing a receipt does. *)
LEMMA NsWriteDoes ==
    ASSUME NsInv, NEW t \in NsThreads, NsWrite(t)
    PROVE  /\ NsInv' /\ nsPending[t] \in NsReceipt /\ nsLog' = Append(nsLog, nsPending[t])
           /\ nsLog'[Len(nsLog')] = nsPending[t]
           /\ NsProject(nsLog') = NsApply(NsProject(nsLog), nsPending[t])
  <1>1. PICK r : r = nsPending[t] OBVIOUS
  <1>2. /\ r \in NsReceipt /\ nsLog' = Append(nsLog, r) /\ nsPending' = [nsPending EXCEPT ![t] = NsIdle]
        /\ nsPruned' = nsPruned /\ nsLog \in Seq(NsReceipt)
    BY <1>1 DEF NsInv, NsWrite
  <1>3. NsProject(nsLog') = NsApply(NsProject(nsLog), r) BY <1>2, NsProjectSteps
  <1> HIDE DEF NsReceipt
  <1>4. nsLog' \in Seq(NsReceipt) /\ nsLog'[Len(nsLog')] = r BY <1>2, AppendProperties, LenProperties
  <1>5. /\ nsPending' \in [NsThreads -> {NsIdle} \cup NsReceipt] /\ nsPending'[t] = NsIdle
        /\ \A u \in NsThreads : u # t => nsPending'[u] = nsPending[u]
    BY <1>2 DEF NsInv
  <1>6. \A u \in NsThreads : nsPending'[u] # NsIdle /\ nsPending'[u].op = "adjudicate" =>
            nsPending'[u].authority = NsGovernor
    BY <1>5 DEF NsInv
  <1>7. NsInv' BY <1>2, <1>4, <1>5, <1>6 DEF NsInv
  <1>8. QED BY <1>1, <1>2, <1>3, <1>4, <1>7

(* A prune leaves receipts, and counts them. *)
LEMMA NsPruneDoes ==
    ASSUME NsInv, NEW i \in DOMAIN nsLog, NsPrune(i)
    PROVE  NsInv' /\ nsPruned' # nsPruned
  <1>1. /\ nsLog \in Seq(NsReceipt) /\ nsPruned \in Nat
        /\ nsLog' = SubSeq(nsLog, i + 1, Len(nsLog)) /\ nsPruned' = nsPruned + i /\ nsPending' = nsPending
    BY DEF NsInv, NsPrune
  <1> HIDE DEF NsReceipt
  <1>2. Len(nsLog) \in Nat /\ i \in 1..Len(nsLog) BY <1>1, LenProperties
  <1>3. nsLog' \in Seq(NsReceipt) BY <1>1, <1>2, SubSeqProperties
  <1>4. nsPruned' \in Nat /\ nsPruned' # nsPruned BY <1>1, <1>2
  <1>5. QED BY <1>1, <1>3, <1>4 DEF NsInv

(* The log is of receipts and the Governor's awards are the Governor's. *)
THEOREM NamespaceInvariance == NsSpec => []NsInv
  <1>1. ASSUME NsInit PROVE NsInv
    <2>1. nsLog = <<>> /\ nsPruned = 0 /\ nsPending = [t \in NsThreads |-> NsIdle] BY <1>1 DEF NsInit
    <2> HIDE DEF NsReceipt
    <2>2. nsLog \in Seq(NsReceipt) BY <2>1, EmptySeq
    <2>3. QED BY <2>1, <2>2 DEF NsInv
  <1>2. ASSUME NsInv, [NsNext]_nsVars PROVE NsInv'
    <2>1. CASE NsNext BY <1>2, <2>1, NsSteps, NsWriteDoes, NsPruneDoes
    <2>2. CASE UNCHANGED nsVars BY <1>2, <2>2 DEF nsVars, NsInv
    <2>3. QED BY <1>2, <2>1, <2>2
  <1>3. QED BY <1>1, <1>2, PTL DEF NsSpec

(* NsDelegatesOfHolder is an invariant: after any sequence of claims,        *)
(* transfers, awards, revocations and prunes, every delegate _project        *)
(* computes was appointed by who holds the name now and has held it since.   *)
THEOREM DelegatesAreTheHoldersOwn == NsSpec => []NsDelegatesOfHolder
  <1>1. ASSUME NsInv PROVE NsDelegatesOfHolder
    <2>1. NsGood(nsLog) BY <1>1, NsEveryLogGood DEF NsInv
    <2>2. QED BY <2>1 DEF NsGood, NsAppointed, NsDelegatesOfHolder, NsDelegatesOf, NsOwnerOf
  <1>2. QED BY <1>1, NamespaceInvariance, PTL

(* NsOnlyHolderActs holds: between a gate and its receipt anything may be    *)
(* written, and still a holder changes only by its own act, by an award of   *)
(* the Governor or by the allocation of a name that is free.                 *)
THEOREM OnlyTheHolderActs == NsSpec => NsOnlyHolderActs
  <1>1. ASSUME NsInv, [NsNext]_nsVars
        PROVE  [nsLog' # nsLog /\ nsPruned' = nsPruned =>
                  \A n \in NsNames :
                      LET before == NsOwnerOf(n)
                          after == NsProject(nsLog').owner[n]
                      IN  after # before =>
                              \/ before # "None" /\ NsNewest.authority = before
                              \/ NsNewest.op = "adjudicate" /\ NsNewest.authority = NsGovernor
                              \/ before = "None" /\ NsNewest.op = "allocate" /\ n \notin NsRevoked]_nsVars
    <2>1. SUFFICES ASSUME NsNext, nsLog' # nsLog, nsPruned' = nsPruned, NEW n \in NsNames,
                          NsProject(nsLog').owner[n] # NsOwnerOf(n)
                   PROVE  \/ NsOwnerOf(n) # "None" /\ NsNewest.authority = NsOwnerOf(n)
                          \/ NsNewest.op = "adjudicate" /\ NsNewest.authority = NsGovernor
                          \/ NsOwnerOf(n) = "None" /\ NsNewest.op = "allocate" /\ n \notin NsRevoked
      BY <1>1
    <2>2. PICK t \in NsThreads : NsWrite(t) BY <1>1, <2>1, NsSteps, NsPruneDoes
    <2>3. PICK st, r, new : st = NsProject(nsLog) /\ r = nsPending[t] /\ new = NsProject(nsLog')
      OBVIOUS
    <2>4. r \in NsReceipt /\ NsNewest = r /\ new = NsApply(st, r)
      BY <1>1, <2>2, <2>3, NsWriteDoes DEF NsNewest
    <2>5. st \in NsState BY <1>1, <2>3, NsEveryLogGood DEF NsInv, NsGood, NsSound
    <2>6. r.op = "adjudicate" => r.authority = NsGovernor BY <1>1, <2>2, <2>3 DEF NsInv, NsWrite
    <2>7. new.owner[n] # st.owner[n] BY <2>1, <2>3 DEF NsOwnerOf
    <2>8. n = r.name BY <2>4, <2>5, <2>7, NsApplyCases DEF NsSameHolding
    <2>9. NsAllocated(st, r, new) \/ NsDelegated(st, r, new) \/ NsGivenUp(st, r, new) \/ NsGiven(st, r, new)
      BY <2>4, <2>5, <2>7, <2>8, NsApplyCases DEF NsSameHolding
    <2>10. \/ st.owner[n] # "None" /\ r.authority = st.owner[n]
           \/ r.op = "adjudicate" /\ r.authority = NsGovernor
           \/ st.owner[n] = "None" /\ r.op = "allocate" /\ n \notin st.revoked
      BY <2>6, <2>7, <2>8, <2>9 DEF NsAllocated, NsDelegated, NsGivenUp, NsGiven, NsHolds
    <2>11. QED BY <2>3, <2>4, <2>10 DEF NsOwnerOf, NsRevoked
  <1>2. QED BY <1>1, NamespaceInvariance, PTL DEF NsSpec, NsOnlyHolderActs

(* NsRevocationPermanent holds: a receipt that was admitted before a         *)
(* revocation and is written after it does not bring the name back.          *)
THEOREM RevocationIsPermanent == NsSpec => NsRevocationPermanent
  <1>1. ASSUME NsInv, [NsNext]_nsVars
        PROVE  [nsLog' # nsLog /\ nsPruned' = nsPruned =>
                  \A n \in NsRevoked :
                      LET st == NsProject(nsLog')
                      IN  n \in st.revoked /\ st.owner[n] = "None" /\ st.delegates[n] = {}]_nsVars
    <2>1. SUFFICES ASSUME NsNext, nsLog' # nsLog, nsPruned' = nsPruned, NEW n \in NsRevoked
                   PROVE  LET st == NsProject(nsLog')
                          IN  n \in st.revoked /\ st.owner[n] = "None" /\ st.delegates[n] = {}
      BY <1>1
    <2>2. PICK t \in NsThreads : NsWrite(t) BY <1>1, <2>1, NsSteps, NsPruneDoes
    <2>3. PICK st, r, new : st = NsProject(nsLog) /\ r = nsPending[t] /\ new = NsProject(nsLog')
      OBVIOUS
    <2>4. r \in NsReceipt /\ new = NsApply(st, r) /\ n \in st.revoked
      BY <1>1, <2>2, <2>3, NsWriteDoes DEF NsRevoked
    <2>5. NsSound(st) BY <1>1, <2>3, NsEveryLogGood DEF NsInv, NsGood
    <2>6. NsSound(new) BY <2>4, <2>5, NsSoundStep
    <2>7. st \in NsState /\ n \in NsNames /\ st.owner[n] = "None"
      <3>1. st \in NsState BY <2>5 DEF NsSound
      <3>2. n \in NsNames BY <2>4, <3>1 DEF NsState
      <3>3. QED BY <2>4, <2>5, <3>1, <3>2 DEF NsSound
    <2>8. n \in new.revoked
      <3>1. CASE n # r.name BY <2>4, <2>7, <3>1, NsApplyCases DEF NsSameHolding
      <3>2. CASE n = r.name
        <4>1. \/ NsSameHolding(st, new, n)
              \/ NsAllocated(st, r, new) \/ NsDelegated(st, r, new)
              \/ NsGivenUp(st, r, new) \/ NsGiven(st, r, new)
          BY <2>4, <2>7, <3>2, NsApplyCases
        <4>2. QED BY <2>4, <3>2, <4>1 DEF NsSameHolding, NsAllocated, NsDelegated, NsGivenUp, NsGiven
      <3>3. QED BY <3>1, <3>2
    <2>9. new.owner[n] = "None" /\ new.delegates[n] = {} BY <2>6, <2>7, <2>8 DEF NsSound
    <2>10. QED BY <2>3, <2>8, <2>9
  <1>2. QED BY <1>1, NamespaceInvariance, PTL DEF NsSpec, NsRevocationPermanent
-----------------------------------------------------------------------------
(* Amendments: what the walk says of the first records of a ledger does    *)
(* not depend on the records after them, although where it starts does.    *)

(* A set of naturals has a least element. *)
LEMMA MinIsIn ==
    ASSUME NEW S, S \subseteq Nat, S # {}
    PROVE  Min(S) \in S /\ \A y \in S : Min(S) <= y
  <1>1. PICK R : R = OpToRel(<, Nat) OBVIOUS
  <1>2. IsWellFoundedOn(R, Nat) BY <1>1, NatLessThanWellFounded
  <1>3. PICK x \in S : \A y \in S : ~(<<y, x>> \in R) BY <1>2, WFMin
  <1>4. \A a, b \in Nat : a < b => <<a, b>> \in R BY <1>1 DEF OpToRel
  <1>5. \A y \in S : x <= y
    <2> TAKE y \in S
    <2>1. x \in Nat /\ y \in Nat /\ ~(y < x) BY <1>3, <1>4
    <2>2. QED BY <2>1
  <1>6. QED BY <1>3, <1>5 DEF Min

(* A bounded one has a greatest element. *)
LEMMA MaxIsIn ==
    ASSUME NEW n \in Nat, NEW S, S \subseteq 0..n, S # {}
    PROVE  Max(S) \in S
  <1>1. PICK T : T = {n - x : x \in S} OBVIOUS
  <1>2. T \subseteq Nat /\ T # {}
    <2>1. \A x \in S : x \in 0..n OBVIOUS
    <2>2. \A x \in 0..n : n - x \in Nat OBVIOUS
    <2>3. \A y \in T : y \in Nat BY <1>1, <2>1, <2>2
    <2>4. QED BY <1>1, <2>3
  <1>3. PICK m : m = Min(T) OBVIOUS
  <1>4. m \in T /\ \A y \in T : m <= y BY <1>2, <1>3, MinIsIn
  <1>5. PICK x \in S : m = n - x BY <1>1, <1>4
  <1>6. \A y \in S : x >= y
    <2> TAKE y \in S
    <2>1. n - x <= n - y BY <1>1, <1>4, <1>5
    <2>2. x \in 0..n /\ y \in 0..n OBVIOUS
    <2>3. QED BY <2>1, <2>2
  <1>7. QED BY <1>5, <1>6 DEF Max

(* The first n records of a ledger. *)
AmIsPrefix(prefix, records, n) ==
    /\ n \in Nat /\ prefix \in Seq(AmRecord) /\ records \in Seq(AmRecord)
    /\ DOMAIN prefix = 1..n /\ DOMAIN records = 1..Len(records) /\ Len(records) \in Nat
    /\ n <= Len(records)
    /\ \A i \in 1..n : prefix[i] = records[i] /\ records[i] \in AmRecord
    /\ \A i \in 1..Len(records) : records[i] \in AmRecord

LEMMA AmSubSeqPrefix ==
    ASSUME NEW records \in Seq(AmRecord), NEW n \in 1..Len(records)
    PROVE  AmIsPrefix(SubSeq(records, 1, n), records, n) /\ Len(SubSeq(records, 1, n)) = n
  <1> HIDE DEF AmRecord
  <1>1. Len(records) \in Nat /\ DOMAIN records = 1..Len(records) BY LenProperties
  <1>2. n \in Nat /\ n >= 1 /\ n <= Len(records) BY <1>1
  <1>3. \A i \in 1..Len(records) : records[i] \in AmRecord BY <1>1, ElementOfSeq
  <1>4. \A i \in 1..n : i \in 1..Len(records) BY <1>2, <1>1
  <1>5. PICK prefix : prefix = SubSeq(records, 1, n) OBVIOUS
  <1>6. /\ prefix \in Seq(AmRecord) /\ Len(prefix) = n
        /\ \A i \in 1..n : prefix[i] = records[i]
    <2>1. \A i \in 1..n : records[i] \in AmRecord BY <1>3, <1>4
    <2>2. /\ prefix \in Seq(AmRecord) /\ Len(prefix) = IF 1 <= n THEN n - 1 + 1 ELSE 0
          /\ \A i \in 1..(n - 1 + 1) : prefix[i] = records[1 + i - 1]
      BY <1>2, <1>5, <2>1, SubSeqProperties
    <2>3. n - 1 + 1 = n /\ \A i \in 1..n : 1 + i - 1 = i BY <1>2
    <2>4. QED BY <1>2, <2>2, <2>3
  <1>7. DOMAIN prefix = 1..n BY <1>6, LenProperties
  <1>8. AmIsPrefix(prefix, records, n) BY <1>1, <1>2, <1>3, <1>4, <1>6, <1>7 DEF AmIsPrefix
  <1>9. QED BY <1>5, <1>6, <1>8

(* The starts and the moves among the first records are those of the ledger. *)
LEMMA AmPrefixSets ==
    ASSUME NEW prefix, NEW records, NEW n, AmIsPrefix(prefix, records, n)
    PROVE  /\ AmStarting(prefix) = {j \in AmStarting(records) : j <= n}
           /\ \A k \in 0..n : AmMoves(prefix, k) = AmMoves(records, k)
           /\ \A k \in 0..n : AmMoves(records, k) \subseteq 1..k
           /\ AmStarting(records) \subseteq Nat
  <1>1. /\ n \in Nat /\ DOMAIN prefix = 1..n /\ DOMAIN records = 1..Len(records)
        /\ Len(records) \in Nat /\ n <= Len(records) /\ \A i \in 1..n : prefix[i] = records[i]
    BY DEF AmIsPrefix
  <1>2. \A j : j \in 1..n <=> j \in 1..Len(records) /\ j <= n BY <1>1
  <1>3. AmStarting(prefix) = {j \in AmStarting(records) : j <= n} BY <1>1, <1>2 DEF AmStarting
  <1>4. ASSUME NEW k \in 0..n
        PROVE  AmMoves(prefix, k) = AmMoves(records, k) /\ AmMoves(records, k) \subseteq 1..k
    <2>1. \A j : j \in 1..n /\ j <= k <=> j \in 1..Len(records) /\ j <= k BY <1>1, <1>4
    <2>2. \A j \in 1..Len(records) : j <= k => j \in 1..k BY <1>1, <1>4
    <2>3. QED BY <1>1, <2>1, <2>2 DEF AmMoves
  <1>5. AmStarting(records) \subseteq Nat
    <2>1. \A j \in 1..Len(records) : j \in Nat BY <1>1
    <2>2. \A j \in AmStarting(records) : j \in Nat BY <1>1, <2>1 DEF AmStarting
    <2>3. QED BY <2>2
  <1>6. QED BY <1>3, <1>4, <1>5

(* A leg of a frame is a hash, never the empty string. *)
LEMMA AmFrameLeg ==
    ASSUME NEW records, NEW n, AmIsPrefix(records, records, n), NEW k \in 0..n
    PROVE  AmFrame(records, k).leg \in AmLegs
  <1>1. \A i \in DOMAIN records : records[i] \in AmRecord BY DEF AmIsPrefix
  <1>2. \A i \in DOMAIN records : records[i].leg \in AmLegs \cup {""} /\ records[i].priorLeg \in AmLegs \cup {""}
    BY <1>1 DEF AmRecord
  <1>3. AmStartLeg(records) \in AmLegs
    <2>1. AmStarting(records) # {} => Min(AmStarting(records)) \in AmStarting(records)
      BY AmPrefixSets, MinIsIn
    <2>2. QED BY <1>2, <2>1, AmAssumption DEF AmStartLeg, AmStarting
  <1>4. AmMoves(records, k) # {} => Max(AmMoves(records, k)) \in AmMoves(records, k)
    <2>1. k \in Nat BY DEF AmIsPrefix
    <2>2. AmMoves(records, k) \subseteq 1..k BY AmPrefixSets
    <2>3. \A i \in 1..k : i \in 0..k BY <2>1
    <2>4. QED BY <2>1, <2>2, <2>3, MaxIsIn
  <1>5. QED BY <1>2, <1>3, <1>4 DEF AmFrame, AmMoves

(* When one of the first records starts the leg, their frames are those of   *)
(* the ledger.                                                               *)
LEMMA AmFramesKept ==
    ASSUME NEW prefix, NEW records, NEW n, AmIsPrefix(prefix, records, n),
           AmStarting(prefix) # {}, NEW k \in 0..n
    PROVE  AmFrame(prefix, k) = AmFrame(records, k)
  <1>1. PICK S, T : S = AmStarting(prefix) /\ T = AmStarting(records) OBVIOUS
  <1>2. S = {j \in T : j <= n} /\ T \subseteq Nat /\ S # {} /\ n \in Nat
    BY <1>1, AmPrefixSets DEF AmIsPrefix
  <1>3. PICK a, b : a = Min(S) /\ b = Min(T) OBVIOUS
  <1>4. /\ a \in S /\ \A y \in S : a <= y
        /\ b \in T /\ \A y \in T : b <= y
    <2>1. S \subseteq Nat /\ T # {} BY <1>2
    <2>2. QED BY <1>2, <1>3, <2>1, MinIsIn
  <1>5. a = b
    <2>1. a \in T /\ b <= a /\ a <= n /\ a \in Nat /\ b \in Nat BY <1>2, <1>4
    <2>2. b \in S BY <1>2, <1>4, <2>1
    <2>3. a <= b BY <1>4, <2>2
    <2>4. QED BY <2>1, <2>3
  <1>6. a \in 1..n /\ T # {} BY <1>1, <1>2, <1>4 DEF AmStarting, AmIsPrefix
  <1>7. AmStartLeg(prefix) = AmStartLeg(records)
    BY <1>1, <1>2, <1>3, <1>5, <1>6 DEF AmStartLeg, AmIsPrefix
  <1>8. PICK M : M = AmMoves(records, k) OBVIOUS
  <1>9. AmMoves(prefix, k) = M /\ M \subseteq 1..k BY <1>8, AmPrefixSets
  <1>10. M # {} => prefix[Max(M)] = records[Max(M)]
    <2>1. k \in Nat /\ \A i \in 1..k : i \in 0..k /\ i \in 1..n BY DEF AmIsPrefix
    <2>2. M # {} => Max(M) \in M BY <1>9, <2>1, MaxIsIn
    <2>3. QED BY <1>9, <2>1, <2>2 DEF AmIsPrefix
  <1>11. k # 0 => prefix[k] = records[k]
    <2>1. k # 0 => k \in 1..n BY DEF AmIsPrefix
    <2>2. QED BY <2>1 DEF AmIsPrefix
  <1>12. QED BY <1>7, <1>8, <1>9, <1>10, <1>11 DEF AmFrame

(* When none does, no frame of theirs moves the leg: in the ledger it stays  *)
(* at its start, in the first records alone at the live value.               *)
LEMMA AmFramesStill ==
    ASSUME NEW prefix, NEW records, NEW n, AmIsPrefix(prefix, records, n),
           AmStarting(prefix) = {}, \A i \in 1..n : AmIsAdmissible(records, i)
    PROVE  /\ \A i \in 1..n : prefix[i].leg = ""
           /\ \A k \in 0..n : /\ AmFrame(prefix, k).law = AmFrame(records, k).law
                              /\ AmFrame(prefix, k) = [law |-> AmFrame(prefix, k).law, leg |-> AmLeg0]
                              /\ AmFrame(records, k) = [law |-> AmFrame(records, k).law,
                                                        leg |-> AmStartLeg(records)]
  <1>1. /\ n \in Nat /\ DOMAIN prefix = 1..n /\ \A i \in 1..n : prefix[i] = records[i]
        /\ \A i \in 1..n : i - 1 \in 0..n
    BY DEF AmIsPrefix
  <1>2. AmIsPrefix(records, records, Len(records)) /\ \A k \in 0..n : k \in 0..Len(records)
    <2> HIDE DEF AmRecord
    <2>1. QED BY DEF AmIsPrefix
  <1>3. ASSUME NEW i \in 1..n PROVE prefix[i].leg = ""
    <2>1. prefix[i].priorLeg = "" BY <1>1 DEF AmStarting
    <2>2. AmFrame(records, i - 1).leg \in AmLegs BY <1>1, <1>2, AmFrameLeg
    <2>3. AmFrame(records, i - 1).leg # "" BY <2>2, AmAssumption
    <2>4. records[i].leg # "" => records[i].priorLeg = AmFrame(records, i - 1).leg
      BY DEF AmIsAdmissible
    <2>5. QED BY <1>1, <2>1, <2>3, <2>4
  <1>4. ASSUME NEW k \in 0..n PROVE AmMoves(records, k) = {} /\ AmMoves(prefix, k) = {}
    <2>1. \A i \in 1..k : i \in 1..n BY <1>1
    <2>2. AmMoves(prefix, k) = AmMoves(records, k) /\ AmMoves(records, k) \subseteq 1..k
      BY AmPrefixSets
    <2>3. \A i \in AmMoves(prefix, k) : prefix[i].leg # "" BY DEF AmMoves
    <2>4. QED BY <1>3, <2>1, <2>2, <2>3
  <1>5. AmStartLeg(prefix) = AmLeg0 BY DEF AmStartLeg
  <1>6. ASSUME NEW k \in 0..n PROVE k # 0 => prefix[k] = records[k] BY <1>1
  <1>7. QED BY <1>3, <1>4, <1>5, <1>6 DEF AmFrame

(* A ledger that passes: so do its first records, once genesis is among them. *)
LEMMA AmPrefixPasses ==
    ASSUME NEW records \in Seq(AmRecord), AmPasses(records), NEW n \in 1..Len(records),
           AmHasGenesis(SubSeq(records, 1, n))
    PROVE  AmPasses(SubSeq(records, 1, n))
  <1>1. PICK prefix : prefix = SubSeq(records, 1, n) OBVIOUS
  <1>2. AmIsPrefix(prefix, records, n) BY <1>1, AmSubSeqPrefix
  <1>3. /\ n \in Nat /\ DOMAIN prefix = 1..n /\ \A i \in 1..n : prefix[i] = records[i]
        /\ \A i \in 1..n : i - 1 \in 0..n /\ i \in 0..n /\ i \in DOMAIN records
        /\ \A i \in 1..n : i # 1 => i - 1 \in 1..n
        /\ \A i \in 1..n : \A j \in 1..(i - 1) : j \in 0..n
    BY <1>2 DEF AmIsPrefix
  <1>4. \A i \in 1..n : AmIsAdmissible(records, i) BY <1>3 DEF AmPasses
  <1>5. ASSUME NEW i \in 1..n PROVE AmIsAdmissible(prefix, i)
    <2>1. /\ records[i].signed
          /\ records[i].priorLaw = AmFrame(records, i - 1).law
          /\ records[i].leg # "" => records[i].priorLeg = AmFrame(records, i - 1).leg
          /\ \A j \in 1..(i - 1) : AmFrame(records, j) # AmFrame(records, i)
          /\ records[i].prev # 0 => i # 1 /\ records[i].prev = records[i - 1].id
      BY <1>4 DEF AmIsAdmissible
    <2>2. prefix[i].prev # 0 => i # 1 /\ prefix[i].prev = prefix[i - 1].id BY <1>3, <2>1
    <2>3. CASE AmStarting(prefix) # {}
      <3>1. \A k \in 0..n : AmFrame(prefix, k) = AmFrame(records, k) BY <1>2, <2>3, AmFramesKept
      <3>2. QED BY <1>3, <2>1, <2>2, <3>1 DEF AmIsAdmissible
    <2>4. CASE AmStarting(prefix) = {}
      <3>1. /\ \A k \in 1..n : prefix[k].leg = ""
            /\ \A k \in 0..n : /\ AmFrame(prefix, k).law = AmFrame(records, k).law
                               /\ AmFrame(prefix, k) = [law |-> AmFrame(prefix, k).law, leg |-> AmLeg0]
                               /\ AmFrame(records, k) = [law |-> AmFrame(records, k).law,
                                                         leg |-> AmStartLeg(records)]
        BY <1>2, <1>4, <2>4, AmFramesStill
      <3>2. ASSUME NEW j \in 1..(i - 1) PROVE AmFrame(prefix, j) # AmFrame(prefix, i)
        <4>1. j \in 0..n /\ i \in 0..n BY <1>3
        <4>2. AmFrame(records, j).law # AmFrame(records, i).law BY <2>1, <3>1, <4>1
        <4>3. QED BY <3>1, <4>1, <4>2
      <3>3. prefix[i].priorLaw = AmFrame(prefix, i - 1).law BY <1>3, <2>1, <3>1
      <3>4. QED BY <1>3, <2>1, <2>2, <3>1, <3>2, <3>3 DEF AmIsAdmissible
    <2>5. QED BY <2>3, <2>4
  <1>6. QED BY <1>1, <1>3, <1>5 DEF AmPasses

(* A list was noted after each append that made it pass. *)
AmNoted(records) ==
    /\ records \in Seq(AmRecord)
    /\ \A n \in 1..Len(records) :
        AmPasses(SubSeq(records, 1, n)) => SubSeq(records, 1, n) \in amPassed

AmInv == AmTypeOK /\ \A records \in AmLedgers : AmNoted(records)

(* A list with one record more, noted. *)
LEMMA AmNotedAppend ==
    ASSUME NEW records \in Seq(AmRecord), AmNoted(records), NEW r \in AmRecord,
           AmNote(Append(records, r))
    PROVE  AmNoted(Append(records, r))'
  <1>1. PICK more, n : more = Append(records, r) /\ n = Len(records) OBVIOUS
  <1> HIDE DEF AmRecord
  <1>2. /\ n \in Nat /\ more \in Seq(AmRecord) /\ Len(more) = n + 1
        /\ \A i \in 1..n : more[i] = records[i]
    BY <1>1, AppendProperties, LenProperties
  <1>3. amPassed \subseteq amPassed' /\ (AmPasses(more) => more \in amPassed')
    BY <1>1 DEF AmNote
  <1>4. ASSUME NEW m \in 1..(n + 1), AmPasses(SubSeq(more, 1, m)) PROVE SubSeq(more, 1, m) \in amPassed'
    <2>1. CASE m = n + 1
      <3>1. SubSeq(more, 1, m) = more BY <1>2, <2>1, SubSeqFull
      <3>2. QED BY <1>3, <1>4, <3>1
    <2>2. CASE m # n + 1
      <3>1. m \in 1..n BY <1>2, <2>2
      <3>2. SubSeq(more, 1, m) = SubSeq(records, 1, m)
        <4>1. /\ AmIsPrefix(SubSeq(more, 1, m), more, m) /\ Len(SubSeq(more, 1, m)) = m
              /\ AmIsPrefix(SubSeq(records, 1, m), records, m) /\ Len(SubSeq(records, 1, m)) = m
          BY <1>1, <1>2, <1>4, <3>1, AmSubSeqPrefix
        <4>2. PICK s, t : s = SubSeq(more, 1, m) /\ t = SubSeq(records, 1, m) OBVIOUS
        <4>3. /\ s \in Seq(AmRecord) /\ t \in Seq(AmRecord) /\ Len(s) = m /\ Len(t) = m
              /\ \A i \in 1..m : s[i] = more[i] /\ t[i] = records[i]
          BY <4>1, <4>2 DEF AmIsPrefix
        <4>4. \A i \in 1..m : i \in 1..n BY <1>2, <3>1
        <4>5. \A i \in 1..Len(s) : s[i] = t[i] BY <1>2, <4>3, <4>4
        <4>6. s = t BY <4>3, <4>5, SeqEqual
        <4>7. QED BY <4>2, <4>6
      <3>3. SubSeq(records, 1, m) \in amPassed BY <1>1, <1>4, <3>1, <3>2 DEF AmNoted
      <3>4. QED BY <1>3, <3>2, <3>3
    <2>3. QED BY <2>1, <2>2
  <1>5. QED BY <1>1, <1>2, <1>4 DEF AmNoted

(* Nothing to note of no records. *)
LEMMA AmNotedEmpty == AmNoted(<<>>)
  <1>1. PICK e : e = <<>> OBVIOUS
  <1> HIDE DEF AmRecord
  <1>2. e \in Seq(AmRecord) /\ Len(e) = 0 BY <1>1
  <1>3. \A n \in 1..0 : FALSE OBVIOUS
  <1>4. AmNoted(e) BY <1>2, <1>3 DEF AmNoted
  <1>5. QED BY <1>1, <1>4

(* amPassed only grows. *)
LEMMA AmNotedKept ==
    ASSUME NEW records, AmNoted(records), amPassed \subseteq amPassed'
    PROVE  AmNoted(records)'
  <1> HIDE DEF AmRecord
  <1>1. QED BY DEF AmNoted

(* A step that replaces the list of p, and the file by it, by nothing or not *)
(* at all.                                                                   *)
LEMMA AmReplaces ==
    ASSUME AmInv, NEW p \in AmProcs, NEW left, amMem' = [amMem EXCEPT ![p] = left],
           amDisk' \in {left, <<>>, amDisk}, amTorn' \in BOOLEAN,
           AmNoted(left)', amPassed \subseteq amPassed', amPassed' \subseteq Seq(AmRecord)
    PROVE  AmInv'
  <1> HIDE DEF AmRecord
  <1>1. AmTypeOK /\ \A records \in AmLedgers : AmNoted(records) BY DEF AmInv
  <1>2. left \in Seq(AmRecord) BY DEF AmNoted
  <1>3. <<>> \in Seq(AmRecord) BY AmNotedEmpty DEF AmNoted
  <1>4. AmTypeOK' BY <1>1, <1>2, <1>3 DEF AmTypeOK
  <1>5. AmNoted(<<>>)' BY AmNotedEmpty, AmNotedKept
  <1>6. \A records \in AmLedgers' : records \in AmLedgers \/ records \in {left, <<>>}
    BY <1>1 DEF AmLedgers, AmTypeOK
  <1>7. ASSUME NEW records \in AmLedgers' PROVE AmNoted(records)'
    <2>1. CASE records \in AmLedgers BY <1>1, <2>1, AmNotedKept
    <2>2. CASE records = left BY <2>2
    <2>3. CASE records = <<>> BY <1>5, <2>3
    <2>4. QED BY <1>6, <2>1, <2>2, <2>3
  <1>8. QED BY <1>4, <1>7 DEF AmInv

(* Every list a process or the file holds was appended to one record at a    *)
(* time, and noted each time.                                                *)
THEOREM AmendmentsInvariance == AmSpec => []AmInv
  <1>1. ASSUME AmInit PROVE AmInv
    <2>1. PICK g : g = <<AmGenesis>> OBVIOUS
    <2>2. AmGenesis \in AmRecord
      <3>1. 1 \in Nat \ {0} /\ 0 \in Nat /\ TRUE \in BOOLEAN OBVIOUS
      <3>2. "" \in AmLegs \cup {""} /\ AmLaw0 \in AmLaws /\ AmLaw1 \in AmLaws BY AmAssumption
      <3>3. QED BY <3>1, <3>2, Zenon DEF AmGenesis, AmRecord
    <2> HIDE DEF AmRecord, AmGenesis
    <2>3. g \in Seq(AmRecord) /\ Len(g) = 1 BY <2>1, <2>2
    <2>4. amPassed = {g} /\ amDisk = g /\ amTorn = FALSE /\ amMem = [p \in AmProcs |-> <<>>]
      BY <1>1, <2>1 DEF AmInit
    <2>5. \A n \in 1..1 : SubSeq(g, 1, n) = g
      <3>1. SubSeq(g, 1, 1) = g BY <2>3, SubSeqFull
      <3>2. \A n \in 1..1 : n = 1 OBVIOUS
      <3>3. QED BY <3>1, <3>2
    <2>6. AmNoted(g) BY <2>3, <2>4, <2>5 DEF AmNoted
    <2>7. AmTypeOK
      <3>1. <<>> \in Seq(AmRecord) BY AmNotedEmpty DEF AmNoted
      <3>2. QED BY <2>3, <2>4, <3>1 DEF AmTypeOK
    <2>8. \A records \in AmLedgers : records = g \/ records = <<>> BY <2>4 DEF AmLedgers
    <2>9. QED BY <2>6, <2>7, <2>8, AmNotedEmpty DEF AmInv
  <1>2. ASSUME AmInv, [AmNext]_amVars PROVE AmInv'
    <2>1. AmTypeOK /\ \A records \in AmLedgers : AmNoted(records) BY <1>2 DEF AmInv
    <2> HIDE DEF AmRecord
    <2>2. AmNoted(amDisk) /\ \A p \in AmProcs : AmNoted(amMem[p]) /\ amMem[p] \in Seq(AmRecord)
      BY <2>1 DEF AmLedgers, AmNoted
    <2>3. ASSUME NEW p \in AmProcs, AmOpen(p) PROVE AmInv'
      <3>1. PICK new : new = IF amTorn THEN <<>> ELSE amDisk OBVIOUS
      <3>2. amMem' = [amMem EXCEPT ![p] = new] /\ UNCHANGED <<amDisk, amTorn, amPassed>>
        BY <2>3, <3>1 DEF AmOpen
      <3>3. AmNoted(new) BY <2>2, <3>1, AmNotedEmpty
      <3>4. AmNoted(new)' BY <3>2, <3>3, AmNotedKept
      <3>5. amTorn' \in BOOLEAN /\ amPassed' \subseteq Seq(AmRecord) BY <2>1, <3>2 DEF AmTypeOK
      <3>6. amPassed \subseteq amPassed' /\ amDisk' \in {new, <<>>, amDisk} BY <3>2
      <3>7. QED BY <1>2, <3>2, <3>4, <3>5, <3>6, AmReplaces
    <2>4. ASSUME NEW p \in AmProcs, NEW r \in AmRecords, NEW left,
                 left = <<>> \/ left = Append(amMem[p], r),
                 AmNote(left), amMem' = [amMem EXCEPT ![p] = left],
                 amDisk' \in {left, <<>>}, amTorn' \in BOOLEAN
          PROVE  AmInv'
      <3>1. r \in AmRecord BY AmAssumption
      <3>2. amPassed \subseteq amPassed' BY <2>4 DEF AmNote
      <3>3. AmNoted(left)'
        <4>1. CASE left = <<>>
          <5>1. AmNoted(<<>>)' BY <3>2, AmNotedEmpty, AmNotedKept
          <5>2. QED BY <4>1, <5>1
        <4>2. CASE left = Append(amMem[p], r)
          <5>1. AmNote(Append(amMem[p], r)) BY <2>4, <4>2
          <5>2. PICK m : m = amMem[p] OBVIOUS
          <5>3. AmNoted(Append(m, r))' BY <2>2, <3>1, <5>1, <5>2, AmNotedAppend
          <5>4. QED BY <4>2, <5>2, <5>3
        <4>3. QED BY <2>4, <4>1, <4>2
      <3>4. amPassed' \subseteq Seq(AmRecord)
        <4>1. left \in Seq(AmRecord) BY <3>3 DEF AmNoted
        <4>2. QED BY <2>1, <2>4, <4>1 DEF AmNote, AmTypeOK
      <3>5. amDisk' \in {left, <<>>, amDisk} BY <2>4
      <3>6. QED BY <1>2, <2>4, <3>2, <3>3, <3>4, <3>5, AmReplaces
    <2>5. ASSUME NEW p \in AmProcs, NEW r \in AmRecords, AmAppend(p, r) PROVE AmInv'
      <3>1. PICK left : left = Append(amMem[p], r) OBVIOUS
      <3>2. /\ AmNote(left) /\ amMem' = [amMem EXCEPT ![p] = left]
            /\ amDisk' = left /\ amTorn' \in BOOLEAN
        BY <2>5, <3>1 DEF AmAppend
      <3>3. QED BY <2>4, <3>1, <3>2
    <2>6. ASSUME NEW p \in AmProcs, NEW r \in AmRecords, AmTear(p, r) PROVE AmInv'
      <3>1. PICK left \in {Append(amMem[p], r), <<>>} :
                amMem' = [amMem EXCEPT ![p] = left] /\ AmNote(left)
        BY <2>6 DEF AmTear
      <3>2. amDisk' = <<>> /\ amTorn' \in BOOLEAN BY <2>6 DEF AmTear
      <3>3. QED BY <2>4, <3>1, <3>2
    <2>7. CASE UNCHANGED amVars
      <3>1. UNCHANGED <<amDisk, amTorn, amMem, amPassed>> BY <2>7 DEF amVars
      <3>2. AmLedgers' = AmLedgers /\ amPassed \subseteq amPassed' BY <3>1 DEF AmLedgers
      <3>3. AmTypeOK' BY <2>1, <3>1 DEF AmTypeOK
      <3>4. \A records \in AmLedgers' : AmNoted(records)' BY <2>1, <3>2, AmNotedKept
      <3>5. QED BY <3>3, <3>4 DEF AmInv
    <2>8. QED BY <1>2, <2>3, <2>5, <2>6, <2>7 DEF AmNext
  <1>3. QED BY <1>1, <1>2, PTL DEF AmSpec

(* AmPassedThroughout is an invariant: whatever is appended, by whichever    *)
(* process, wherever one overwrote the file or died, the walk of the gate    *)
(* admits no ledger that it refused with its last records missing, although  *)
(* it takes the start of a leg from records further on.                      *)
THEOREM LedgersPassedThroughout == AmSpec => []AmPassedThroughout
  <1>1. ASSUME AmInv PROVE AmPassedThroughout
    <2> SUFFICES ASSUME NEW records \in AmLedgers, AmPasses(records), NEW n \in DOMAIN records,
                        AmHasGenesis(SubSeq(records, 1, n))
                 PROVE  SubSeq(records, 1, n) \in amPassed
      BY DEF AmPassedThroughout
    <2> HIDE DEF AmRecord
    <2>1. AmNoted(records) /\ records \in Seq(AmRecord) BY <1>1 DEF AmInv, AmNoted
    <2>2. n \in 1..Len(records) BY <2>1, LenProperties
    <2>3. AmPasses(SubSeq(records, 1, n)) BY <2>1, <2>2, AmPrefixPasses
    <2>4. QED BY <2>1, <2>2, <2>3 DEF AmNoted
  <1>2. QED BY <1>1, AmendmentsInvariance, PTL

(* Two elements as a sequence. *)
LEMMA PairIsConcat == ASSUME NEW x, NEW y PROVE <<x>> \o <<y>> = <<x, y>>
  <1>1. PICK S, a, b, c : S = {x, y} /\ a = <<x>> /\ b = <<y>> /\ c = <<x, y>> OBVIOUS
  <1>2. a \in Seq(S) /\ b \in Seq(S) /\ c \in Seq(S) BY <1>1
  <1>3. Len(a) = 1 /\ Len(b) = 1 /\ Len(c) = 2 /\ a[1] = x /\ b[1] = y /\ c[1] = x /\ c[2] = y BY <1>1
  <1>4. PICK d : d = a \o b OBVIOUS
  <1>5. d \in Seq(S) /\ Len(d) = 2 /\ d[1] = x /\ d[2] = y
    <2>1. /\ d \in Seq(S) /\ Len(d) = Len(a) + Len(b)
          /\ \A i \in 1..(Len(a) + Len(b)) : d[i] = IF i <= Len(a) THEN a[i] ELSE b[i - Len(a)]
      BY <1>2, <1>4, ConcatProperties
    <2>2. Len(a) + Len(b) = 2 /\ 1 \in 1..2 /\ 2 \in 1..2 /\ 1 <= Len(a) /\ ~(2 <= Len(a)) /\ 2 - Len(a) = 1
      BY <1>3
    <2>3. QED BY <1>3, <2>1, <2>2
  <1>6. \A i \in 1..2 : d[i] = c[i] BY <1>3, <1>5
  <1>7. d = c BY <1>2, <1>3, <1>5, <1>6, SeqEqual
  <1>8. QED BY <1>1, <1>4, <1>7

-----------------------------------------------------------------------------
(* Provenance: the path of an authority is a walk up the edges.            *)

(* The walk stops at w: no edge into its first subject, or one seen before. *)
PvStuck(edges, w) == w[1] \notin DOMAIN edges \/ \E i \in 2..Len(w) : w[i] = w[1]

PvUp(edges, w) == IF PvStuck(edges, w) THEN w ELSE <<edges[w[1]].issuer>> \o w

PvDepth == Cardinality(PvAuthorities) + 1

(* The walks of up to n steps. *)
PvUpTo(edges, target, n, f) ==
    f = [k \in 0..n |-> IF k = 0 THEN <<target>> ELSE PvUp(edges, f[k - 1])]

(* The depth of the walk is positive. *)
LEMMA PvDepthNat == PvDepth \in Nat /\ PvDepth # 0 /\ PvDepth - 1 \in Nat
  <1>1. Cardinality(PvAuthorities) \in Nat BY PvAssumption, FS_CardinalityType
  <1>2. QED BY <1>1 DEF PvDepth

(* Each walk is one step from the one before it. *)
PvClimbs(edges, n, f) == \A k \in 1..n : f[k] = PvUp(edges, f[k - 1])

(* What PvUpTo says of each value. *)
LEMMA PvUpToValues ==
    ASSUME NEW edges, NEW target, NEW n \in Nat, NEW f, PvUpTo(edges, target, n, f)
    PROVE  f[0] = <<target>> /\ PvClimbs(edges, n, f)
  <1>1. 0 \in 0..n /\ \A k \in 1..n : k \in 0..n /\ k # 0 OBVIOUS
  <1>2. QED BY <1>1 DEF PvUpTo, PvClimbs

(* The loop of canonical_path() has a solution, for any number of steps. *)
LEMMA PvUpToExists ==
    ASSUME NEW edges, NEW target, NEW n \in Nat
    PROVE  \E f : PvUpTo(edges, target, n, f)
  <1>1. PICK T : T = {m \in Nat : \E f : PvUpTo(edges, target, m, f)} OBVIOUS
  <1>2. 0 \in T
    <2>1. PICK f : f = [k \in 0..0 |-> <<target>>] OBVIOUS
    <2>2. \A k \in 0..0 : k = 0 OBVIOUS
    <2>3. PvUpTo(edges, target, 0, f) BY <2>1, <2>2 DEF PvUpTo
    <2>4. QED BY <1>1, <2>3
  <1>3. ASSUME NEW m \in Nat, m \in T PROVE m + 1 \in T
    <2>1. PICK f : PvUpTo(edges, target, m, f) BY <1>1, <1>3
    <2>10. f[0] = <<target>> /\ PvClimbs(edges, m, f) BY <2>1, PvUpToValues
    <2>2. f[0] = <<target>> /\ \A k \in 1..m : f[k] = PvUp(edges, f[k - 1]) BY <2>10 DEF PvClimbs
    <2>3. PICK g : g = [k \in 0..(m + 1) |-> IF k = m + 1 THEN PvUp(edges, f[m]) ELSE f[k]] OBVIOUS
    <2>4. /\ \A k \in 0..(m + 1) : k = m + 1 \/ k \in 0..m
          /\ \A k \in 0..(m + 1) : k # 0 => k - 1 \in 0..m
          /\ \A k \in 0..m : k \in 0..(m + 1) /\ k # m + 1
          /\ m + 1 \in 0..(m + 1) /\ m + 1 # 0 /\ (m + 1) - 1 = m /\ m \in 0..m
          /\ \A k \in 0..m : k # 0 => k \in 1..m
      OBVIOUS
    <2>5. g[m + 1] = PvUp(edges, f[m]) /\ \A k \in 0..m : g[k] = f[k] BY <2>3, <2>4
    <2>6. \A k \in 0..(m + 1) : g[k] = IF k = 0 THEN <<target>> ELSE PvUp(edges, g[k - 1])
      <3> TAKE k \in 0..(m + 1)
      <3>1. CASE k = m + 1 BY <2>4, <2>5, <3>1
      <3>2. CASE k # m + 1
        <4>1. k \in 0..m /\ g[k] = f[k] BY <2>4, <2>5, <3>2
        <4>2. CASE k = 0 BY <2>2, <4>1, <4>2
        <4>3. CASE k # 0
          <5>1. k \in 1..m /\ g[k - 1] = f[k - 1] BY <2>4, <2>5, <4>1, <4>3
          <5>2. QED BY <2>2, <4>1, <4>3, <5>1
        <4>4. QED BY <4>2, <4>3
      <3>3. QED BY <3>1, <3>2
    <2>7. g = [k \in 0..(m + 1) |-> IF k = 0 THEN <<target>> ELSE PvUp(edges, g[k - 1])]
      BY <2>3, <2>6
    <2>8. QED BY <1>1, <2>7 DEF PvUpTo
  <1>4. \A m \in Nat : m \in T BY <1>2, <1>3, NatSetInduction
  <1>5. QED BY <1>1, <1>4

(* PvWalk is the last value of that solution. *)
LEMMA PvWalkIs ==
    ASSUME NEW edges, NEW target
    PROVE  \E f : PvUpTo(edges, target, PvDepth, f) /\ PvWalk(edges, target) = f[PvDepth]
  <1>1. PICK f : f = CHOOSE g : PvUpTo(edges, target, PvDepth, g) OBVIOUS
  <1>2. PvUpTo(edges, target, PvDepth, f) BY <1>1, PvDepthNat, PvUpToExists
  <1>3. PvWalk(edges, target) = f[PvDepth] BY <1>1 DEF PvWalk, PvUpTo, PvUp, PvStuck, PvDepth
  <1>4. QED BY <1>2, <1>3

(* What a walk is: it ends in its target, and above a subject is its issuer. *)
PvIsWalk(edges, target, w) ==
    /\ w \in Seq(PvName) /\ Len(w) >= 1 /\ w[Len(w)] = target
    /\ \A i \in 2..Len(w) : w[i] \in DOMAIN edges /\ w[i - 1] = edges[w[i]].issuer

(* A name put in front of a sequence. *)
LEMMA PvFront ==
    ASSUME NEW S, NEW w \in Seq(S), NEW x \in S
    PROVE  /\ <<x>> \o w \in Seq(S) /\ Len(<<x>> \o w) = Len(w) + 1
           /\ (<<x>> \o w)[1] = x /\ \A i \in 2..(Len(w) + 1) : (<<x>> \o w)[i] = w[i - 1]
  <1>1. PICK s, t, n : s = <<x>> /\ t = s \o w /\ n = Len(w) OBVIOUS
  <1>2. s \in Seq(S) /\ Len(s) = 1 /\ s[1] = x BY <1>1
  <1>3. n \in Nat BY <1>1, LenProperties
  <1>4. /\ t \in Seq(S) /\ Len(t) = 1 + n
        /\ \A i \in 1..(1 + n) : t[i] = IF i <= 1 THEN s[i] ELSE w[i - 1]
    BY <1>1, <1>2, ConcatProperties
  <1>5. 1 \in 1..(1 + n) /\ 1 + n = n + 1 /\ \A i \in 2..(n + 1) : i \in 1..(1 + n) /\ ~(i <= 1) BY <1>3
  <1>6. QED BY <1>1, <1>2, <1>4, <1>5

(* The issuer of a graph's edge is a name, and the root is no subject. *)
LEMMA PvGraphFacts ==
    ASSUME NEW edges \in PvGraph
    PROVE  /\ DOMAIN edges \subseteq PvAuthorities /\ "Governor" \notin DOMAIN edges
           /\ \A s \in DOMAIN edges : edges[s] \in PvEdge /\ edges[s].issuer \in PvName
  <1>1. PICK D \in SUBSET PvAuthorities : edges \in [D -> PvEdge] BY DEF PvGraph
  <1>2. \A s \in D : edges[s] \in PvEdge BY <1>1
  <1>3. \A s \in D : edges[s].issuer \in PvName BY <1>2 DEF PvEdge, PvName
  <1>4. QED BY <1>1, <1>2, <1>3, PvAssumption

(* One step of a walk. *)
LEMMA PvUpKeeps ==
    ASSUME NEW edges \in PvGraph, NEW target, NEW w, PvIsWalk(edges, target, w)
    PROVE  PvIsWalk(edges, target, PvUp(edges, w))
  <1>1. CASE PvStuck(edges, w) BY <1>1 DEF PvUp
  <1>2. CASE ~PvStuck(edges, w)
    <2>1. PICK c, x, t, n : c = w[1] /\ x = edges[c].issuer /\ t = <<x>> \o w /\ n = Len(w) OBVIOUS
    <2>2. PvUp(edges, w) = t BY <1>2, <2>1 DEF PvUp
    <2>3. c \in DOMAIN edges /\ x \in PvName BY <1>2, <2>1, PvGraphFacts DEF PvStuck
    <2>4. /\ w \in Seq(PvName) /\ n >= 1 /\ w[n] = target
          /\ \A i \in 2..n : w[i] \in DOMAIN edges /\ w[i - 1] = edges[w[i]].issuer
      BY <2>1 DEF PvIsWalk
    <2> HIDE DEF PvName
    <2>5. n \in Nat BY <2>1, <2>4, LenProperties
    <2>6. /\ t \in Seq(PvName) /\ Len(t) = n + 1 /\ t[1] = x
          /\ \A i \in 2..(n + 1) : t[i] = w[i - 1]
      BY <2>1, <2>3, <2>4, PvFront
    <2>7. t[n + 1] = target
      <3>1. n + 1 \in 2..(n + 1) /\ (n + 1) - 1 = n BY <2>4, <2>5
      <3>2. QED BY <2>4, <2>6, <3>1
    <2>8. ASSUME NEW i \in 2..(n + 1) PROVE t[i] \in DOMAIN edges /\ t[i - 1] = edges[t[i]].issuer
      <3>1. CASE i = 2
        <4>1. i - 1 = 1 /\ t[i] = c BY <2>1, <2>6, <2>8, <3>1
        <4>2. QED BY <2>1, <2>3, <2>6, <4>1
      <3>2. CASE i # 2
        <4>1. i - 1 \in 2..n /\ i - 1 \in 2..(n + 1) BY <2>5, <2>8, <3>2
        <4>2. t[i] = w[i - 1] /\ t[i - 1] = w[(i - 1) - 1] BY <2>6, <2>8, <4>1
        <4>3. QED BY <2>4, <4>1, <4>2
      <3>3. QED BY <3>1, <3>2
    <2>9. Len(t) >= 1 BY <2>5, <2>6
    <2>10. QED BY <2>2, <2>6, <2>7, <2>8, <2>9 DEF PvIsWalk
  <1>3. QED BY <1>1, <1>2

(* Every walk of the solution is one. *)
LEMMA PvUpToWalks ==
    ASSUME NEW edges \in PvGraph, NEW target \in PvName, NEW n \in Nat, NEW f, PvUpTo(edges, target, n, f)
    PROVE  \A k \in 0..n : PvIsWalk(edges, target, f[k])
  <1>1. f[0] = <<target>> /\ \A k \in 1..n : f[k] = PvUp(edges, f[k - 1]) BY PvUpToValues DEF PvClimbs
  <1>2. PICK T : T = {k \in Nat : k <= n => PvIsWalk(edges, target, f[k])} OBVIOUS
  <1>3. 0 \in T
    <2>1. PICK w : w = <<target>> OBVIOUS
    <2> HIDE DEF PvName
    <2>2. w \in Seq(PvName) /\ Len(w) = 1 /\ w[1] = target BY <2>1
    <2>3. PvIsWalk(edges, target, w) BY <2>2 DEF PvIsWalk
    <2>4. QED BY <1>1, <1>2, <2>1, <2>3
  <1>4. ASSUME NEW k \in Nat, k \in T PROVE k + 1 \in T
    <2>1. CASE k + 1 <= n
      <3>1. k + 1 \in 1..n /\ (k + 1) - 1 = k /\ k <= n BY <2>1
      <3>2. PvIsWalk(edges, target, f[k]) BY <1>2, <1>4, <3>1
      <3>3. f[k + 1] = PvUp(edges, f[k]) BY <1>1, <3>1
      <3>4. PvIsWalk(edges, target, f[k + 1]) BY <3>2, <3>3, PvUpKeeps
      <3>5. QED BY <1>2, <3>4
    <2>2. CASE ~(k + 1 <= n) BY <1>2, <2>2
    <2>3. QED BY <2>1, <2>2
  <1>5. \A k \in Nat : k \in T BY <1>3, <1>4, NatSetInduction
  <1>6. QED BY <1>2, <1>5

(* canonical_path() ends in its target, and above a subject is its issuer. *)
LEMMA PvWalkWalks ==
    ASSUME NEW edges \in PvGraph, NEW target \in PvName
    PROVE  PvIsWalk(edges, target, PvWalk(edges, target))
  <1>1. PICK f : PvUpTo(edges, target, PvDepth, f) /\ PvWalk(edges, target) = f[PvDepth] BY PvWalkIs
  <1>2. PvDepth \in Nat /\ PvDepth \in 0..PvDepth BY PvDepthNat
  <1>3. QED BY <1>1, <1>2, PvUpToWalks

(* A walk that is stuck stays what it is. *)
LEMMA PvStuckStays ==
    ASSUME NEW edges, NEW target, NEW n \in Nat, NEW f, PvUpTo(edges, target, n, f),
           NEW j \in 0..n, PvStuck(edges, f[j])
    PROVE  f[n] = f[j]
  <1>1. \A k \in 1..n : f[k] = PvUp(edges, f[k - 1]) BY PvUpToValues DEF PvClimbs
  <1>2. PICK T : T = {d \in Nat : j + d <= n => f[j + d] = f[j]} OBVIOUS
  <1>3. 0 \in T BY <1>2
  <1>4. ASSUME NEW d \in Nat, d \in T PROVE d + 1 \in T
    <2>1. CASE j + (d + 1) <= n
      <3>1. j + (d + 1) \in 1..n /\ (j + (d + 1)) - 1 = j + d /\ j + d <= n BY <2>1
      <3>2. f[j + d] = f[j] BY <1>2, <1>4, <3>1
      <3>3. f[j + (d + 1)] = PvUp(edges, f[j + d]) BY <1>1, <3>1
      <3>4. f[j + (d + 1)] = f[j] BY <3>2, <3>3 DEF PvUp
      <3>5. QED BY <1>2, <3>4
    <2>2. CASE ~(j + (d + 1) <= n) BY <1>2, <2>2
    <2>3. QED BY <2>1, <2>2
  <1>5. \A d \in Nat : d \in T BY <1>3, <1>4, NatSetInduction
  <1>6. n - j \in Nat /\ j + (n - j) = n OBVIOUS
  <1>7. n - j \in T BY <1>5, <1>6
  <1>8. QED BY <1>2, <1>6, <1>7

(* A walk with the target a below it takes the same step, unless the walk    *)
(* has come to a again.                                                      *)
LEMMA PvUpBelow ==
    ASSUME NEW edges \in PvGraph, NEW u \in Seq(PvName), Len(u) >= 1, NEW a \in PvName
    PROVE  /\ Append(u, a)[1] = u[1]
           /\ u[1] = a => PvStuck(edges, Append(u, a))
           /\ u[1] # a => PvUp(edges, Append(u, a)) = Append(PvUp(edges, u), a)
  <1>1. PICK n, w, c : n = Len(u) /\ w = Append(u, a) /\ c = u[1] OBVIOUS
  <1> HIDE DEF PvName
  <1>2. /\ n \in Nat /\ n >= 1 /\ w \in Seq(PvName) /\ Len(w) = n + 1 /\ w[n + 1] = a
        /\ \A i \in 1..n : w[i] = u[i]
    BY <1>1, LenProperties, AppendProperties
  <1>3. 1 \in 1..n /\ n + 1 \in 2..(n + 1) /\ \A i \in 2..(n + 1) : i = n + 1 \/ (i \in 2..n /\ i \in 1..n)
    BY <1>2
  <1>4. w[1] = c BY <1>1, <1>2, <1>3
  <1>5. c = a => PvStuck(edges, w) BY <1>2, <1>3, <1>4 DEF PvStuck
  <1>6. ASSUME c # a PROVE PvUp(edges, w) = Append(PvUp(edges, u), a)
    <2>1. PvStuck(edges, w) <=> PvStuck(edges, u)
      <3>1. \A i \in 2..n : i \in 2..(n + 1) /\ i \in 1..n BY <1>2
      <3>2. (\E i \in 2..(n + 1) : w[i] = c) <=> (\E i \in 2..n : u[i] = c) BY <1>2, <1>3, <1>6, <3>1
      <3>3. QED BY <1>1, <1>2, <1>4, <3>2 DEF PvStuck
    <2>2. CASE PvStuck(edges, u) BY <1>1, <2>1, <2>2 DEF PvUp
    <2>3. CASE ~PvStuck(edges, u)
      <3>1. PICK x : x = edges[c].issuer OBVIOUS
      <3>2. x \in PvName BY <1>1, <2>3, <3>1, PvGraphFacts DEF PvStuck
      <3>3. PICK s, t, v : s = <<x>> \o w /\ t = <<x>> \o u /\ v = Append(t, a) OBVIOUS
      <3>4. PvUp(edges, w) = s /\ PvUp(edges, u) = t BY <1>1, <1>4, <2>1, <2>3, <3>1, <3>3 DEF PvUp
      <3>5. /\ s \in Seq(PvName) /\ Len(s) = (n + 1) + 1 /\ s[1] = x
            /\ \A i \in 2..((n + 1) + 1) : s[i] = w[i - 1]
        BY <1>2, <3>2, <3>3, PvFront
      <3>6. /\ t \in Seq(PvName) /\ Len(t) = n + 1 /\ t[1] = x
            /\ \A i \in 2..(n + 1) : t[i] = u[i - 1]
        BY <1>1, <3>2, <3>3, PvFront
      <3>7. /\ v \in Seq(PvName) /\ Len(v) = (n + 1) + 1 /\ v[(n + 1) + 1] = a
            /\ \A i \in 1..(n + 1) : v[i] = t[i]
        BY <3>3, <3>6, AppendProperties
      <3>8. ASSUME NEW i \in 1..((n + 1) + 1) PROVE s[i] = v[i]
        <4>1. CASE i = 1
          <5>1. 1 \in 1..(n + 1) BY <1>2
          <5>2. QED BY <3>5, <3>6, <3>7, <4>1, <5>1
        <4>2. CASE i = (n + 1) + 1
          <5>1. i \in 2..((n + 1) + 1) /\ i - 1 = n + 1 BY <1>2, <4>2
          <5>2. QED BY <1>2, <3>5, <3>7, <4>2, <5>1
        <4>3. CASE i # 1 /\ i # (n + 1) + 1
          <5>1. i \in 2..((n + 1) + 1) /\ i \in 2..(n + 1) /\ i \in 1..(n + 1) /\ i - 1 \in 1..n
            BY <1>2, <3>8, <4>3
          <5>2. QED BY <1>2, <3>5, <3>6, <3>7, <5>1
        <4>4. QED BY <4>1, <4>2, <4>3
      <3>9. s = v BY <3>5, <3>7, <3>8, SeqEqual
      <3>10. QED BY <1>1, <3>3, <3>4, <3>9
    <2>4. QED BY <2>2, <2>3
  <1>7. QED BY <1>1, <1>4, <1>5, <1>6

(* The path of an authority that has one is its issuer's path and itself. *)
LEMMA PvWalkOfIssuer ==
    ASSUME NEW edges \in PvGraph, NEW a \in DOMAIN edges, PvHasPath(edges, a)
    PROVE  /\ PvHasPath(edges, edges[a].issuer)
           /\ PvWalk(edges, a) = Append(PvWalk(edges, edges[a].issuer), a)
  <1>1. PICK up, N : up = edges[a].issuer /\ N = PvDepth OBVIOUS
  <1>2. up \in PvName /\ a \in PvName /\ a # "Governor" /\ "Governor" \notin DOMAIN edges
    BY <1>1, PvGraphFacts DEF PvName
  <1>3. N \in Nat /\ N # 0 /\ N - 1 \in Nat BY <1>1, PvDepthNat
  <1>4. PICK f : PvUpTo(edges, a, N, f) /\ PvWalk(edges, a) = f[N] BY <1>1, PvWalkIs
  <1>5. PICK g : PvUpTo(edges, up, N, g) /\ PvWalk(edges, up) = g[N] BY <1>1, PvWalkIs
  <1>6. f[0] = <<a>> /\ PvClimbs(edges, N, f) BY <1>3, <1>4, PvUpToValues
  <1>7. \A k \in 1..N : f[k] = PvUp(edges, f[k - 1]) BY <1>6 DEF PvClimbs
  <1>8. g[0] = <<up>> /\ PvClimbs(edges, N, g) BY <1>3, <1>5, PvUpToValues
  <1>9. \A k \in 1..N : g[k] = PvUp(edges, g[k - 1]) BY <1>8 DEF PvClimbs
  <1>10. \A k \in 0..N : g[k] \in Seq(PvName) /\ Len(g[k]) >= 1
    BY <1>2, <1>3, <1>5, PvUpToWalks DEF PvIsWalk
  <1>11. f[N][1] = "Governor" BY <1>4 DEF PvHasPath
  <1>12. PICK T : T = {k \in Nat : k + 1 <= N => f[k + 1] = Append(g[k], a)} OBVIOUS
  <1>13. 0 \in T
    <2>1. ~PvStuck(edges, <<a>>)
      <3>1. PICK w : w = <<a>> OBVIOUS
      <3>2. w[1] = a /\ Len(w) = 1 BY <3>1
      <3>3. \A i \in 2..1 : FALSE OBVIOUS
      <3>4. ~PvStuck(edges, w) BY <3>2, <3>3 DEF PvStuck
      <3>5. QED BY <3>1, <3>4
    <2>2. PvUp(edges, <<a>>) = <<up>> \o <<a>> BY <1>1, <2>1 DEF PvUp
    <2>3. 1 \in 1..N /\ 1 - 1 = 0 BY <1>3
    <2>4. f[1] = PvUp(edges, f[0]) BY <1>7, <2>3
    <2>5. f[1] = <<up, a>> BY <1>6, <2>2, <2>4, PairIsConcat
    <2>6. Append(<<up>>, a) = <<up, a>>
      <3>1. PICK s, S : s = <<up>> /\ S = {up, a} OBVIOUS
      <3>2. s \in Seq(S) /\ a \in S BY <3>1
      <3>3. Append(s, a) = s \o <<a>> BY <3>2, AppendIsConcat
      <3>4. QED BY <3>1, <3>3, PairIsConcat
    <2>7. f[0 + 1] = Append(g[0], a) BY <1>8, <2>5, <2>6
    <2>8. QED BY <1>12, <2>7
  <1>14. ASSUME NEW k \in Nat, k \in T PROVE k + 1 \in T
    <2>1. CASE (k + 1) + 1 <= N
      <3>1. /\ k + 1 <= N /\ k + 1 \in 1..N /\ (k + 1) - 1 = k /\ k \in 0..N /\ k + 1 \in 0..N
            /\ (k + 1) + 1 \in 1..N /\ ((k + 1) + 1) - 1 = k + 1
        BY <1>3, <2>1
      <3>2. PICK u : u = g[k] OBVIOUS
      <3>3. f[k + 1] = Append(u, a) BY <1>12, <1>14, <3>1, <3>2
      <3>4. u \in Seq(PvName) /\ Len(u) >= 1 BY <1>10, <3>1, <3>2
      <3>5. /\ Append(u, a)[1] = u[1]
            /\ u[1] = a => PvStuck(edges, Append(u, a))
            /\ u[1] # a => PvUp(edges, Append(u, a)) = Append(PvUp(edges, u), a)
        BY <1>2, <3>4, PvUpBelow
      <3>6. u[1] # a
        <4>1. SUFFICES ASSUME u[1] = a PROVE FALSE OBVIOUS
        <4>2. PvStuck(edges, f[k + 1]) /\ f[k + 1][1] = a BY <3>3, <3>5, <4>1
        <4>3. f[N] = f[k + 1] BY <1>3, <1>4, <3>1, <4>2, PvStuckStays
        <4>4. QED BY <1>2, <1>11, <4>2, <4>3
      <3>7. f[(k + 1) + 1] = PvUp(edges, f[k + 1]) BY <1>7, <3>1
      <3>8. g[k + 1] = PvUp(edges, u) BY <1>9, <3>1, <3>2
      <3>9. f[(k + 1) + 1] = Append(g[k + 1], a) BY <3>3, <3>5, <3>6, <3>7, <3>8
      <3>10. QED BY <1>12, <3>9
    <2>2. CASE ~((k + 1) + 1 <= N) BY <1>12, <2>2
    <2>3. QED BY <2>1, <2>2
  <1>15. \A k \in Nat : k \in T BY <1>13, <1>14, NatSetInduction
  <1>16. f[N] = Append(g[N - 1], a)
    <2>1. N - 1 \in T /\ (N - 1) + 1 = N BY <1>3, <1>15
    <2>2. QED BY <1>3, <1>12, <2>1
  <1>17. N - 1 \in 0..N /\ N \in 1..N BY <1>3
  <1>18. g[N - 1][1] = "Governor"
    <2>1. PICK u : u = g[N - 1] OBVIOUS
    <2>2. u \in Seq(PvName) /\ Len(u) >= 1 BY <1>10, <1>17, <2>1
    <2>3. Append(u, a)[1] = u[1] BY <1>2, <2>2, PvUpBelow
    <2>4. QED BY <1>11, <1>16, <2>1, <2>3
  <1>19. g[N] = g[N - 1]
    <2>1. g[N] = PvUp(edges, g[N - 1]) BY <1>9, <1>17
    <2>2. PvStuck(edges, g[N - 1]) BY <1>2, <1>18 DEF PvStuck
    <2>3. QED BY <2>1, <2>2 DEF PvUp
  <1>20. QED BY <1>1, <1>4, <1>5, <1>16, <1>18, <1>19 DEF PvHasPath

(* The path of an authority that has one: it ends in the authority, and all  *)
(* of its subjects have an edge.                                             *)
LEMMA PvPathFacts ==
    ASSUME NEW edges \in PvGraph, NEW a \in PvAuthorities, PvHasPath(edges, a)
    PROVE  /\ PvPath(edges, a) \in Seq(PvName) /\ Len(PvPath(edges, a)) >= 1
           /\ Len(PvWalk(edges, a)) = Len(PvPath(edges, a)) + 1
           /\ PvPath(edges, a)[Len(PvPath(edges, a))] = a
           /\ \A i \in 1..Len(PvPath(edges, a)) :
                /\ PvPath(edges, a)[i] = PvWalk(edges, a)[i + 1]
                /\ PvPath(edges, a)[i] \in DOMAIN edges
  <1>1. PICK w, p, m : w = PvWalk(edges, a) /\ p = Tail(w) /\ m = Len(w) OBVIOUS
  <1>2. a \in PvName /\ a # "Governor" BY PvAssumption DEF PvName
  <1>3. /\ w \in Seq(PvName) /\ m >= 1 /\ w[m] = a /\ w[1] = "Governor"
        /\ \A i \in 2..m : w[i] \in DOMAIN edges
    BY <1>1, <1>2, PvWalkWalks DEF PvIsWalk, PvHasPath
  <1> HIDE DEF PvName
  <1>4. m \in Nat /\ m # 1 BY <1>1, <1>2, <1>3, LenProperties
  <1>5. w # <<>>
    <2>1. m # 0 BY <1>3, <1>4
    <2>2. QED BY <1>1, <2>1
  <1>6. p \in Seq(PvName) /\ Len(p) = m - 1 /\ \A i \in 1..Len(p) : p[i] = w[i + 1]
    BY <1>1, <1>3, <1>5, HeadTailProperties
  <1>7. m - 1 \in 1..(m - 1) /\ (m - 1) + 1 = m /\ m - 1 >= 1 /\ \A i \in 1..(m - 1) : i + 1 \in 2..m
    BY <1>3, <1>4
  <1>8. p[m - 1] = a BY <1>3, <1>6, <1>7
  <1>9. \A i \in 1..(m - 1) : p[i] \in DOMAIN edges BY <1>3, <1>6, <1>7
  <1>10. QED BY <1>1, <1>6, <1>7, <1>8, <1>9 DEF PvPath

(* In any graph, a path that verifies gives its target no more than its      *)
(* issuer holds, and the issuer's path verifies too.                         *)
LEMMA PvVerifiedAttenuates ==
    ASSUME NEW edges \in PvGraph, NEW now, NEW a \in DOMAIN edges, PvPathVerifies(edges, a, now)
    PROVE  /\ PvEffective(edges, a) \subseteq PvEffective(edges, edges[a].issuer)
           /\ edges[a].issuer # "Governor" => PvPathVerifies(edges, edges[a].issuer, now)
  <1>1. PICK up : up = edges[a].issuer OBVIOUS
  <1>2. /\ a \in PvAuthorities /\ a # "Governor" /\ up \in PvName /\ edges[a] \in PvEdge
    BY <1>1, PvGraphFacts, PvAssumption
  <1>3. edges[a].caps \subseteq PvCaps BY <1>2 DEF PvEdge
  <1>4. CASE up = "Governor" BY <1>1, <1>2, <1>3, <1>4 DEF PvEffective
  <1>5. CASE up # "Governor"
    <2>1. PICK w, u, p, q : /\ w = PvWalk(edges, a) /\ u = PvWalk(edges, up)
                            /\ p = PvPath(edges, a) /\ q = PvPath(edges, up)
      OBVIOUS
    <2>2. up \in PvAuthorities BY <1>2, <1>5 DEF PvName
    <2>3. PvHasPath(edges, a) BY DEF PvPathVerifies
    <2>4. /\ \A i \in DOMAIN p : edges[p[i]].good /\ PvUnexpired(edges[p[i]], now)
          /\ \A i \in DOMAIN p : edges[p[i]].caps \subseteq PvAbove(edges, p, i)
      BY <2>1 DEF PvPathVerifies, PvEscalates
    <2>5. PvHasPath(edges, up) /\ w = Append(u, a) BY <1>1, <2>1, <2>3, PvWalkOfIssuer
    <2>6. PICK n : n = Len(q) OBVIOUS
    <2>7. /\ q \in Seq(PvName) /\ n >= 1 /\ Len(u) = n + 1 /\ q[n] = up
          /\ \A i \in 1..n : q[i] = u[i + 1]
      BY <2>1, <2>2, <2>5, <2>6, PvPathFacts
    <2>8. p \in Seq(PvName) /\ Len(w) = Len(p) + 1 /\ \A i \in 1..Len(p) : p[i] = w[i + 1]
      BY <1>2, <2>1, <2>3, PvPathFacts
    <2>9. u \in Seq(PvName) /\ a \in PvName
      <3>1. PvIsWalk(edges, up, u) BY <1>2, <2>1, PvWalkWalks
      <3>2. QED BY <1>2, <3>1 DEF PvIsWalk, PvName
    <2> HIDE DEF PvName
    <2>10. n \in Nat /\ Len(p) \in Nat BY <2>6, <2>7, <2>8, LenProperties
    <2>11. /\ Len(w) = (n + 1) + 1 /\ w[(n + 1) + 1] = a /\ \A i \in 1..(n + 1) : w[i] = u[i]
      BY <2>5, <2>7, <2>9, AppendProperties
    <2>12. Len(p) = n + 1 BY <2>8, <2>10, <2>11
    <2>13. DOMAIN p = 1..(n + 1) /\ DOMAIN q = 1..n BY <2>6, <2>7, <2>8, <2>12, LenProperties
    <2>14. /\ n + 1 \in 1..(n + 1) /\ n + 1 # 1 /\ (n + 1) - 1 = n /\ n \in 1..n
           /\ \A i \in 1..n : i \in 1..(n + 1) /\ i + 1 \in 1..(n + 1) /\ (i # 1 => i - 1 \in 1..n)
      BY <2>7, <2>10
    <2>15. p[n + 1] = a BY <2>8, <2>11, <2>12, <2>14
    <2>16. \A i \in 1..n : p[i] = q[i] BY <2>7, <2>8, <2>11, <2>12, <2>14
    <2>17. edges[a].caps \subseteq edges[up].caps
      <3>1. PvAbove(edges, p, n + 1) = edges[p[n]].caps BY <2>14 DEF PvAbove
      <3>2. p[n] = up BY <2>7, <2>14, <2>16
      <3>3. edges[p[n + 1]].caps \subseteq PvAbove(edges, p, n + 1) BY <2>4, <2>13, <2>14
      <3>4. QED BY <2>15, <3>1, <3>2, <3>3
    <2>18. \A i \in DOMAIN q : edges[q[i]].good /\ PvUnexpired(edges[q[i]], now)
      BY <2>4, <2>13, <2>14, <2>16
    <2>19. ASSUME NEW i \in DOMAIN q PROVE edges[q[i]].caps \subseteq PvAbove(edges, q, i)
      <3>1. i \in 1..n /\ i \in DOMAIN p /\ p[i] = q[i] BY <2>13, <2>14, <2>16
      <3>2. PvAbove(edges, p, i) = PvAbove(edges, q, i) BY <2>14, <2>16, <3>1 DEF PvAbove
      <3>3. QED BY <2>4, <3>1, <3>2
    <2>20. PvPathVerifies(edges, up, now) BY <1>5, <2>1, <2>5, <2>18, <2>19 DEF PvPathVerifies, PvEscalates
    <2>21. QED BY <1>1, <1>2, <1>5, <2>17, <2>20 DEF PvEffective
  <1>6. QED BY <1>4, <1>5

(* A registered or default edge keeps the graph one. *)
LEMMA PvWithGraph ==
    ASSUME NEW edges \in PvGraph, NEW s \in PvAuthorities, NEW e \in PvEdge
    PROVE  PvWith(edges, s, e) \in PvGraph /\ DOMAIN PvWith(edges, s, e) = DOMAIN edges \cup {s}
  <1>1. PICK D \in SUBSET PvAuthorities : edges \in [D -> PvEdge] BY DEF PvGraph
  <1>2. PICK E : E = D \cup {s} OBVIOUS
  <1> HIDE DEF PvEdge
  <1>3. PvWith(edges, s, e) \in [E -> PvEdge] BY <1>1, <1>2 DEF PvWith
  <1>4. E \in SUBSET PvAuthorities BY <1>2
  <1>5. QED BY <1>1, <1>2, <1>3, <1>4 DEF PvGraph

(* The default edge is an edge, and the empty graph a graph. *)
LEMMA PvDefaults == PvDefaultEdge \in PvEdge /\ PvNoEdges \in PvGraph
  <1>1. PvMaxTime \in 0..PvMaxTime BY PvAssumption
  <1>2. PvDefaultEdge \in PvEdge BY <1>1 DEF PvDefaultEdge, PvEdge
  <1>3. [s \in {} |-> PvDefaultEdge] \in [{} -> PvEdge] /\ {} \in SUBSET PvAuthorities OBVIOUS
  <1>4. QED BY <1>2, <1>3 DEF PvGraph, PvNoEdges

(* The graph as a reader leaves it, which adds a default for a name that is  *)
(* not there, is a graph with an edge for the name.                          *)
LEMMA PvWrittenGraph ==
    ASSUME NEW old \in PvGraph, NEW a \in PvAuthorities, NEW edges,
           edges = IF a \in DOMAIN old \/ a = "Governor" THEN old ELSE PvWith(old, a, PvDefaultEdge)
    PROVE  edges \in PvGraph /\ a \in DOMAIN edges
  <1>0. a # "Governor" BY PvAssumption
  <1>1. CASE a \in DOMAIN old BY <1>1
  <1>2. CASE a \notin DOMAIN old
    <2>1. PICK e : e = PvDefaultEdge OBVIOUS
    <2>2. e \in PvEdge BY <2>1, PvDefaults
    <2>3. PvWith(old, a, e) \in PvGraph /\ DOMAIN PvWith(old, a, e) = DOMAIN old \cup {a}
      BY <2>2, PvWithGraph
    <2>4. edges = PvWith(old, a, e) BY <1>0, <1>2, <2>1
    <2>5. QED BY <2>3, <2>4
  <1>3. QED BY <1>1, <1>2

(* A path that is there stays what it is when edges are only added. *)
LEMMA PvWalkKept ==
    ASSUME NEW old \in PvGraph, NEW new \in PvGraph, NEW a \in PvAuthorities, PvHasPath(old, a),
           \A s \in DOMAIN old : s \in DOMAIN new /\ new[s] = old[s]
    PROVE  PvWalk(new, a) = PvWalk(old, a)
  <1>1. PICK N : N = PvDepth OBVIOUS
  <1>2. N \in Nat BY <1>1, PvDepthNat
  <1>3. PICK f : PvUpTo(old, a, N, f) /\ PvWalk(old, a) = f[N] BY <1>1, PvWalkIs
  <1>4. PICK g : PvUpTo(new, a, N, g) /\ PvWalk(new, a) = g[N] BY <1>1, PvWalkIs
  <1>5. f[0] = <<a>> /\ \A k \in 1..N : f[k] = PvUp(old, f[k - 1])
    BY <1>2, <1>3, PvUpToValues DEF PvClimbs
  <1>6. g[0] = <<a>> /\ \A k \in 1..N : g[k] = PvUp(new, g[k - 1])
    <2>1. g[0] = <<a>> /\ PvClimbs(new, N, g) BY <1>2, <1>4, PvUpToValues
    <2>2. QED BY <2>1 DEF PvClimbs
  <1>7. f[N][1] = "Governor" BY <1>3 DEF PvHasPath
  <1>8. "Governor" \notin DOMAIN new BY PvGraphFacts
  <1>9. PICK T : T = {k \in Nat : k <= N => g[k] = f[k]} OBVIOUS
  <1>10. 0 \in T BY <1>5, <1>6, <1>9
  <1>11. ASSUME NEW k \in Nat, k \in T PROVE k + 1 \in T
    <2>1. CASE k + 1 <= N
      <3>1. k + 1 \in 1..N /\ (k + 1) - 1 = k /\ k <= N /\ k \in 0..N BY <1>2, <2>1
      <3>2. PICK w : w = f[k] OBVIOUS
      <3>3. g[k] = w BY <1>9, <1>11, <3>1, <3>2
      <3>4. f[k + 1] = PvUp(old, w) /\ g[k + 1] = PvUp(new, w) BY <1>5, <1>6, <3>1, <3>2, <3>3
      <3>5. CASE PvStuck(old, w)
        <4>1. f[N] = w BY <1>2, <1>3, <3>1, <3>2, <3>5, PvStuckStays
        <4>2. PvStuck(new, w) BY <1>7, <1>8, <4>1 DEF PvStuck
        <4>3. PvUp(new, w) = PvUp(old, w) BY <3>5, <4>2 DEF PvUp
        <4>4. QED BY <1>9, <3>4, <4>3
      <3>6. CASE ~PvStuck(old, w)
        <4>1. w[1] \in DOMAIN old /\ w[1] \in DOMAIN new /\ new[w[1]] = old[w[1]] BY <3>6 DEF PvStuck
        <4>2. ~PvStuck(new, w) BY <3>6, <4>1 DEF PvStuck
        <4>3. PvUp(new, w) = PvUp(old, w) BY <3>6, <4>1, <4>2 DEF PvUp
        <4>4. QED BY <1>9, <3>4, <4>3
      <3>7. QED BY <3>5, <3>6
    <2>2. CASE ~(k + 1 <= N) BY <1>9, <2>2
    <2>3. QED BY <2>1, <2>2
  <1>12. \A k \in Nat : k \in T BY <1>10, <1>11, NatSetInduction
  <1>13. QED BY <1>2, <1>3, <1>4, <1>9, <1>12

(* What the two walks of a write read of a path does not change either. *)
LEMMA PvPathKept ==
    ASSUME NEW old \in PvGraph, NEW new \in PvGraph, NEW a \in PvAuthorities, PvHasPath(old, a),
           \A s \in DOMAIN old : s \in DOMAIN new /\ new[s] = old[s]
    PROVE  /\ PvHasPath(new, a) /\ PvPath(new, a) = PvPath(old, a)
           /\ PvEffective(new, a) = PvEffective(old, a)
           /\ PvEscalates(new, PvPath(new, a)) = PvEscalates(old, PvPath(old, a))
           /\ PvEdgesOf(new, PvPath(new, a)) = PvEdgesOf(old, PvPath(old, a))
  <1>1. PICK p, n : p = PvPath(old, a) /\ n = Len(p) OBVIOUS
  <1>2. PvWalk(new, a) = PvWalk(old, a) BY PvWalkKept
  <1>3. PvHasPath(new, a) /\ PvPath(new, a) = p BY <1>1, <1>2 DEF PvHasPath, PvPath
  <1>4. p \in Seq(PvName) /\ n >= 1 /\ p[n] = a /\ \A i \in 1..n : p[i] \in DOMAIN old
    BY <1>1, PvPathFacts
  <1>5. n \in Nat /\ DOMAIN p = 1..n
    <2> HIDE DEF PvName
    <2>1. QED BY <1>1, <1>4, LenProperties
  <1>6. \A i \in DOMAIN p : new[p[i]] = old[p[i]] BY <1>4, <1>5
  <1>7. a \in DOMAIN old
    <2>1. n \in 1..n BY <1>4, <1>5
    <2>2. QED BY <1>4, <2>1
  <1>8. PvEffective(new, a) = PvEffective(old, a) BY <1>7 DEF PvEffective
  <1>9. ASSUME NEW i \in DOMAIN p PROVE PvAbove(new, p, i) = PvAbove(old, p, i)
    <2>1. i # 1 => i - 1 \in DOMAIN p BY <1>5
    <2>2. QED BY <1>6, <2>1 DEF PvAbove
  <1>10. PvEscalates(new, p) = PvEscalates(old, p) BY <1>6, <1>9 DEF PvEscalates
  <1>11. PvEdgesOf(new, p) = PvEdgesOf(old, p)
    <2>1. PICK S : S = {p[i] : i \in DOMAIN p} OBVIOUS
    <2>2. \A s \in S : new[s] = old[s] BY <1>6, <2>1
    <2>3. [s \in S |-> new[s]] = [s \in S |-> old[s]] BY <2>2
    <2>4. QED BY <2>1, <2>3 DEF PvEdgesOf
  <1>12. QED BY <1>1, <1>3, <1>8, <1>10, <1>11

(* What a receipt takes from a walk is of its type. *)
LEMMA PvReadTypes ==
    ASSUME NEW edges \in PvGraph, NEW a \in PvAuthorities, PvHasPath(edges, a)
    PROVE  /\ PvPath(edges, a) \in Seq(PvName) /\ PvEffective(edges, a) \in SUBSET PvCaps
           /\ PvEdgesOf(edges, PvPath(edges, a)) \in PvGraph /\ a \in DOMAIN edges
  <1>1. PICK p, n : p = PvPath(edges, a) /\ n = Len(p) OBVIOUS
  <1>2. p \in Seq(PvName) /\ n >= 1 /\ p[n] = a /\ \A i \in 1..n : p[i] \in DOMAIN edges
    BY <1>1, PvPathFacts
  <1>3. n \in Nat /\ DOMAIN p = 1..n
    <2> HIDE DEF PvName
    <2>1. QED BY <1>1, <1>2, LenProperties
  <1>4. a \in DOMAIN edges
    <2>1. n \in 1..n BY <1>2, <1>3
    <2>2. QED BY <1>2, <2>1
  <1>5. a # "Governor" /\ edges[a] \in PvEdge BY <1>4, PvAssumption, PvGraphFacts
  <1>6. PvEffective(edges, a) \in SUBSET PvCaps BY <1>5 DEF PvEffective, PvEdge
  <1>7. PvEdgesOf(edges, p) \in PvGraph
    <2>1. PICK S : S = {p[i] : i \in DOMAIN p} OBVIOUS
    <2>2. S \in SUBSET PvAuthorities /\ \A s \in S : edges[s] \in PvEdge
      BY <1>2, <1>3, <2>1, PvGraphFacts
    <2> HIDE DEF PvEdge
    <2>3. [s \in S |-> edges[s]] \in [S -> PvEdge] BY <2>2
    <2>4. QED BY <2>1, <2>2, <2>3 DEF PvEdgesOf, PvGraph
  <1>8. QED BY <1>1, <1>2, <1>4, <1>6, <1>7

(* The blank receipt, and the place of no write, are of their types. *)
LEMMA PvBlankTypes ==
    /\ PvIdle \in PvPlace /\ PvIdle.at = "idle"
    /\ \A a \in PvName : PvBlank(a) \in PvCommit /\ PvBlank(a).authority = a
  <1>1. <<>> \in Seq(PvName) BY EmptySeq
  <1>2. PvNoEdges \in PvGraph BY PvDefaults
  <1>3. ASSUME NEW a \in PvName PROVE PvBlank(a) \in PvCommit /\ PvBlank(a).authority = a
    <2> HIDE DEF PvName, PvGraph
    <2>1. QED BY <1>1, <1>2 DEF PvBlank, PvCommit, PvPolicies, PvKeyIds
  <1>4. "Governor" \in PvName BY DEF PvName
  <1>5. PvIdle \in PvPlace /\ PvIdle.at = "idle"
    <2>1. PvBlank("Governor") \in PvCommit BY <1>3, <1>4
    <2> HIDE DEF PvCommit
    <2>2. QED BY <2>1 DEF PvIdle, PvPlace, PvLookups
  <1>6. QED BY <1>3, <1>5

(* A default keeps the registries of their types. *)
LEMMA PvFillTypes ==
    ASSUME PvTypeOK, NEW of, NEW a \in PvAuthorities, PvFillIn(of, a)
    PROVE  pvEdges' \in PvGraph /\ pvPolicy' \in PvPolicies /\ pvKeys' \in [PvAuthorities -> PvKeyIds]
  <1>1. pvEdges \in PvGraph /\ pvPolicy \in PvPolicies /\ pvKeys \in [PvAuthorities -> PvKeyIds]
    BY DEF PvTypeOK
  <1>2. PvWith(pvEdges, a, PvDefaultEdge) \in PvGraph BY <1>1, PvWithGraph, PvDefaults
  <1>3. pvEdges' \in PvGraph BY <1>1, <1>2 DEF PvFillIn
  <1>4. pvPolicy' \in PvPolicies BY <1>1 DEF PvFillIn, PvPolicies
  <1>5. pvKeys' \in [PvAuthorities -> PvKeyIds] BY <1>1 DEF PvFillIn, PvKeyIds
  <1>6. QED BY <1>3, <1>4, <1>5

(* Steps from outside the write leave it, the clock and the receipts alone. *)
LEMMA PvOutsideTypes ==
    ASSUME PvTypeOK, PvOutside
    PROVE  /\ pvEdges' \in PvGraph /\ pvPolicy' \in PvPolicies /\ pvKeys' \in [PvAuthorities -> PvKeyIds]
           /\ UNCHANGED <<pvTime, pvWork, pvReceipts>>
  <1>1. pvEdges \in PvGraph /\ pvPolicy \in PvPolicies /\ pvKeys \in [PvAuthorities -> PvKeyIds]
    BY DEF PvTypeOK
  <1>2. ASSUME NEW s \in PvAuthorities, NEW e \in PvRegistrable, PvRegisterEdge(s, e)
        PROVE  pvEdges' \in PvGraph /\ UNCHANGED <<pvPolicy, pvKeys, pvTime, pvWork, pvReceipts>>
    <2>1. e \in PvEdge BY PvAssumption
    <2>2. QED BY <1>1, <1>2, <2>1, PvWithGraph DEF PvRegisterEdge
  <1>3. CASE PvClearGraph BY <1>1, <1>3, PvDefaults DEF PvClearGraph
  <1>4. CASE PvClearKeys BY <1>1, <1>4 DEF PvClearKeys, PvKeyIds
  <1>5. ASSUME NEW p \in {"signed", "foreign", "absent"}, PvRegisterPolicy(p)
        PROVE  pvPolicy' \in PvPolicies /\ UNCHANGED <<pvEdges, pvKeys, pvTime, pvWork, pvReceipts>>
    BY <1>5 DEF PvRegisterPolicy, PvPolicies
  <1>6. ASSUME NEW s \in PvAuthorities, PvRegisterKey(s)
        PROVE  /\ pvKeys' \in [PvAuthorities -> PvKeyIds]
               /\ UNCHANGED <<pvEdges, pvPolicy, pvTime, pvWork, pvReceipts>>
    BY <1>1, <1>6 DEF PvRegisterKey, PvKeyIds
  <1>7. ASSUME NEW of \in {"policy", "key", "objs"}, NEW a \in PvAuthorities, PvOtherFills(of, a)
        PROVE  /\ pvEdges' \in PvGraph /\ pvPolicy' \in PvPolicies
               /\ pvKeys' \in [PvAuthorities -> PvKeyIds] /\ UNCHANGED <<pvTime, pvWork, pvReceipts>>
    BY <1>7, PvFillTypes DEF PvOtherFills
  <1>8. QED BY <1>1, <1>2, <1>3, <1>4, <1>5, <1>6, <1>7 DEF PvOutside

(* What each step of the write makes of its place. *)
PvMovedTo(w, at) == [w EXCEPT !.at = at]
PvWithPolicy(w, x) == [w EXCEPT !.at = "test", !.of = "key", !.receipt.policy = x]
PvWithKey(w, x) == [w EXCEPT !.at = "test", !.of = "objs", !.receipt.key = x]
PvWithCaps(w, c, e) ==
    [w EXCEPT !.at = "test", !.of = "chain", !.receipt.caps = c, !.escalates = e]
PvWithChain(w, c, e) == [w EXCEPT !.at = "row", !.receipt.chain = c, !.receipt.edges = e]

(* The steps before the walks, field by field. *)
LEMMA PvPlaceStep ==
    ASSUME NEW w \in PvPlace
    PROVE  /\ \A at \in {"test", "fill", "read"} :
                /\ PvMovedTo(w, at) \in PvPlace /\ PvMovedTo(w, at).at = at
                /\ PvMovedTo(w, at).of = w.of /\ PvMovedTo(w, at).escalates = w.escalates
                /\ PvMovedTo(w, at).receipt = w.receipt
           /\ \A x \in PvPolicies :
                /\ PvWithPolicy(w, x) \in PvPlace /\ PvWithPolicy(w, x).at = "test"
                /\ PvWithPolicy(w, x).of = "key"
                /\ PvWithPolicy(w, x).receipt.authority = w.receipt.authority
                /\ PvWithPolicy(w, x).receipt.policy = x
           /\ \A x \in PvKeyIds :
                /\ PvWithKey(w, x) \in PvPlace /\ PvWithKey(w, x).at = "test"
                /\ PvWithKey(w, x).of = "objs"
                /\ PvWithKey(w, x).receipt.authority = w.receipt.authority
                /\ PvWithKey(w, x).receipt.key = x
                /\ PvWithKey(w, x).receipt.policy = w.receipt.policy
  <1> HIDE DEF PvName, PvGraph
  <1>1. w.receipt \in PvCommit /\ w.of \in PvLookups /\ w.escalates \in BOOLEAN BY DEF PvPlace
  <1>2. \A x \in PvPolicies :
            LET r == [w.receipt EXCEPT !.policy = x]
            IN  r \in PvCommit /\ r.authority = w.receipt.authority /\ r.policy = x
    BY <1>1 DEF PvCommit
  <1>3. \A x \in PvKeyIds :
            LET r == [w.receipt EXCEPT !.key = x]
            IN  /\ r \in PvCommit /\ r.authority = w.receipt.authority /\ r.key = x
                /\ r.policy = w.receipt.policy
    BY <1>1 DEF PvCommit
  <1> HIDE DEF PvCommit
  <1>4. ASSUME NEW at \in {"test", "fill", "read"}
        PROVE  /\ PvMovedTo(w, at) \in PvPlace /\ PvMovedTo(w, at).at = at
               /\ PvMovedTo(w, at).of = w.of /\ PvMovedTo(w, at).escalates = w.escalates
               /\ PvMovedTo(w, at).receipt = w.receipt
    BY DEF PvPlace, PvMovedTo
  <1>5. ASSUME NEW x \in PvPolicies
        PROVE  /\ PvWithPolicy(w, x) \in PvPlace /\ PvWithPolicy(w, x).at = "test"
               /\ PvWithPolicy(w, x).of = "key"
               /\ PvWithPolicy(w, x).receipt.authority = w.receipt.authority
               /\ PvWithPolicy(w, x).receipt.policy = x
    BY <1>1, <1>2 DEF PvPlace, PvLookups, PvWithPolicy
  <1>6. ASSUME NEW x \in PvKeyIds
        PROVE  /\ PvWithKey(w, x) \in PvPlace /\ PvWithKey(w, x).at = "test"
               /\ PvWithKey(w, x).of = "objs"
               /\ PvWithKey(w, x).receipt.authority = w.receipt.authority
               /\ PvWithKey(w, x).receipt.key = x
               /\ PvWithKey(w, x).receipt.policy = w.receipt.policy
    BY <1>1, <1>3 DEF PvPlace, PvLookups, PvWithKey
  <1>7. QED BY <1>4, <1>5, <1>6

(* The same of the first walk. *)
LEMMA PvCapsStep ==
    ASSUME NEW w \in PvPlace, NEW c \in SUBSET PvCaps, NEW e \in BOOLEAN
    PROVE  /\ PvWithCaps(w, c, e) \in PvPlace /\ PvWithCaps(w, c, e).at = "test"
           /\ PvWithCaps(w, c, e).of = "chain" /\ PvWithCaps(w, c, e).escalates = e
           /\ PvWithCaps(w, c, e).receipt.authority = w.receipt.authority
           /\ PvWithCaps(w, c, e).receipt.caps = c
           /\ PvWithCaps(w, c, e).receipt.policy = w.receipt.policy
           /\ PvWithCaps(w, c, e).receipt.key = w.receipt.key
  <1> HIDE DEF PvName, PvGraph
  <1>1. w.receipt \in PvCommit /\ w.of \in PvLookups BY DEF PvPlace
  <1>2. PICK r : r = [w.receipt EXCEPT !.caps = c] OBVIOUS
  <1>3. /\ r \in PvCommit /\ r.authority = w.receipt.authority /\ r.caps = c
        /\ r.policy = w.receipt.policy /\ r.key = w.receipt.key
    BY <1>1, <1>2 DEF PvCommit
  <1> HIDE DEF PvCommit
  <1>4. QED BY <1>1, <1>2, <1>3 DEF PvPlace, PvLookups, PvWithCaps

(* The same of the second. *)
LEMMA PvChainStep ==
    ASSUME NEW w \in PvPlace, NEW c \in Seq(PvName), NEW e \in PvGraph
    PROVE  /\ PvWithChain(w, c, e) \in PvPlace /\ PvWithChain(w, c, e).at = "row"
           /\ PvWithChain(w, c, e).of = w.of /\ PvWithChain(w, c, e).escalates = w.escalates
           /\ PvWithChain(w, c, e).receipt.chain = c /\ PvWithChain(w, c, e).receipt.edges = e
           /\ PvWithChain(w, c, e).receipt.authority = w.receipt.authority
           /\ PvWithChain(w, c, e).receipt.caps = w.receipt.caps
           /\ PvWithChain(w, c, e).receipt.policy = w.receipt.policy
           /\ PvWithChain(w, c, e).receipt.key = w.receipt.key
  <1> HIDE DEF PvName, PvGraph
  <1>1. w.receipt \in PvCommit BY DEF PvPlace
  <1>2. PICK r : r = [w.receipt EXCEPT !.chain = c, !.edges = e] OBVIOUS
  <1>3. /\ r \in PvCommit /\ r.authority = w.receipt.authority /\ r.chain = c /\ r.edges = e
        /\ r.caps = w.receipt.caps /\ r.policy = w.receipt.policy /\ r.key = w.receipt.key
    BY <1>1, <1>2 DEF PvCommit
  <1> HIDE DEF PvCommit
  <1>4. PICK v : v = [w EXCEPT !.at = "row", !.receipt = r] OBVIOUS
  <1>5. PvWithChain(w, c, e) = v BY <1>2, <1>4 DEF PvPlace, PvWithChain
  <1>6. v \in PvPlace /\ v.at = "row" /\ v.of = w.of /\ v.escalates = w.escalates /\ v.receipt = r
    BY <1>3, <1>4 DEF PvPlace
  <1>7. QED BY <1>3, <1>5, <1>6

(* What the write under way has read so far is what the registries hold. *)
PvDrafted(w, edges, policy, keys) ==
    LET a == w.receipt.authority
    IN  /\ w.of # "policy" => policy # "absent" /\ w.receipt.policy = policy
        /\ w.of \in {"objs", "chain"} => keys[a] # "absent" /\ w.receipt.key = keys[a]
        /\ w.of = "chain" =>
                /\ PvHasPath(edges, a) /\ w.receipt.caps = PvEffective(edges, a)
                /\ w.escalates = PvEscalates(edges, PvPath(edges, a))
        /\ w.at = "row" =>
                /\ w.of = "chain" /\ w.receipt.chain = PvPath(edges, a)
                /\ w.receipt.edges = PvEdgesOf(edges, PvPath(edges, a))

(* The types, and the draft of a write that no entry changed under. *)
PvInv ==
    /\ PvTypeOK
    /\ pvQuiet /\ pvWork.at # "idle" => PvDrafted(pvWork, pvEdges, pvPolicy, pvKeys)

(* New entries leave a draft true. *)
LEMMA PvDraftKept ==
    ASSUME PvTypeOK, pvWork.at # "idle", PvKept, pvEdges' \in PvGraph,
           PvDrafted(pvWork, pvEdges, pvPolicy, pvKeys)
    PROVE  PvDrafted(pvWork, pvEdges', pvPolicy', pvKeys')
  <1>1. PICK w, a, old, new : w = pvWork /\ a = w.receipt.authority /\ old = pvEdges /\ new = pvEdges' OBVIOUS
  <1>2. a \in PvAuthorities /\ old \in PvGraph /\ new \in PvGraph BY <1>1 DEF PvTypeOK
  <1>3. \A s \in DOMAIN old : s \in DOMAIN new /\ new[s] = old[s] BY <1>1 DEF PvKept
  <1>4. w.of # "policy" => pvPolicy' # "absent" /\ w.receipt.policy = pvPolicy'
    BY <1>1 DEF PvDrafted, PvKept
  <1>5. w.of \in {"objs", "chain"} => pvKeys'[a] # "absent" /\ w.receipt.key = pvKeys'[a]
    BY <1>1, <1>2 DEF PvDrafted, PvKept
  <1>6. /\ w.of = "chain" =>
                /\ PvHasPath(old, a) /\ w.receipt.caps = PvEffective(old, a)
                /\ w.escalates = PvEscalates(old, PvPath(old, a))
        /\ w.at = "row" =>
                /\ w.of = "chain" /\ w.receipt.chain = PvPath(old, a)
                /\ w.receipt.edges = PvEdgesOf(old, PvPath(old, a))
    BY <1>1 DEF PvDrafted
  <1>7. w.of = "chain" =>
           /\ PvHasPath(new, a) /\ PvPath(new, a) = PvPath(old, a)
           /\ PvEffective(new, a) = PvEffective(old, a)
           /\ PvEscalates(new, PvPath(new, a)) = PvEscalates(old, PvPath(old, a))
           /\ PvEdgesOf(new, PvPath(new, a)) = PvEdgesOf(old, PvPath(old, a))
    BY <1>2, <1>3, <1>6, PvPathKept
  <1>8. /\ w.of = "chain" =>
                /\ PvHasPath(new, a) /\ w.receipt.caps = PvEffective(new, a)
                /\ w.escalates = PvEscalates(new, PvPath(new, a))
        /\ w.at = "row" =>
                /\ w.of = "chain" /\ w.receipt.chain = PvPath(new, a)
                /\ w.receipt.edges = PvEdgesOf(new, PvPath(new, a))
    BY <1>6, <1>7
  <1>9. PvDrafted(w, new, pvPolicy', pvKeys') BY <1>1, <1>4, <1>5, <1>8 DEF PvDrafted
  <1>10. QED BY <1>1, <1>9

(* A step of the write that changes no registry keeps the invariant, if its  *)
(* new place is of its type and its draft, when there is one, still true.    *)
LEMMA PvWorkKeeps ==
    ASSUME PvInv, pvQuiet' = (pvWork.at = "idle" \/ (pvQuiet /\ PvKept)), pvChanges' = pvChanges,
           UNCHANGED <<pvEdges, pvPolicy, pvKeys, pvTime, pvReceipts>>,
           pvWork' \in PvPlace, pvWork'.at # "idle" => pvWork'.receipt.authority \in PvAuthorities,
           (pvWork.at = "idle" \/ pvQuiet) /\ pvWork'.at # "idle"
                => PvDrafted(pvWork', pvEdges, pvPolicy, pvKeys)
    PROVE  PvInv'
  <1>1. PvTypeOK' BY DEF PvInv, PvTypeOK
  <1>2. pvQuiet' => pvWork.at = "idle" \/ pvQuiet OBVIOUS
  <1>3. QED BY <1>1, <1>2 DEF PvInv

(* The first steps of a write and its lookups of the policy and the key. *)
LEMMA PvLookupSteps ==
    ASSUME PvInv, pvQuiet' = (pvWork.at = "idle" \/ (pvQuiet /\ PvKept)), pvChanges' = pvChanges,
           (\E a \in PvAuthorities : PvBegin(a)) \/ PvTest \/ PvReadPolicy \/ PvReadKey \/ PvReadFails
    PROVE  PvInv'
  <1>1. /\ pvWork \in PvPlace /\ pvPolicy \in PvPolicies /\ pvKeys \in [PvAuthorities -> PvKeyIds]
        /\ pvWork.at # "idle" => pvWork.receipt.authority \in PvAuthorities
        /\ pvQuiet /\ pvWork.at # "idle" => PvDrafted(pvWork, pvEdges, pvPolicy, pvKeys)
    BY DEF PvInv, PvTypeOK
  <1>2. PICK w, v : w = pvWork /\ v = pvWork' OBVIOUS
  <1>3. ASSUME NEW a \in PvAuthorities, PvBegin(a) PROVE PvInv'
    <2>1. a \in PvName BY DEF PvName
    <2>2. PvIdle \in PvPlace /\ PvBlank(a) \in PvCommit /\ PvBlank(a).authority = a BY <2>1, PvBlankTypes
    <2>3. v = [at |-> "test", of |-> "policy", escalates |-> FALSE, receipt |-> PvBlank(a)]
      BY <1>2, <1>3 DEF PvBegin, PvIdle
    <2>4. v \in PvPlace /\ v.at = "test" /\ v.of = "policy" /\ v.receipt = PvBlank(a)
      <3> HIDE DEF PvCommit
      <3>1. QED BY <2>2, <2>3 DEF PvPlace, PvLookups
    <2>5. PvDrafted(v, pvEdges, pvPolicy, pvKeys) BY <2>4 DEF PvDrafted
    <2>6. UNCHANGED <<pvEdges, pvPolicy, pvKeys, pvTime, pvReceipts>> BY <1>3 DEF PvBegin
    <2>7. QED BY <1>2, <2>2, <2>4, <2>5, <2>6, PvWorkKeeps
  <1>4. CASE PvTest
    <2>1. PICK at : at \in {"read", "fill"} /\ v = PvMovedTo(w, at) BY <1>2, <1>4 DEF PvTest, PvMovedTo
    <2>2. v \in PvPlace /\ v.at = at /\ v.of = w.of /\ v.escalates = w.escalates /\ v.receipt = w.receipt
      BY <1>1, <1>2, <2>1, PvPlaceStep
    <2>3. w.at = "test" /\ UNCHANGED <<pvEdges, pvPolicy, pvKeys, pvTime, pvReceipts>> BY <1>2, <1>4 DEF PvTest
    <2>4. pvQuiet => PvDrafted(v, pvEdges, pvPolicy, pvKeys)
      BY <1>1, <1>2, <2>1, <2>2, <2>3 DEF PvDrafted
    <2>5. QED BY <1>1, <1>2, <2>1, <2>2, <2>3, <2>4, PvWorkKeeps
  <1>5. CASE PvReadPolicy
    <2>1. /\ w.at = "read" /\ w.of = "policy" /\ pvPolicy # "absent"
          /\ v = PvWithPolicy(w, pvPolicy)
          /\ UNCHANGED <<pvEdges, pvPolicy, pvKeys, pvTime, pvReceipts>>
      BY <1>2, <1>5 DEF PvReadPolicy, PvReads, PvWithPolicy
    <2>2. /\ v \in PvPlace /\ v.at = "test" /\ v.of = "key"
          /\ v.receipt.authority = w.receipt.authority /\ v.receipt.policy = pvPolicy
      BY <1>1, <1>2, <2>1, PvPlaceStep
    <2>3. PvDrafted(v, pvEdges, pvPolicy, pvKeys) BY <2>1, <2>2 DEF PvDrafted
    <2>4. QED BY <1>1, <1>2, <2>1, <2>2, <2>3, PvWorkKeeps
  <1>6. CASE PvReadKey
    <2>1. PICK a, key : a = w.receipt.authority /\ key = pvKeys[a] OBVIOUS
    <2>2. /\ w.at = "read" /\ w.of = "key" /\ key # "absent"
          /\ v = PvWithKey(w, key)
          /\ UNCHANGED <<pvEdges, pvPolicy, pvKeys, pvTime, pvReceipts>>
      BY <1>2, <1>6, <2>1 DEF PvReadKey, PvReads, PvWithKey
    <2>3. a \in PvAuthorities /\ key \in PvKeyIds BY <1>1, <1>2, <2>1, <2>2
    <2>4. /\ v \in PvPlace /\ v.at = "test" /\ v.of = "objs"
          /\ v.receipt.authority = a /\ v.receipt.key = key /\ v.receipt.policy = w.receipt.policy
      BY <1>1, <1>2, <2>1, <2>2, <2>3, PvPlaceStep
    <2>5. pvQuiet => pvPolicy # "absent" /\ w.receipt.policy = pvPolicy
      BY <1>1, <1>2, <2>2 DEF PvDrafted
    <2>6. pvQuiet => PvDrafted(v, pvEdges, pvPolicy, pvKeys) BY <2>1, <2>2, <2>4, <2>5 DEF PvDrafted
    <2>7. QED BY <1>1, <1>2, <2>2, <2>3, <2>4, <2>6, PvWorkKeeps
  <1>7. CASE PvReadFails
    <2>1. v = PvIdle /\ UNCHANGED <<pvEdges, pvPolicy, pvKeys, pvTime, pvReceipts>>
      BY <1>2, <1>7 DEF PvReadFails
    <2>2. v \in PvPlace /\ v.at = "idle" BY <2>1, PvBlankTypes
    <2>3. QED BY <1>2, <2>1, <2>2, PvWorkKeeps
  <1>8. QED BY <1>3, <1>4, <1>5, <1>6, <1>7

(* The two walks. *)
LEMMA PvWalkSteps ==
    ASSUME PvInv, pvQuiet' = (pvWork.at = "idle" \/ (pvQuiet /\ PvKept)), pvChanges' = pvChanges,
           PvReadObjs \/ PvReadChain
    PROVE  PvInv'
  <1>1. /\ pvWork \in PvPlace /\ pvEdges \in PvGraph
        /\ pvWork.at # "idle" => pvWork.receipt.authority \in PvAuthorities
        /\ pvQuiet /\ pvWork.at # "idle" => PvDrafted(pvWork, pvEdges, pvPolicy, pvKeys)
    BY DEF PvInv, PvTypeOK
  <1>2. PICK w, v, a, path : /\ w = pvWork /\ v = pvWork' /\ a = w.receipt.authority
                             /\ path = PvPath(pvEdges, a)
    OBVIOUS
  <1>3. w.at = "read" /\ PvHasPath(pvEdges, a) /\ UNCHANGED <<pvEdges, pvPolicy, pvKeys, pvTime, pvReceipts>>
    BY <1>2 DEF PvReadObjs, PvReadChain, PvReads
  <1>4. a \in PvAuthorities BY <1>1, <1>2, <1>3
  <1>5. path \in Seq(PvName) /\ PvEffective(pvEdges, a) \in SUBSET PvCaps /\ PvEdgesOf(pvEdges, path) \in PvGraph
    BY <1>1, <1>2, <1>3, <1>4, PvReadTypes
  <1>6. /\ pvQuiet /\ w.of # "policy" => pvPolicy # "absent" /\ w.receipt.policy = pvPolicy
        /\ pvQuiet /\ w.of \in {"objs", "chain"} => pvKeys[a] # "absent" /\ w.receipt.key = pvKeys[a]
        /\ pvQuiet /\ w.of = "chain" =>
                /\ w.receipt.caps = PvEffective(pvEdges, a) /\ w.escalates = PvEscalates(pvEdges, path)
    BY <1>1, <1>2, <1>3 DEF PvDrafted
  <1>7. CASE PvReadObjs
    <2>1. PICK c, e : c = PvEffective(pvEdges, a) /\ e = PvEscalates(pvEdges, path) OBVIOUS
    <2>2. e \in BOOLEAN BY <2>1 DEF PvEscalates
    <2>3. w.of = "objs" /\ v = PvWithCaps(w, c, e)
      BY <1>2, <1>7, <2>1 DEF PvReadObjs, PvReads, PvWithCaps
    <2>4. /\ v \in PvPlace /\ v.at = "test" /\ v.of = "chain" /\ v.escalates = e
          /\ v.receipt.authority = a /\ v.receipt.caps = c
          /\ v.receipt.policy = w.receipt.policy /\ v.receipt.key = w.receipt.key
      <3>1. c \in SUBSET PvCaps BY <1>5, <2>1
      <3>2. w \in PvPlace BY <1>1, <1>2
      <3>3. QED BY <1>2, <2>2, <2>3, <3>1, <3>2, PvCapsStep
    <2>5. pvQuiet => PvDrafted(v, pvEdges, pvPolicy, pvKeys)
      BY <1>2, <1>3, <1>6, <2>1, <2>3, <2>4 DEF PvDrafted
    <2>6. QED BY <1>2, <1>3, <1>4, <2>4, <2>5, PvWorkKeeps
  <1>8. CASE PvReadChain
    <2>1. PICK e : e = PvEdgesOf(pvEdges, path) OBVIOUS
    <2>2. w.of = "chain" /\ v = PvWithChain(w, path, e)
      BY <1>2, <1>8, <2>1 DEF PvReadChain, PvReads, PvWithChain
    <2>3. /\ v \in PvPlace /\ v.at = "row" /\ v.of = w.of /\ v.escalates = w.escalates
          /\ v.receipt.chain = path /\ v.receipt.edges = e
          /\ v.receipt.authority = a /\ v.receipt.caps = w.receipt.caps
          /\ v.receipt.policy = w.receipt.policy /\ v.receipt.key = w.receipt.key
      <3>1. w \in PvPlace /\ e \in PvGraph BY <1>1, <1>2, <1>5, <2>1
      <3>2. QED BY <1>2, <1>5, <2>2, <3>1, PvChainStep
    <2>4. pvQuiet => PvDrafted(v, pvEdges, pvPolicy, pvKeys)
      BY <1>2, <1>3, <1>6, <2>1, <2>2, <2>3 DEF PvDrafted
    <2>5. QED BY <1>2, <1>3, <1>4, <2>3, <2>4, PvWorkKeeps
  <1>9. QED BY <1>7, <1>8

(* A default filled in by the write itself. *)
LEMMA PvFillStep ==
    ASSUME PvInv, pvQuiet' = (pvWork.at = "idle" \/ (pvQuiet /\ PvKept)), pvChanges' = pvChanges, PvFill
    PROVE  PvInv'
  <1>1. /\ PvTypeOK /\ pvWork \in PvPlace /\ pvWork.at = "fill" /\ pvWork.receipt.authority \in PvAuthorities
        /\ pvQuiet => PvDrafted(pvWork, pvEdges, pvPolicy, pvKeys)
    BY DEF PvInv, PvTypeOK, PvFill
  <1>2. /\ PvFillIn(pvWork.of, pvWork.receipt.authority) /\ UNCHANGED <<pvTime, pvReceipts>>
        /\ pvWork' = PvMovedTo(pvWork, "read")
    BY DEF PvFill, PvMovedTo
  <1>3. pvEdges' \in PvGraph /\ pvPolicy' \in PvPolicies /\ pvKeys' \in [PvAuthorities -> PvKeyIds]
    BY <1>1, <1>2, PvFillTypes
  <1>4. /\ pvWork' \in PvPlace /\ pvWork'.at = "read" /\ pvWork'.of = pvWork.of
        /\ pvWork'.escalates = pvWork.escalates /\ pvWork'.receipt = pvWork.receipt
    BY <1>1, <1>2, PvPlaceStep
  <1>5. PvTypeOK' BY <1>1, <1>2, <1>3, <1>4 DEF PvTypeOK
  <1>6. ASSUME pvQuiet' PROVE PvDrafted(pvWork', pvEdges', pvPolicy', pvKeys')
    <2>1. pvQuiet /\ PvKept BY <1>1, <1>6
    <2>2. PvDrafted(pvWork, pvEdges', pvPolicy', pvKeys') BY <1>1, <1>3, <2>1, PvDraftKept
    <2>3. QED BY <1>1, <1>4, <2>2 DEF PvDrafted
  <1>7. QED BY <1>5, <1>6 DEF PvInv

(* The row, or the refusal of an escalation. *)
LEMMA PvWriteKeeps ==
    ASSUME PvInv, pvQuiet' = (pvWork.at = "idle" \/ (pvQuiet /\ PvKept)), pvChanges' = pvChanges, PvWrite
    PROVE  PvInv'
  <1>1. PICK r : r = [pvWork.receipt EXCEPT !.root = pvReceipts = <<>>] OBVIOUS
  <1>2. pvWork.receipt \in PvCommit /\ pvReceipts \in Seq(PvCommit)
    <2>1. pvWork \in PvPlace /\ pvReceipts \in Seq(PvCommit) BY DEF PvInv, PvTypeOK
    <2>2. QED BY <2>1 DEF PvPlace
  <1>3. r \in PvCommit
    <2> HIDE DEF PvName, PvGraph
    <2>1. QED BY <1>1, <1>2 DEF PvCommit
  <1>4. pvReceipts' = pvReceipts \/ pvReceipts' = Append(pvReceipts, r) BY <1>1 DEF PvWrite
  <1>5. pvReceipts' \in Seq(PvCommit)
    <2> HIDE DEF PvCommit
    <2>1. QED BY <1>2, <1>3, <1>4, AppendProperties
  <1>6. pvWork' \in PvPlace /\ pvWork'.at = "idle" BY PvBlankTypes DEF PvWrite
  <1>7. UNCHANGED <<pvEdges, pvPolicy, pvKeys, pvTime>> BY DEF PvWrite
  <1>8. PvTypeOK' BY <1>5, <1>6, <1>7 DEF PvInv, PvTypeOK
  <1>9. QED BY <1>6, <1>8 DEF PvInv

(* A step outside the write, or a tick. *)
LEMMA PvOutsideKeeps ==
    ASSUME PvInv, pvQuiet' = (pvWork.at = "idle" \/ (pvQuiet /\ PvKept)),
           \/ PvOutside /\ pvChanges < PvMaxChanges /\ pvChanges' = pvChanges + 1
           \/ PvTick /\ pvChanges' = pvChanges
    PROVE  PvInv'
  <1>1. PvTypeOK BY DEF PvInv
  <1>2. /\ pvEdges' \in PvGraph /\ pvPolicy' \in PvPolicies /\ pvKeys' \in [PvAuthorities -> PvKeyIds]
        /\ UNCHANGED <<pvWork, pvReceipts>>
    <2>1. CASE PvOutside BY <1>1, <2>1, PvOutsideTypes
    <2>2. CASE PvTick BY <1>1, <2>2 DEF PvTick, PvTypeOK
    <2>3. QED BY <2>1, <2>2
  <1>3. pvTime' \in 0..PvMaxTime
    <2>1. CASE PvOutside BY <1>1, <2>1, PvOutsideTypes DEF PvTypeOK
    <2>2. CASE PvTick BY <1>1, <2>2, PvAssumption DEF PvTick, PvTypeOK
    <2>3. QED BY <2>1, <2>2
  <1>4. pvChanges' \in 0..PvMaxChanges BY <1>1, PvAssumption DEF PvTypeOK
  <1>5. PvTypeOK' BY <1>1, <1>2, <1>3, <1>4 DEF PvTypeOK
  <1>6. ASSUME pvQuiet', pvWork'.at # "idle" PROVE PvDrafted(pvWork', pvEdges', pvPolicy', pvKeys')
    <2>1. pvWork.at # "idle" /\ pvQuiet /\ PvKept BY <1>2, <1>6
    <2>2. PvDrafted(pvWork, pvEdges, pvPolicy, pvKeys) BY <2>1 DEF PvInv
    <2>3. PvDrafted(pvWork, pvEdges', pvPolicy', pvKeys') BY <1>1, <1>2, <2>1, <2>2, PvDraftKept
    <2>4. QED BY <1>2, <2>3
  <1>7. QED BY <1>5, <1>6 DEF PvInv

(* The registries, the write under way and the receipts keep their types,    *)
(* and a write under which no entry was replaced or removed holds exactly    *)
(* what the registries hold.                                                 *)
THEOREM ProvenanceInvariance == PvSpec => []PvInv
  <1>1. PvInit => PvInv
    <2> SUFFICES ASSUME PvInit PROVE PvInv OBVIOUS
    <2>1. PvNoEdges \in PvGraph /\ PvIdle \in PvPlace /\ PvIdle.at = "idle" BY PvDefaults, PvBlankTypes
    <2>2. <<>> \in Seq(PvCommit) BY EmptySeq
    <2>3. 0 \in 0..PvMaxTime /\ 0 \in 0..PvMaxChanges BY PvAssumption
    <2>4. PvTypeOK BY <2>1, <2>2, <2>3 DEF PvInit, PvTypeOK, PvPolicies, PvKeyIds
    <2>5. QED BY <2>1, <2>4 DEF PvInit, PvInv
  <1>2. PvInv /\ [PvNext]_pvVars => PvInv'
    <2> SUFFICES ASSUME PvInv, [PvNext]_pvVars PROVE PvInv' OBVIOUS
    <2>1. CASE UNCHANGED pvVars
      <3>1. PvTypeOK' BY <2>1 DEF pvVars, PvInv, PvTypeOK
      <3>2. QED BY <2>1, <3>1 DEF pvVars, PvInv
    <2>2. CASE PvNext
      <3>1. pvQuiet' = (pvWork.at = "idle" \/ (pvQuiet /\ PvKept)) BY <2>2 DEF PvNext
      <3>2. CASE \/ PvOutside /\ pvChanges < PvMaxChanges /\ pvChanges' = pvChanges + 1
                 \/ PvTick /\ pvChanges' = pvChanges
        BY <3>1, <3>2, PvOutsideKeeps
      <3>3. CASE PvWriteStep /\ pvChanges' = pvChanges
        BY <3>1, <3>3, PvLookupSteps, PvWalkSteps, PvFillStep, PvWriteKeeps DEF PvWriteStep
      <3>4. QED BY <2>2, <3>2, <3>3 DEF PvNext
    <2>3. QED BY <2>1, <2>2
  <1>3. QED BY <1>1, <1>2, PTL DEF PvSpec

(* Whatever was registered or cleared, an authority whose path verifies      *)
(* holds no capability its issuer does not hold, up to the root.             *)
THEOREM PathsAttenuate == PvSpec => []PvAttenuated
  <1>1. ASSUME PvInv PROVE PvAttenuated BY <1>1, PvVerifiedAttenuates DEF PvInv, PvTypeOK, PvAttenuated
  <1>2. QED BY <1>1, ProvenanceInvariance, PTL

(* The clock does not run backwards. *)
LEMMA PvTimeMoves ==
    ASSUME PvInv, [PvNext]_pvVars
    PROVE  pvTime \in Nat /\ pvTime' \in Nat /\ pvTime <= pvTime'
  <1>1. pvTime \in Nat /\ PvTypeOK BY PvAssumption DEF PvInv, PvTypeOK
  <1>2. pvTime' \in {pvTime, pvTime + 1}
    <2>1. CASE UNCHANGED pvVars BY <2>1 DEF pvVars
    <2>2. CASE PvTick BY <2>2 DEF PvTick
    <2>3. CASE PvOutside BY <1>1, <2>3, PvOutsideTypes
    <2>4. CASE PvWriteStep
      BY <2>4 DEF PvWriteStep, PvBegin, PvTest, PvFill, PvReadFails, PvReadPolicy, PvReadKey,
                  PvReadObjs, PvReadChain, PvWrite
    <2>5. QED BY <2>1, <2>2, <2>3, <2>4 DEF PvNext
  <1>3. QED BY <1>1, <1>2

(* A path that verifies at some time verifies at every earlier one. *)
LEMMA PvVerifiedEarlier ==
    ASSUME NEW edges \in PvGraph, NEW a \in PvAuthorities, NEW now \in Nat, NEW later \in Nat,
           now <= later, PvPathVerifies(edges, a, later)
    PROVE  PvPathVerifies(edges, a, now)
  <1>1. PICK p : p = PvPath(edges, a) OBVIOUS
  <1>2. PvHasPath(edges, a) /\ a # "Governor" BY DEF PvPathVerifies
  <1>3. p \in Seq(PvName) /\ \A i \in 1..Len(p) : p[i] \in DOMAIN edges BY <1>1, <1>2, PvPathFacts
  <1>4. DOMAIN p = 1..Len(p)
    <2> HIDE DEF PvName
    <2>1. QED BY <1>3, LenProperties
  <1>5. \A i \in DOMAIN p : edges[p[i]] \in PvEdge BY <1>3, <1>4, PvGraphFacts
  <1>6. /\ \A i \in DOMAIN p : edges[p[i]].good /\ PvUnexpired(edges[p[i]], later)
        /\ ~PvEscalates(edges, p)
    BY <1>1 DEF PvPathVerifies
  <1>7. ASSUME NEW i \in DOMAIN p PROVE edges[p[i]].good /\ PvUnexpired(edges[p[i]], now)
    <2>1. PICK u : u = edges[p[i]].until OBVIOUS
    <2>2. u \in Nat BY <1>5, <2>1, PvAssumption DEF PvEdge
    <2>3. later <= u BY <1>6, <2>1 DEF PvUnexpired
    <2>4. now <= u BY <2>2, <2>3
    <2>5. QED BY <1>6, <2>1, <2>4 DEF PvUnexpired
  <1>8. QED BY <1>1, <1>2, <1>6, <1>7 DEF PvPathVerifies

(* With the graph and the policy's standing as they were, a verdict of D_c   *)
(* turns only from accepted to refused: no step of a write, and no tick,     *)
(* makes a refused authority acceptable.                                     *)
THEOREM VerdictsOnlyWorsen == PvSpec => PvVerdictMonotone
  <1>1. ASSUME PvInv, [PvNext]_pvVars, NEW a \in PvAuthorities, pvEdges' = pvEdges,
               (pvPolicy' = "foreign") = (pvPolicy = "foreign"), PvDc(a, pvTime)'
        PROVE  PvDc(a, pvTime)
    <2>1. PICK now, later : now = pvTime /\ later = pvTime' OBVIOUS
    <2>2. now \in Nat /\ later \in Nat /\ now <= later BY <1>1, <2>1, PvTimeMoves
    <2>3. PICK edges : edges = PvFilled(pvEdges, a) OBVIOUS
    <2>4. pvEdges \in PvGraph BY <1>1 DEF PvInv, PvTypeOK
    <2>5. edges \in PvGraph
      <3>1. edges = IF a \in DOMAIN pvEdges \/ a = "Governor" THEN pvEdges
                    ELSE PvWith(pvEdges, a, PvDefaultEdge)
        BY <2>3 DEF PvFilled
      <3>2. QED BY <2>4, <3>1, PvWrittenGraph
    <2>6. PvPathVerifies(edges, a, later) /\ pvPolicy' # "foreign"
      BY <1>1, <2>1, <2>3 DEF PvDc
    <2>7. PvPathVerifies(edges, a, now) BY <2>2, <2>5, <2>6, PvVerifiedEarlier
    <2>8. QED BY <1>1, <2>1, <2>3, <2>6, <2>7 DEF PvDc
  <1>2. ASSUME PvInv, [PvNext]_pvVars
        PROVE  [pvVars' # pvVars /\ pvEdges' = pvEdges /\ (pvPolicy' = "foreign") = (pvPolicy = "foreign")
                 => \A a \in PvAuthorities : PvDc(a, pvTime)' => PvDc(a, pvTime)]_pvVars
    BY <1>1, <1>2
  <1>3. QED BY <1>2, ProvenanceInvariance, PTL DEF PvSpec, PvVerdictMonotone

(* Only the row adds a receipt, the last one, and it opens if the draft was  *)
(* true.                                                                     *)
LEMMA PvReceiptStep ==
    ASSUME PvInv, pvQuiet, PvWrite, pvReceipts' # pvReceipts
    PROVE  PvNewestOpens'
  <1>1. PICK w, a, edges, path : /\ w = pvWork.receipt /\ a = w.authority /\ edges = pvEdges
                                 /\ path = PvPath(edges, a)
    OBVIOUS
  <1>2. PICK r : r = [w EXCEPT !.root = pvReceipts = <<>>] OBVIOUS
  <1>3. /\ pvWork.at = "row" /\ ~pvWork.escalates /\ pvReceipts' = Append(pvReceipts, r)
        /\ UNCHANGED <<pvEdges, pvPolicy, pvKeys>>
    BY <1>1, <1>2 DEF PvWrite
  <1>4. w \in PvCommit /\ a \in PvAuthorities /\ edges \in PvGraph /\ pvReceipts \in Seq(PvCommit)
    <2>1. pvWork \in PvPlace /\ a \in PvAuthorities /\ edges \in PvGraph /\ pvReceipts \in Seq(PvCommit)
      BY <1>1, <1>3 DEF PvInv, PvTypeOK
    <2>2. QED BY <1>1, <2>1 DEF PvPlace
  <1>5. /\ r \in PvCommit /\ r.authority = a /\ r.chain = w.chain /\ r.edges = w.edges
        /\ r.caps = w.caps /\ r.policy = w.policy /\ r.key = w.key
    <2> HIDE DEF PvName, PvGraph
    <2>1. QED BY <1>1, <1>2, <1>4 DEF PvCommit
  <1>6. pvReceipts'[Len(pvReceipts')] = r
    <2> HIDE DEF PvCommit
    <2>1. QED BY <1>3, <1>4, <1>5, AppendProperties
  <1>7. PvDrafted(pvWork, edges, pvPolicy, pvKeys) BY <1>1, <1>3 DEF PvInv
  <1>8. pvWork.of = "chain" BY <1>3, <1>7 DEF PvDrafted
  <1>9. /\ pvPolicy # "absent" /\ w.policy = pvPolicy /\ pvKeys[a] # "absent" /\ w.key = pvKeys[a]
        /\ PvHasPath(edges, a) /\ w.caps = PvEffective(edges, a) /\ ~PvEscalates(edges, path)
        /\ w.chain = path /\ w.edges = PvEdgesOf(edges, path)
    BY <1>1, <1>3, <1>7, <1>8 DEF PvDrafted
  <1>10. PvFilled(edges, a) = edges
    <2>1. a \in DOMAIN edges BY <1>4, <1>9, PvReadTypes
    <2>2. QED BY <2>1 DEF PvFilled
  <1>11. ASSUME r.root PROVE PvWitnessVerifies(r)'
    BY <1>1, <1>3, <1>5, <1>9, <1>10, <1>11 DEF PvWitnessVerifies
  <1>12. QED BY <1>6, <1>11 DEF PvNewestOpens

(* The witness that construct_witness() rebuilds for a first receipt opens   *)
(* what store.write() hashed, unless an entry was replaced or removed while  *)
(* the write was under way.                                                  *)
THEOREM RootWitnessOpens == PvSpec => PvWitnessOfRoot
  <1>1. ASSUME PvInv, [PvNext]_pvVars, pvReceipts' # pvReceipts, pvQuiet PROVE PvNewestOpens'
    <2>1. CASE UNCHANGED pvVars BY <1>1, <2>1 DEF pvVars
    <2>2. CASE PvTick BY <1>1, <2>2 DEF PvTick
    <2>3. CASE PvOutside BY <1>1, <2>3, PvOutsideTypes DEF PvInv
    <2>4. CASE PvWriteStep /\ ~PvWrite
      BY <1>1, <2>4
      DEF PvWriteStep, PvBegin, PvTest, PvFill, PvReadFails, PvReadPolicy, PvReadKey, PvReadObjs, PvReadChain
    <2>5. CASE PvWrite BY <1>1, <2>5, PvReceiptStep
    <2>6. QED BY <1>1, <2>1, <2>2, <2>3, <2>4, <2>5 DEF PvNext
  <1>2. ASSUME PvInv, [PvNext]_pvVars
        PROVE  [pvReceipts' # pvReceipts /\ pvQuiet => PvNewestOpens']_pvVars
    BY <1>1, <1>2
  <1>3. QED BY <1>2, ProvenanceInvariance, PTL DEF PvSpec, PvWitnessOfRoot
=============================================================================

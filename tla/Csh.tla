-------------------------------- MODULE Csh --------------------------------
(***************************************************************************)
(* Constitutional finality (ugk/csh.py): validators sign attestations of a *)
(* law hash, and achieve_finality() turns a list of them into an MCIR when *)
(* a quorum of the sealed validator set attests the same hash.             *)
(*                                                                         *)
(* Attestations travel: a caller may hold any part of them, in any order,  *)
(* more than once, and a copy may have been damaged on the way.  A correct *)
(* validator attests one hash per epoch; create_attestation() keeps no     *)
(* record and would sign another, which is what a faulty one does.  An     *)
(* attestation names a root and carries a key; verify() checks the         *)
(* signature by that key, and nothing compares the key with the root.      *)
(***************************************************************************)
EXTENDS Integers, FiniteSets

CONSTANTS
    CshValidators,  \* mosaic roots of the sealed validator set
    CshFaulty,      \* the validators that may equivocate
    CshStrangers,   \* mosaic roots outside the set
    CshHashes,      \* constitutional hashes
    CshEpochs,      \* epochs
    CshMaxMcirs     \* bound: finality artifacts produced

ASSUME CshAssumption ==
    /\ IsFiniteSet(CshValidators) /\ CshValidators \cap CshStrangers = {}
    /\ CshFaulty \subseteq CshValidators
    /\ 3 * Cardinality(CshFaulty) < Cardinality(CshValidators)
    /\ CshMaxMcirs \in Nat

VARIABLES
    cshSent,    \* attestations that exist, damaged copies included
    cshMcirs    \* MCIRs with quorum_achieved

cshVars == <<cshSent, cshMcirs>>

CshParties == CshValidators \cup CshStrangers

(* key: whose pubkey_hex it carries; root: the mosaic_root it names;         *)
(* verifies: its signature is one by key over the other fields.              *)
CshAttestation ==
    [key : CshParties, root : CshParties, hash : CshHashes, epoch : CshEpochs,
     verifies : BOOLEAN]

(* An MCIR: its hash and its valid_attestations. *)
CshMcir == [hash : CshHashes, valid : SUBSET CshAttestation]

(* Its signature verifies, and by the key of the root it names. *)
CshGenuine(a) == a.verifies /\ a.key = a.root

CshTypeOK == cshSent \subseteq CshAttestation /\ cshMcirs \subseteq CshMcir

----------------------------------------------------------------------------
(* seal_validator_set(): the validators and how many they are. *)
CshSealed == [validators |-> CshValidators, n |-> Cardinality(CshValidators)]

(* Mutant of CshThreshold: two thirds, rounded down. *)
CshThresholdFloor(n) == (2 * n) \div 3

(* _quorum_threshold(): ceil((2n + 1) / 3), at least one. *)
CshThreshold(n) ==
    LET t == (2 * n + 3) \div 3 IN IF t < 1 THEN 1 ELSE t

(* detect_equivocation(): roots with two hashes in one epoch.  Signatures    *)
(* are not looked at.                                                        *)
CshEquivocators(atts) ==
    {a.root : a \in {x \in atts :
        \E y \in atts : y.root = x.root /\ y.epoch = x.epoch /\ y.hash # x.hash}}

(* The attestations achieve_finality() lets through to the duplicate check.  *)
CshCounted(atts, hash) ==
    LET equivocators == CshEquivocators(atts)
    IN {a \in atts :
          /\ a.root \notin equivocators
          /\ a.root \in CshSealed.validators
          /\ a.hash = hash
          /\ a.verifies}

(* Of several by one validator the first of the list counts: any of them.    *)
CshValid(atts, hash) ==
    LET counted == CshCounted(atts, hash)
    IN {v \in SUBSET counted :
          /\ \A a, b \in v : a.root = b.root => a = b
          /\ \A a \in counted : \E b \in v : b.root = a.root}

----------------------------------------------------------------------------
(* create_attestation(): the root is that of the key. *)
CshSign(k, r, h, e) ==
    /\ cshSent' = cshSent \cup
         {[key |-> k, root |-> r, hash |-> h, epoch |-> e, verifies |-> TRUE]}
    /\ UNCHANGED cshMcirs

(* By a validator that keeps to one hash per epoch. *)
CshAttest(v, h, e) ==
    /\ v \notin CshFaulty
    /\ \A a \in cshSent : CshGenuine(a) /\ a.key = v /\ a.epoch = e => a.hash = h
    /\ CshSign(v, v, h, e)

(* By one that does not, or that is no validator: of another hash too, and,  *)
(* the fields of Attestation being the caller's, naming another root, which  *)
(* verify() does not see.                                                    *)
CshAttestAny(k, r, h, e) ==
    /\ k \in CshFaulty \cup CshStrangers
    /\ r = k \/ \A a \in cshSent : CshGenuine(a)     \* bound: one copy that is not genuine
    /\ CshSign(k, r, h, e)

(* A copy of an attestation arrives with another hash. *)
CshDamage(a, h) ==
    /\ a.verifies /\ h # a.hash
    /\ \A b \in cshSent : CshGenuine(b)    \* bound: as above
    /\ cshSent' = cshSent \cup {[a EXCEPT !.hash = h, !.verifies = FALSE]}
    /\ UNCHANGED cshMcirs

(* achieve_finality() on a list that holds these attestations. *)
CshAchieveFinality(atts, h) ==
    /\ Cardinality(cshMcirs) < CshMaxMcirs
    /\ \E valid \in CshValid(atts, h) :
        /\ Cardinality(valid) >= CshThreshold(CshSealed.n)
        /\ cshMcirs' = cshMcirs \cup {[hash |-> h, valid |-> valid]}
    /\ UNCHANGED cshSent

CshInit == cshSent = {} /\ cshMcirs = {}

CshNext ==
    \/ \E h \in CshHashes, e \in CshEpochs :
        \/ \E v \in CshValidators : CshAttest(v, h, e)
        \/ \E k, r \in CshParties : CshAttestAny(k, r, h, e)
    \/ \E a \in cshSent, h \in CshHashes : CshDamage(a, h)
    \/ \E atts \in SUBSET cshSent, h \in CshHashes : CshAchieveFinality(atts, h)

CshSpec == CshInit /\ [][CshNext]_cshVars

----------------------------------------------------------------------------
CshOfEpoch(m, e) == \A a \in m.valid : a.epoch = e

(* What whoever relies on an MCIR has to check of it: achieve_finality()     *)
(* compares no valid attestation's key with the root it is counted for.      *)
CshBound(m) == \A a \in m.valid : CshGenuine(a)

(* Two finality artifacts made of attestations of one epoch name the same    *)
(* law hash, whichever attestations each caller held and whatever else was   *)
(* among them, as long as fewer than a third of the validators equivocate    *)
(* and each counted attestation was signed by the validator it is counted    *)
(* for.  (achieve_finality() itself asks neither that nor that the           *)
(* attestations be of one epoch; without either two artifacts can differ.)   *)
CshAgreement ==
    \A m1, m2 \in cshMcirs, e \in CshEpochs :
        /\ CshBound(m1) /\ CshBound(m2)
        /\ CshOfEpoch(m1, e) /\ CshOfEpoch(m2, e)
        => m1.hash = m2.hash
=============================================================================

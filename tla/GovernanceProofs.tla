------------------------- MODULE GovernanceProofs --------------------------
(***************************************************************************)
(* Theorems about the governance layers around execute(): the will layer,  *)
(* deferred operations and the transport adapters (modules Will, Deferred, *)
(* Transport).                                                             *)
(***************************************************************************)
EXTENDS Will, Deferred, Transport, FiniteSetTheorems, SequenceTheorems,
        WellFoundedInduction, TLAPS

-----------------------------------------------------------------------------
(* Extremal elements of sets of naturals.                                  *)

(* A nonempty set of naturals has a least element. *)
LEMMA LeastNatural ==
    ASSUME NEW T, T \subseteq Nat, T # {}
    PROVE  \E x \in T : \A y \in T : x <= y
  <1>1. PICK R : R = OpToRel(<, Nat) OBVIOUS
  <1>2. IsWellFoundedOn(R, Nat) BY <1>1, NatLessThanWellFounded
  <1>3. PICK x \in T : \A y \in T : ~(<<y, x>> \in R) BY <1>2, WFMin
  <1>4. \A a, b \in Nat : a < b => <<a, b>> \in R BY <1>1 DEF OpToRel
  <1>5. ASSUME NEW y \in T PROVE x <= y
    <2>1. x \in Nat /\ y \in Nat OBVIOUS
    <2>2. ~(y < x) BY <1>3, <1>4, <2>1
    <2>3. QED BY <2>1, <2>2
  <1>6. QED BY <1>5

(* A nonempty set of naturals up to a bound has a greatest element. *)
LEMMA GreatestNatural ==
    ASSUME NEW T, NEW n \in Nat, T \subseteq 0..n, T # {}
    PROVE  \E x \in T : \A y \in T : y <= x
  <1> DEFINE D == {n - x : x \in T}
  <1>1. \A x \in T : x \in Nat /\ n - x \in Nat OBVIOUS
  <1>2. D \subseteq Nat BY <1>1
  <1>3. \A x \in T : n - x \in D OBVIOUS
  <1>4. D # {} BY <1>3
  <1>5. PICK d \in D : \A y \in D : d <= y BY <1>2, <1>4, LeastNatural
  <1>6. PICK x \in T : d = n - x BY <1>5
  <1>7. ASSUME NEW y \in T PROVE y <= x
    <2>1. d <= n - y BY <1>3, <1>5
    <2>2. QED BY <1>1, <1>6, <2>1
  <1>8. QED BY <1>7

-----------------------------------------------------------------------------
(* The will layer.                                                         *)

(* A flagged row stays flagged: INSERT OR IGNORE never resets it. *)
WlInv ==
    /\ WlTypeOK /\ IsFiniteSet(wlCalls)
    /\ wlEver \subseteq wlFlagged
    /\ WlRevokedNeverSeeds

(* What the will check may return: a verdict and a declaration of their      *)
(* types, and for a call that names none no declaration but an active one,   *)
(* whose row is not flagged.                                                 *)
LEMMA WlCheckReturns ==
    ASSUME WlTypeOK, NEW op \in WlOps, NEW named \in WlDecls \cup {WlNone}, NEW c \in WlCheck(op, named)
    PROVE  /\ c.verdict \in {"admit", "WL-001", "WL-002", "WL-005"}
           /\ c.ref \in WlDecls \cup {WlNone}
           /\ named = WlNone => c.ref = WlNone \/ c.ref \in wlDeclared \ wlFlagged
  <1>1. PICK covers, found :
            covers = WlCovers(op, WlActive, WlNoEdges, 0) /\ found = WlFindCover(op, WlActive, WlNoEdges, 0)
    OBVIOUS
  <1>2. covers \in {"WL-005", "COVERED", "WL-001"} BY <1>1 DEF WlCovers
  <1>3. found \subseteq WlActive BY <1>1 DEF WlFindCover
  <1>4. WlActive \subseteq wlDeclared \ wlFlagged BY DEF WlActive, WlActiveDeclarations
  <1>5. wlDeclared \subseteq WlDecls BY DEF WlTypeOK
  <1>6. \/ \E r \in WlDecls : named # WlNone /\ c = [verdict |-> "admit", ref |-> r]
        \/ named # WlNone /\ c = [verdict |-> "WL-002", ref |-> WlNone]
        \/ \E r \in found : c = [verdict |-> "admit", ref |-> r]
        \/ covers # "COVERED" /\ c = [verdict |-> covers, ref |-> WlNone]
        \/ c = [verdict |-> "admit", ref |-> WlNone]
    BY <1>1, <1>5 DEF WlCheck
  <1>7. QED BY <1>2, <1>3, <1>4, <1>5, <1>6

(* A call of execute(): the declaration it is admitted under. *)
LEMMA WlExecuteStep ==
    ASSUME WlInv, NEW op \in WlOps, NEW named \in WlDecls \cup {WlNone}, WlExecute(op, named)
    PROVE  WlInv'
  <1>1. PICK c \in WlCheck(op, named) :
            wlCalls' = wlCalls \cup
                {[no |-> Cardinality(wlCalls) + 1, op |-> op, named |-> named,
                  strict |-> wlPosture.intent, verdict |-> c.verdict, ref |-> c.ref,
                  revoked |-> c.ref \in wlEver]}
    BY DEF WlExecute
  <1>2. WlTypeOK BY DEF WlInv
  <1>3. /\ c.verdict \in {"admit", "WL-001", "WL-002", "WL-005"}
        /\ c.ref \in WlDecls \cup {WlNone}
        /\ named = WlNone => c.ref = WlNone \/ c.ref \in wlDeclared \ wlFlagged
    BY <1>2, WlCheckReturns
  <1>4. PICK new : new = [no |-> Cardinality(wlCalls) + 1, op |-> op, named |-> named,
                          strict |-> wlPosture.intent, verdict |-> c.verdict, ref |-> c.ref,
                          revoked |-> c.ref \in wlEver]
    OBVIOUS
  <1>5. wlCalls' = wlCalls \cup {new} BY <1>1, <1>4
  <1>6. new \in WlCall
    <2>1. Cardinality(wlCalls) \in Nat BY FS_CardinalityType DEF WlInv
    <2>2. Cardinality(wlCalls) + 1 \in 1..WlMaxCalls
      <3>1. Cardinality(wlCalls) < WlMaxCalls BY DEF WlExecute
      <3>2. WlMaxCalls \in Nat BY WlAssumption
      <3>3. QED BY <2>1, <3>1, <3>2
    <2>3. wlPosture.intent \in BOOLEAN /\ (c.ref \in wlEver) \in BOOLEAN BY <1>2 DEF WlTypeOK
    <2>4. QED BY <1>3, <1>4, <2>2, <2>3 DEF WlCall
  <1>7. new.named = WlNone => ~new.revoked
    <2>1. wlEver \subseteq wlFlagged /\ wlEver \subseteq WlDecls BY <1>2 DEF WlInv, WlTypeOK
    <2>2. named = WlNone => c.ref \notin wlEver BY <1>3, <2>1, WlAssumption
    <2>3. QED BY <1>4, <2>2
  <1>8. UNCHANGED <<wlDeclared, wlFlagged, wlRevocations, wlEver, wlPosture, wlSession>> BY DEF WlExecute
  <1>9. WlTypeOK' BY <1>2, <1>5, <1>6, <1>8 DEF WlTypeOK
  <1>10. IsFiniteSet(wlCalls') BY <1>5, FS_AddElement DEF WlInv
  <1>11. WlRevokedNeverSeeds' BY <1>5, <1>7 DEF WlInv, WlRevokedNeverSeeds
  <1>12. QED BY <1>8, <1>9, <1>10, <1>11 DEF WlInv

(* WlInv is an invariant of the will layer. *)
THEOREM WillInvariance == WlSpec => []WlInv
  <1>1. WlInit => WlInv
    BY FS_EmptySet DEF WlInit, WlInv, WlTypeOK, WlRevokedNeverSeeds
  <1>2. WlInv /\ [WlNext]_wlVars => WlInv'
    <2> SUFFICES ASSUME WlInv, [WlNext]_wlVars PROVE WlInv'
      OBVIOUS
    <2>1. ASSUME NEW d \in WlDecls, WlDeclare(d) PROVE WlInv'
      BY <2>1 DEF WlDeclare, WlInv, WlTypeOK, WlRevokedNeverSeeds
    <2>2. ASSUME NEW d \in WlDecls, WlRevoke(d) PROVE WlInv'
      <3>1. wlFlagged \subseteq wlFlagged' /\ wlFlagged' \subseteq wlDeclared
        BY <2>2 DEF WlRevoke, WlInv, WlTypeOK
      <3>2. wlRevocations' \subseteq WlDecls BY <2>2 DEF WlRevoke, WlInv, WlTypeOK
      <3>3. wlEver' = wlEver \cup wlFlagged' /\ UNCHANGED <<wlDeclared, wlPosture, wlSession, wlCalls>>
        BY <2>2 DEF WlRevoke
      <3>4. QED BY <3>1, <3>2, <3>3 DEF WlInv, WlTypeOK, WlRevokedNeverSeeds
    <2>3. ASSUME NEW p \in [intent : BOOLEAN, scoped : BOOLEAN], WlSetPosture(p) PROVE WlInv'
      BY <2>3 DEF WlSetPosture, WlInv, WlTypeOK, WlRevokedNeverSeeds
    <2>4. ASSUME NEW s \in WlScopes, WlOpenSession(s) PROVE WlInv'
      BY <2>4 DEF WlOpenSession, WlInv, WlTypeOK, WlRevokedNeverSeeds
    <2>5. CASE UNCHANGED wlVars
      BY <2>5 DEF wlVars, WlInv, WlTypeOK, WlRevokedNeverSeeds
    <2>6. QED BY <2>1, <2>2, <2>3, <2>4, <2>5, WlExecuteStep DEF WlNext
  <1>3. QED BY <1>1, <1>2, PTL DEF WlSpec

(* A revocation that flagged its declaration is permanent for the calls that *)
(* name none, for any declarations, scopes and postures.                     *)
THEOREM RevokedNeverSeeds == WlSpec => []WlRevokedNeverSeeds
  <1>1. WlInv => WlRevokedNeverSeeds BY DEF WlInv
  <1>2. QED BY <1>1, WillInvariance, PTL

-----------------------------------------------------------------------------
(* Deferred operations.                                                    *)

(* The latest receipt of a settled continuation, if any is left, is not      *)
(* HELD: behind every HELD one there is another of the same id.              *)
CtClosed(log, id) ==
    \A i \in DOMAIN log : log[i].id = id /\ log[i].state = "HELD" =>
        \E j \in DOMAIN log : i < j /\ log[j].id = id /\ log[j].state # "HELD"

CtInv ==
    /\ CtTypeOK
    /\ ctPruned + Len(ctLog) <= CtMaxReceipts
    /\ \A id \in CtIds : ctOutcomes[id] <= ctPruned + Len(ctLog)
    /\ \A t \in CtThreads : ctPc[t].at # "idle" => ctPc[t].rec.id \in CtIds
    /\ \A id \in ctSettled : CtClosed(ctLog, id)

(* find_continuation() returns the latest receipt of the id. *)
LEMMA CtFindLatest ==
    ASSUME CtTypeOK, NEW id \in CtIds, CtFind(id) # CtPlain
    PROVE  \E i \in DOMAIN ctLog : /\ CtFind(id) = ctLog[i] /\ ctLog[i].id = id
                                   /\ \A j \in DOMAIN ctLog : ctLog[j].id = id => j <= i
  <1> DEFINE S == CtPositions(id)
  <1>1. S # {} BY DEF CtFind
  <1>2. ctLog \in Seq(CtReceipt) BY DEF CtTypeOK
  <1>3. DOMAIN ctLog = 1..Len(ctLog) /\ Len(ctLog) \in Nat BY <1>2, LenProperties
  <1>4. S \subseteq 0..Len(ctLog) BY <1>3 DEF CtPositions
  <1>5. \E i \in S : \A j \in S : j <= i
    <2> HIDE DEF S
    <2>1. QED BY <1>1, <1>3, <1>4, GreatestNatural
  <1>6. PICK i : i = CHOOSE k \in S : \A j \in S : j <= k OBVIOUS
  <1>7. i \in S /\ \A j \in S : j <= i BY <1>5, <1>6
  <1>8. CtFind(id) = ctLog[i] BY <1>1, <1>6 DEF CtFind
  <1>9. QED BY <1>7, <1>8 DEF CtPositions

(* A receipt at the end of the log keeps a continuation closed unless it     *)
(* holds it again, and closes it when it is one of its markers.              *)
LEMMA CtClosedAppend ==
    ASSUME NEW log \in Seq(CtReceipt), NEW r \in CtReceipt, NEW id \in CtIds
    PROVE  /\ CtClosed(log, id) /\ (r.id # id \/ r.state # "HELD") => CtClosed(Append(log, r), id)
           /\ r.id = id /\ r.state # "HELD" => CtClosed(Append(log, r), id)
  <1> HIDE DEF CtReceipt
  <1>1. PICK n : n = Len(log) OBVIOUS
  <1>2. PICK app : app = Append(log, r) OBVIOUS
  <1>3. /\ n \in Nat /\ DOMAIN log = 1..n /\ DOMAIN app = 1..(n + 1) /\ app[n + 1] = r
        /\ \A i \in 1..n : app[i] = log[i]
    BY <1>1, <1>2
  <1>4. ASSUME CtClosed(log, id), r.id # id \/ r.state # "HELD",
               NEW i \in DOMAIN app, app[i].id = id, app[i].state = "HELD"
        PROVE  \E j \in DOMAIN app : i < j /\ app[j].id = id /\ app[j].state # "HELD"
    <2>1. i \in 1..n BY <1>3, <1>4
    <2>2. PICK j \in DOMAIN log : i < j /\ log[j].id = id /\ log[j].state # "HELD"
      BY <1>3, <1>4, <2>1 DEF CtClosed
    <2>3. QED BY <1>3, <2>2
  <1>5. ASSUME r.id = id, r.state # "HELD",
               NEW i \in DOMAIN app, app[i].id = id, app[i].state = "HELD"
        PROVE  \E j \in DOMAIN app : i < j /\ app[j].id = id /\ app[j].state # "HELD"
    <2>1. i \in 1..n BY <1>3, <1>5
    <2>2. n + 1 \in DOMAIN app /\ i < n + 1 BY <1>3, <2>1
    <2>3. QED BY <1>3, <1>5, <2>2
  <1>6. CtClosed(log, id) /\ (r.id # id \/ r.state # "HELD") => CtClosed(app, id)
    BY <1>4 DEF CtClosed
  <1>7. r.id = id /\ r.state # "HELD" => CtClosed(app, id) BY <1>5 DEF CtClosed
  <1>8. QED BY <1>2, <1>6, <1>7

(* A prune takes a prefix away: what was behind a receipt is still there. *)
LEMMA CtClosedPrune ==
    ASSUME NEW log \in Seq(CtReceipt), NEW k \in DOMAIN log, NEW id \in CtIds, CtClosed(log, id)
    PROVE  CtClosed(SubSeq(log, k + 1, Len(log)), id)
  <1> HIDE DEF CtReceipt
  <1>1. PICK n : n = Len(log) OBVIOUS
  <1>2. PICK s : s = SubSeq(log, k + 1, Len(log)) OBVIOUS
  <1>3. n \in Nat /\ DOMAIN log = 1..n /\ k \in 1..n BY <1>1
  <1>4. DOMAIN s = 1..(n - k) /\ \A i \in 1..(n - k) : s[i] = log[k + i]
    BY <1>1, <1>2, <1>3
  <1>5. ASSUME NEW i \in DOMAIN s, s[i].id = id, s[i].state = "HELD"
        PROVE  \E j \in DOMAIN s : i < j /\ s[j].id = id /\ s[j].state # "HELD"
    <2>1. k + i \in DOMAIN log /\ log[k + i] = s[i] BY <1>3, <1>4
    <2>2. PICK j \in DOMAIN log : k + i < j /\ log[j].id = id /\ log[j].state # "HELD"
      BY <1>5, <2>1 DEF CtClosed
    <2>3. j - k \in DOMAIN s /\ i < j - k /\ s[j - k] = log[j]
      <3>1. j \in 1..n /\ i \in 1..(n - k) BY <1>3, <1>4
      <3>2. j - k \in 1..(n - k) /\ i < j - k /\ k + (j - k) = j BY <1>3, <2>2, <3>1
      <3>3. QED BY <1>4, <3>2
    <2>4. QED BY <2>2, <2>3
  <1>6. QED BY <1>2, <1>5 DEF CtClosed
CtPlace == [at : {"idle", "refuse", "expire", "run", "mark"}, rec : CtReceipt]

(* The receipts written in all, the pruned ones included. *)
CtWritten == ctPruned + Len(ctLog)

(* The receipt of no continuation. *)
LEMMA CtPlainReceipt == CtPlain \in CtReceipt /\ CtIdle \in CtPlace /\ CtPlain.id \notin CtIds
  <1>1. CtPlain \in CtReceipt BY DEF CtPlain, CtReceipt, CtBasis
  <1>2. CtIdle \in CtPlace
    <2> HIDE DEF CtPlain, CtReceipt
    <2>1. QED BY <1>1 DEF CtIdle, CtPlace
  <1>3. CtPlain.id \notin CtIds BY CtAssumption DEF CtPlain
  <1>4. QED BY <1>1, <1>2, <1>3

(* Two plain receipts at the end of the log are two appends. *)
LEMMA CtPlainTwice ==
    ASSUME NEW log \in Seq(CtReceipt)
    PROVE  /\ log \o <<CtPlain, CtPlain>> \in Seq(CtReceipt)
           /\ Len(log \o <<CtPlain, CtPlain>>) = Len(log) + 2
           /\ \A id \in CtIds : CtClosed(log, id) => CtClosed(log \o <<CtPlain, CtPlain>>, id)
  <1>1. CtPlain \in CtReceipt /\ CtPlain.id \notin CtIds BY CtPlainReceipt
  <1> HIDE DEF CtPlain, CtReceipt
  <1>2. PICK one : one = Append(log, CtPlain) OBVIOUS
  <1>3. one \in Seq(CtReceipt) BY <1>1, <1>2, AppendProperties
  <1>4. log \o <<CtPlain, CtPlain>> = Append(one, CtPlain) BY <1>1, <1>2
  <1>5. Append(one, CtPlain) \in Seq(CtReceipt) /\ Len(Append(one, CtPlain)) = Len(log) + 2
    BY <1>1, <1>2, <1>3
  <1>6. ASSUME NEW id \in CtIds, CtClosed(log, id) PROVE CtClosed(Append(one, CtPlain), id)
    <2>1. CtClosed(one, id) BY <1>1, <1>2, <1>6, CtClosedAppend
    <2>2. QED BY <1>1, <1>3, <2>1, CtClosedAppend
  <1>7. QED BY <1>4, <1>5, <1>6

(* What a step has to keep. *)
LEMMA CtStepOf ==
    ASSUME CtInv, ctLog' \in Seq(CtReceipt), ctPruned' \in Nat,
           CtWritten <= CtWritten', CtWritten' <= CtMaxReceipts,
           ctPc' \in [CtThreads -> CtPlace],
           \A t \in CtThreads : ctPc'[t].at # "idle" => ctPc'[t].rec.id \in CtIds,
           ctSettled' \subseteq CtIds, \A id \in ctSettled' : CtClosed(ctLog', id),
           ctOutcomes' \in [CtIds -> Nat], \A id \in CtIds : ctOutcomes'[id] <= CtWritten'
    PROVE  CtInv'
  <1>1. Len(ctLog') \in Nat BY LenProperties
  <1>2. CtMaxReceipts \in Nat BY CtAssumption
  <1>3. ctPruned' + Len(ctLog') <= CtMaxReceipts /\ \A id \in CtIds : ctOutcomes'[id] <= ctPruned' + Len(ctLog')
    BY DEF CtWritten
  <1>4. ctPruned' \in 0..CtMaxReceipts BY <1>1, <1>2, <1>3
  <1>5. ctOutcomes' \in [CtIds -> 0..CtMaxReceipts]
    <2>1. \A id \in CtIds : ctOutcomes'[id] \in Nat OBVIOUS
    <2>2. \A id \in CtIds : ctOutcomes'[id] \in 0..CtMaxReceipts BY <1>1, <1>2, <1>3, <2>1
    <2>3. QED BY <2>2
  <1>6. CtTypeOK' BY <1>4, <1>5 DEF CtTypeOK, CtPlace
  <1>7. QED BY <1>3, <1>6 DEF CtInv

(* The facts of CtInv in the form the steps use them. *)
LEMMA CtFacts ==
    ASSUME CtInv
    PROVE  /\ ctLog \in Seq(CtReceipt) /\ Len(ctLog) \in Nat /\ ctPruned \in Nat
           /\ CtWritten \in Nat /\ CtWritten <= CtMaxReceipts /\ CtMaxReceipts \in Nat
           /\ ctPc \in [CtThreads -> CtPlace]
           /\ \A t \in CtThreads : ctPc[t].at # "idle" => ctPc[t].rec.id \in CtIds
           /\ ctSettled \subseteq CtIds /\ \A id \in ctSettled : CtClosed(ctLog, id)
           /\ ctOutcomes \in [CtIds -> Nat] /\ \A id \in CtIds : ctOutcomes[id] <= CtWritten
  <1>1. CtTypeOK /\ CtMaxReceipts \in Nat BY CtAssumption DEF CtInv
  <1>2. ctLog \in Seq(CtReceipt) /\ ctPruned \in Nat BY <1>1 DEF CtTypeOK
  <1>3. Len(ctLog) \in Nat BY <1>2, LenProperties
  <1>4. CtWritten \in Nat BY <1>2, <1>3 DEF CtWritten
  <1>5. ctOutcomes \in [CtIds -> Nat] BY <1>1 DEF CtTypeOK
  <1>6. ctPc \in [CtThreads -> CtPlace] /\ ctSettled \subseteq CtIds BY <1>1 DEF CtTypeOK, CtPlace
  <1>7. QED BY <1>1, <1>2, <1>3, <1>4, <1>5, <1>6 DEF CtInv, CtWritten

(* One receipt is appended. *)
LEMMA CtAppended ==
    ASSUME CtInv, NEW r \in CtReceipt, CtRoom(1), ctLog' = Append(ctLog, r), ctPruned' = ctPruned
    PROVE  /\ ctLog' \in Seq(CtReceipt) /\ ctPruned' \in Nat
           /\ CtWritten' = CtWritten + 1 /\ CtWritten' <= CtMaxReceipts
           /\ \A id \in CtIds : CtClosed(ctLog, id) /\ (r.id # id \/ r.state # "HELD") => CtClosed(ctLog', id)
           /\ \A id \in CtIds : r.id = id /\ r.state # "HELD" => CtClosed(ctLog', id)
  <1>1. ctLog \in Seq(CtReceipt) /\ Len(ctLog) \in Nat /\ ctPruned \in Nat /\ CtMaxReceipts \in Nat BY CtFacts
  <1>2. /\ \A id \in CtIds : CtClosed(ctLog, id) /\ (r.id # id \/ r.state # "HELD") => CtClosed(ctLog', id)
        /\ \A id \in CtIds : r.id = id /\ r.state # "HELD" => CtClosed(ctLog', id)
    BY <1>1, CtClosedAppend
  <1> HIDE DEF CtReceipt
  <1>3. ctLog' \in Seq(CtReceipt) /\ Len(ctLog') = Len(ctLog) + 1 BY <1>1, AppendProperties
  <1>4. CtWritten' = CtWritten + 1 /\ CtWritten' <= CtMaxReceipts
    BY <1>1, <1>3 DEF CtWritten, CtRoom
  <1>5. QED BY <1>1, <1>2, <1>3, <1>4

(* Two plain receipts are appended, behind a log from which some may have    *)
(* been pruned.                                                              *)
LEMMA CtPlainAppended ==
    ASSUME CtInv, NEW log \in Seq(CtReceipt), ctPruned' \in Nat,
           ctPruned' + Len(log) = CtWritten, CtRoom(2), ctLog' = log \o <<CtPlain, CtPlain>>,
           \A id \in ctSettled : CtClosed(log, id)
    PROVE  /\ ctLog' \in Seq(CtReceipt)
           /\ CtWritten' = CtWritten + 2 /\ CtWritten' <= CtMaxReceipts
           /\ \A id \in ctSettled : CtClosed(ctLog', id)
  <1>1. Len(log) \in Nat /\ ctSettled \subseteq CtIds /\ CtMaxReceipts \in Nat /\ CtWritten \in Nat
    BY CtFacts, LenProperties
  <1>2. /\ ctLog' \in Seq(CtReceipt) /\ Len(ctLog') = Len(log) + 2
        /\ \A id \in CtIds : CtClosed(log, id) => CtClosed(ctLog', id)
    BY CtPlainTwice
  <1>3. CtWritten' = CtWritten + 2 BY <1>1, <1>2 DEF CtWritten
  <1>4. CtWritten' <= CtMaxReceipts BY <1>1, <1>3 DEF CtWritten, CtRoom
  <1>5. QED BY <1>1, <1>2, <1>3, <1>4

(* defer_operation() holds the id, again or for the first time; any other    *)
(* operation leaves a receipt of no continuation.                            *)
LEMMA CtDeferStep ==
    ASSUME CtInv, NEW id \in CtIds, NEW b \in CtBasis, CtDefer(id, b)
    PROVE  CtInv'
  <1>1. PICK r : r = [id |-> id, state |-> "HELD", basis |-> b] OBVIOUS
  <1>2. r \in CtReceipt /\ r.id = id BY <1>1 DEF CtReceipt
  <1>3. /\ CtRoom(1) /\ ctLog' = Append(ctLog, r) /\ ctSettled' = ctSettled \ {id}
        /\ ctOutcomes' = [ctOutcomes EXCEPT ![id] = 0] /\ ctPruned' = ctPruned /\ ctPc' = ctPc
    BY <1>1 DEF CtDefer
  <1>4. /\ ctLog' \in Seq(CtReceipt) /\ ctPruned' \in Nat
        /\ CtWritten' = CtWritten + 1 /\ CtWritten' <= CtMaxReceipts
        /\ \A x \in CtIds : CtClosed(ctLog, x) /\ r.id # x => CtClosed(ctLog', x)
    BY <1>2, <1>3, CtAppended
  <1>5. \A x \in ctSettled' : CtClosed(ctLog', x) /\ x \in CtIds BY <1>2, <1>3, <1>4, CtFacts
  <1>6. CtWritten \in Nat /\ CtWritten <= CtWritten' BY <1>4, CtFacts
  <1>7. ctOutcomes' \in [CtIds -> Nat] /\ \A x \in CtIds : ctOutcomes'[x] <= CtWritten'
    <2>1. ctOutcomes \in [CtIds -> Nat] /\ \A x \in CtIds : ctOutcomes[x] <= CtWritten BY CtFacts
    <2>2. ASSUME NEW x \in CtIds PROVE ctOutcomes'[x] \in Nat /\ ctOutcomes'[x] <= CtWritten'
      <3>1. CASE x = id BY <1>3, <1>4, <1>6, <2>1, <3>1
      <3>2. CASE x # id BY <1>3, <1>4, <1>6, <2>1, <3>2
      <3>3. QED BY <3>1, <3>2
    <2>3. QED BY <1>3, <2>1, <2>2
  <1>8. ctPc' \in [CtThreads -> CtPlace] /\ \A t \in CtThreads : ctPc'[t].at # "idle" => ctPc'[t].rec.id \in CtIds
    BY <1>3, CtFacts
  <1>9. QED BY <1>4, <1>5, <1>6, <1>7, <1>8, CtStepOf

(* A receipt that is not about a continuation. *)
LEMMA CtOtherStep == ASSUME CtInv, CtOther PROVE CtInv'
  <1>1. CtRoom(1) /\ ctLog' = Append(ctLog, CtPlain) /\ UNCHANGED <<ctPruned, ctPc, ctSettled, ctOutcomes>>
    BY DEF CtOther
  <1>2. /\ ctLog' \in Seq(CtReceipt) /\ ctPruned' \in Nat
        /\ CtWritten' = CtWritten + 1 /\ CtWritten' <= CtMaxReceipts
        /\ \A x \in CtIds : CtClosed(ctLog, x) => CtClosed(ctLog', x)
    BY <1>1, CtPlainReceipt, CtAppended
  <1>3. \A x \in ctSettled' : CtClosed(ctLog', x) /\ x \in CtIds BY <1>1, <1>2, CtFacts
  <1>4. CtWritten \in Nat /\ CtWritten <= CtWritten' BY <1>2, CtFacts
  <1>5. ctOutcomes' \in [CtIds -> Nat] /\ \A x \in CtIds : ctOutcomes'[x] <= CtWritten'
    BY <1>1, <1>2, <1>4, CtFacts
  <1>6. ctPc' \in [CtThreads -> CtPlace] /\ \A t \in CtThreads : ctPc'[t].at # "idle" => ctPc'[t].rec.id \in CtIds
    BY <1>1, CtFacts
  <1>7. QED BY <1>2, <1>3, <1>4, <1>5, <1>6, CtStepOf

(* A thread looks the continuation up. *)
LEMMA CtLookUpStep ==
    ASSUME CtInv, NEW t \in CtThreads, NEW id \in CtIds, CtLookUp(t, id)
    PROVE  CtInv'
  <1>1. PICK rec : rec = CtFind(id) OBVIOUS
  <1>2. PICK at \in {"refuse", "expire", "run"} : ctPc' = [ctPc EXCEPT ![t] = [rec |-> rec, at |-> at]]
    BY <1>1 DEF CtLookUp
  <1>3. UNCHANGED <<ctLog, ctPruned, ctSettled, ctOutcomes>> BY DEF CtLookUp
  <1>4. rec \in CtReceipt /\ rec.id = id
    <2>1. CtTypeOK /\ rec # CtPlain BY <1>1 DEF CtInv, CtLookUp
    <2>2. PICK i \in DOMAIN ctLog : rec = ctLog[i] /\ ctLog[i].id = id BY <1>1, <2>1, CtFindLatest
    <2>3. ctLog \in Seq(CtReceipt) BY <2>1 DEF CtTypeOK
    <2>4. QED BY <2>2, <2>3, ElementOfSeq
  <1>5. PICK f : f = [rec |-> rec, at |-> at] OBVIOUS
  <1>6. f \in CtPlace /\ f.rec = rec
    <2> HIDE DEF CtReceipt
    <2>1. QED BY <1>4, <1>5 DEF CtPlace
  <1>7. ctPc' = [ctPc EXCEPT ![t] = f] BY <1>2, <1>5
  <1>8. ctPc' \in [CtThreads -> CtPlace] /\ \A u \in CtThreads : ctPc'[u].at # "idle" => ctPc'[u].rec.id \in CtIds
    BY <1>4, <1>6, <1>7, CtFacts
  <1>9. CtWritten' = CtWritten BY <1>3 DEF CtWritten
  <1>10. CtWritten \in Nat /\ CtWritten <= CtWritten' /\ CtWritten' <= CtMaxReceipts BY <1>9, CtFacts
  <1>11. QED BY <1>3, <1>8, <1>9, <1>10, CtFacts, CtStepOf

(* _continuation_marker() closes the continuation it marks, and leaves the   *)
(* others as they were.                                                      *)
LEMMA CtMarkerStep ==
    ASSUME CtInv, NEW t \in CtThreads, NEW at \in {"refuse", "expire", "mark"},
           NEW state \in {"RESOLVED", "EXPIRED", "REFUSED"}, CtMarker(t, at, state)
    PROVE  CtInv'
  <1>1. ctPc \in [CtThreads -> CtPlace] /\ ctPc[t].at # "idle" BY CtFacts DEF CtMarker
  <1>2. ctPc[t].rec \in CtReceipt /\ ctPc[t].rec.id \in CtIds
    <2>1. ctPc[t] \in CtPlace /\ ctPc[t].rec.id \in CtIds BY <1>1, CtFacts
    <2>2. QED BY <2>1 DEF CtPlace
  <1>3. PICK r, id : r = [ctPc[t].rec EXCEPT !.state = state] /\ id = ctPc[t].rec.id OBVIOUS
  <1>4. r \in CtReceipt /\ r.id = id /\ r.state # "HELD" BY <1>2, <1>3 DEF CtReceipt
  <1>5. /\ CtRoom(1) /\ ctLog' = Append(ctLog, r) /\ ctPc' = [ctPc EXCEPT ![t] = CtIdle]
        /\ ctSettled' = ctSettled \cup {id} /\ ctPruned' = ctPruned /\ ctOutcomes' = ctOutcomes
    BY <1>3 DEF CtMarker
  <1>6. /\ ctLog' \in Seq(CtReceipt) /\ ctPruned' \in Nat
        /\ CtWritten' = CtWritten + 1 /\ CtWritten' <= CtMaxReceipts
        /\ \A x \in CtIds : CtClosed(ctLog, x) => CtClosed(ctLog', x)
        /\ \A x \in CtIds : r.id = x => CtClosed(ctLog', x)
    BY <1>4, <1>5, CtAppended
  <1>7. \A x \in ctSettled' : CtClosed(ctLog', x) /\ x \in CtIds
    BY <1>2, <1>3, <1>4, <1>5, <1>6, CtFacts
  <1>8. CtWritten \in Nat /\ CtWritten <= CtWritten' BY <1>6, CtFacts
  <1>9. ctOutcomes' \in [CtIds -> Nat] /\ \A x \in CtIds : ctOutcomes'[x] <= CtWritten'
    BY <1>5, <1>6, <1>8, CtFacts
  <1>10. ctPc' \in [CtThreads -> CtPlace] /\ \A u \in CtThreads : ctPc'[u].at # "idle" => ctPc'[u].rec.id \in CtIds
    <2>1. CtIdle \in CtPlace /\ CtIdle.at = "idle" BY CtPlainReceipt DEF CtIdle
    <2>2. QED BY <1>1, <1>5, <2>1, CtFacts
  <1>11. QED BY <1>6, <1>7, <1>8, <1>9, <1>10, CtStepOf

(* An outcome of execute() is counted: it leaves a receipt of its own, so    *)
(* the count stays below the receipts written.                               *)
LEMMA CtCounted ==
    ASSUME CtInv, NEW t \in CtThreads, CtCount(t), ctPc[t].at # "idle",
           CtWritten' \in Nat, CtWritten < CtWritten'
    PROVE  ctOutcomes' \in [CtIds -> Nat] /\ \A x \in CtIds : ctOutcomes'[x] <= CtWritten'
  <1>1. /\ ctOutcomes \in [CtIds -> Nat] /\ CtWritten \in Nat
        /\ \A x \in CtIds : ctOutcomes[x] <= CtWritten
    BY CtFacts
  <1>2. PICK id : id = ctPc[t].rec.id OBVIOUS
  <1>3. id \in CtIds BY <1>2, CtFacts
  <1>4. ctOutcomes' = [ctOutcomes EXCEPT ![id] = @ + 1] BY <1>2 DEF CtCount
  <1>5. ASSUME NEW x \in CtIds PROVE ctOutcomes'[x] \in Nat /\ ctOutcomes'[x] <= CtWritten'
    <2>1. ctOutcomes[x] \in Nat /\ ctOutcomes[x] <= CtWritten BY <1>1
    <2>2. CASE x = id
      <3>1. ctOutcomes'[x] = ctOutcomes[x] + 1 BY <1>1, <1>3, <1>4, <2>2
      <3>2. QED BY <1>1, <2>1, <3>1
    <2>3. CASE x # id
      <3>1. ctOutcomes'[x] = ctOutcomes[x] BY <1>1, <1>4, <2>3
      <3>2. QED BY <1>1, <2>1, <3>1
    <2>4. QED BY <2>2, <2>3
  <1>6. QED BY <1>1, <1>4, <1>5

(* execute() on the captured operation, successful or not. *)
LEMMA CtRunStep ==
    ASSUME CtInv, NEW t \in CtThreads, CtRunAdmitted(t) \/ CtRunRaises(t)
    PROVE  CtInv'
  <1>1. /\ ctPc \in [CtThreads -> CtPlace] /\ ctPc[t] \in CtPlace /\ ctPc[t].at # "idle"
        /\ ctPc[t].rec.id \in CtIds
    <2>1. ctPc[t].at = "run" BY DEF CtRunAdmitted, CtRunRaises
    <2>2. QED BY <2>1, CtFacts
  <1>2. CtCount(t) /\ ctPruned' = ctPruned /\ ctSettled' = ctSettled BY DEF CtRunAdmitted, CtRunRaises
  <1>3. /\ ctLog' \in Seq(CtReceipt) /\ ctPruned' \in Nat
        /\ CtWritten' \in Nat /\ CtWritten < CtWritten' /\ CtWritten' <= CtMaxReceipts
        /\ \A x \in ctSettled : CtClosed(ctLog', x)
    <2>1. CtWritten \in Nat /\ ctSettled \subseteq CtIds /\ \A x \in ctSettled : CtClosed(ctLog, x) BY CtFacts
    <2>2. CASE CtRunRaises(t)
      <3>1. CtRoom(1) /\ ctLog' = Append(ctLog, CtPlain) BY <2>2 DEF CtRunRaises
      <3>2. /\ ctLog' \in Seq(CtReceipt) /\ ctPruned' \in Nat
            /\ CtWritten' = CtWritten + 1 /\ CtWritten' <= CtMaxReceipts
            /\ \A x \in CtIds : CtClosed(ctLog, x) => CtClosed(ctLog', x)
        BY <1>2, <3>1, CtPlainReceipt, CtAppended
      <3>3. QED BY <2>1, <3>2
    <2>3. CASE CtRunAdmitted(t)
      <3>1. CtRoom(2) /\ ctLog' = ctLog \o <<CtPlain, CtPlain>> BY <2>3 DEF CtRunAdmitted
      <3>2. ctLog \in Seq(CtReceipt) /\ ctPruned' \in Nat /\ ctPruned' + Len(ctLog) = CtWritten
        BY <1>2, CtFacts DEF CtWritten
      <3>3. /\ ctLog' \in Seq(CtReceipt)
            /\ CtWritten' = CtWritten + 2 /\ CtWritten' <= CtMaxReceipts
            /\ \A x \in ctSettled : CtClosed(ctLog', x)
        BY <2>1, <3>1, <3>2, CtPlainAppended
      <3>4. QED BY <2>1, <3>2, <3>3
    <2>4. QED BY <2>2, <2>3
  <1>4. ctPc' \in [CtThreads -> CtPlace] /\ \A u \in CtThreads : ctPc'[u].at # "idle" => ctPc'[u].rec.id \in CtIds
    <2>1. CtIdle \in CtPlace /\ CtIdle.at = "idle" BY CtPlainReceipt DEF CtIdle
    <2>2. PICK f : f = [ctPc[t] EXCEPT !.at = "mark"] OBVIOUS
    <2>3. f \in CtPlace /\ f.rec = ctPc[t].rec
      <3> HIDE DEF CtReceipt
      <3>1. QED BY <1>1, <2>2 DEF CtPlace
    <2>4. ctPc' = [ctPc EXCEPT ![t] = f] \/ ctPc' = [ctPc EXCEPT ![t] = CtIdle]
      BY <2>2 DEF CtRunAdmitted, CtRunRaises
    <2>5. QED BY <1>1, <2>1, <2>3, <2>4, CtFacts
  <1>5. CtWritten \in Nat /\ CtWritten <= CtWritten' BY <1>3, CtFacts
  <1>6. ctSettled' \subseteq CtIds /\ \A x \in ctSettled' : CtClosed(ctLog', x) BY <1>2, <1>3, CtFacts
  <1>7. ctOutcomes' \in [CtIds -> Nat] /\ \A x \in CtIds : ctOutcomes'[x] <= CtWritten'
    BY <1>1, <1>2, <1>3, CtCounted
  <1>8. QED BY <1>3, <1>4, <1>5, <1>6, <1>7, CtStepOf

(* An epoch prune may take receipts of a settled continuation away, but      *)
(* never its marker and not what the marker closes.                          *)
LEMMA CtPruneStep ==
    ASSUME CtInv, NEW i \in DOMAIN ctLog, CtPrune(i)
    PROVE  CtInv'
  <1>1. /\ CtRoom(2) /\ ctLog' = SubSeq(ctLog, i + 1, Len(ctLog)) \o <<CtPlain, CtPlain>>
        /\ ctPruned' = ctPruned + i /\ UNCHANGED <<ctPc, ctSettled, ctOutcomes>>
    BY DEF CtPrune
  <1>2. PICK log : log = SubSeq(ctLog, i + 1, Len(ctLog)) OBVIOUS
  <1>3. ctLog \in Seq(CtReceipt) /\ Len(ctLog) \in Nat /\ ctPruned \in Nat /\ DOMAIN ctLog = 1..Len(ctLog)
        /\ i \in 1..Len(ctLog)
    BY CtFacts, LenProperties
  <1>4. log \in Seq(CtReceipt) /\ Len(log) = Len(ctLog) - i
    <2> HIDE DEF CtReceipt
    <2>1. QED BY <1>2, <1>3
  <1>5. ctPruned' \in Nat /\ ctPruned' + Len(log) = CtWritten
    <2>1. PICK n : n = Len(ctLog) OBVIOUS
    <2>2. n \in Nat /\ i \in 1..n /\ Len(log) = n - i /\ CtWritten = ctPruned + n
      BY <1>3, <1>4, <2>1 DEF CtWritten
    <2>3. ctPruned' = ctPruned + i BY <1>1
    <2>4. QED BY <1>3, <2>2, <2>3
  <1>6. \A x \in ctSettled : CtClosed(log, x) BY <1>2, <1>3, CtFacts, CtClosedPrune
  <1>7. /\ ctLog' \in Seq(CtReceipt)
        /\ CtWritten' = CtWritten + 2 /\ CtWritten' <= CtMaxReceipts
        /\ \A x \in ctSettled : CtClosed(ctLog', x)
    BY <1>1, <1>2, <1>4, <1>5, <1>6, CtPlainAppended
  <1>8. CtWritten \in Nat /\ CtWritten <= CtWritten' BY <1>7, CtFacts
  <1>9. ctOutcomes' \in [CtIds -> Nat] /\ \A x \in CtIds : ctOutcomes'[x] <= CtWritten'
    BY <1>1, <1>7, <1>8, CtFacts
  <1>10. QED BY <1>1, <1>5, <1>7, <1>8, <1>9, CtFacts, CtStepOf

(* CtInv is an invariant of the deferred operations. *)
THEOREM DeferredInvariance == CtSpec => []CtInv
  <1>1. CtInit => CtInv
    <2> SUFFICES ASSUME CtInit PROVE CtInv
      OBVIOUS
    <2>1. ctLog \in Seq(CtReceipt) /\ Len(ctLog) = 0 /\ CtMaxReceipts \in Nat
      BY EmptySeq, CtAssumption DEF CtInit
    <2>2. ctPc \in [CtThreads -> CtPlace] /\ \A t \in CtThreads : ctPc[t].at = "idle"
      BY CtPlainReceipt DEF CtInit, CtIdle
    <2>3. ctOutcomes \in [CtIds -> 0..CtMaxReceipts] /\ ctPruned \in 0..CtMaxReceipts
      BY <2>1 DEF CtInit
    <2>4. CtTypeOK BY <2>1, <2>2, <2>3 DEF CtInit, CtTypeOK, CtPlace
    <2>5. QED BY <2>1, <2>2, <2>4 DEF CtInit, CtInv
  <1>2. CtInv /\ [CtNext]_ctVars => CtInv'
    <2> SUFFICES ASSUME CtInv, [CtNext]_ctVars PROVE CtInv'
      OBVIOUS
    <2>1. ASSUME NEW t \in CtThreads, CtRefuse(t) \/ CtExpire(t) \/ CtResolve(t) PROVE CtInv'
      BY <2>1, CtMarkerStep DEF CtRefuse, CtExpire, CtResolve
    <2>2. CASE CtCrash
      <3>1. /\ UNCHANGED <<ctLog, ctPruned, ctSettled, ctOutcomes>>
            /\ ctPc' = [t \in CtThreads |-> CtIdle]
        BY <2>2 DEF CtCrash
      <3>2. CtWritten' = CtWritten BY <3>1 DEF CtWritten
      <3>3. CtWritten <= CtWritten' /\ CtWritten' <= CtMaxReceipts BY <3>2, CtFacts
      <3>4. ctPc' \in [CtThreads -> CtPlace] /\ \A t \in CtThreads : ctPc'[t].at = "idle"
        BY <3>1, CtPlainReceipt DEF CtIdle
      <3>5. QED BY <3>1, <3>2, <3>3, <3>4, CtFacts, CtStepOf
    <2>3. CASE UNCHANGED ctVars BY <2>3 DEF ctVars, CtInv, CtTypeOK
    <2>4. QED BY <2>1, <2>2, <2>3, CtDeferStep, CtOtherStep, CtLookUpStep, CtRunStep, CtPruneStep
              DEF CtNext
  <1>3. QED BY <1>1, <1>2, PTL DEF CtSpec

(* A continuation that was marked RESOLVED, EXPIRED or REFUSED, and not held *)
(* again since, is never re-entered: for any number of threads, receipts and *)
(* prunes, and wherever a crash comes.                                       *)
THEOREM SettledIsNotReentered == CtSpec => CtSettledNotReentered
  <1>1. ASSUME CtInv, [CtNext]_ctVars
        PROVE  [\A t \in CtThreads :
                  ctPc[t].at # "run" /\ ctPc'[t].at = "run" => ctPc'[t].rec.id \notin ctSettled]_ctVars
    <2>1. SUFFICES ASSUME CtNext, NEW t \in CtThreads, ctPc[t].at # "run", ctPc'[t].at = "run"
                   PROVE  ctPc'[t].rec.id \notin ctSettled
      BY <1>1
    <2>2. ctPc \in [CtThreads -> CtPlace] BY <1>1, CtFacts
    <2>3. \E id \in CtIds : CtLookUp(t, id)
      <3>1. CtIdle.at = "idle" BY DEF CtIdle
      <3>2. ctPc' # ctPc BY <2>1
      <3>3. PICK u \in CtThreads :
                \/ \E id \in CtIds : CtLookUp(u, id)
                \/ \E f : f.at # "run" /\ ctPc' = [ctPc EXCEPT ![u] = f]
                \/ CtCrash
        <4>1. ASSUME NEW u \in CtThreads, CtRunAdmitted(u)
              PROVE  \E f : f.at # "run" /\ ctPc' = [ctPc EXCEPT ![u] = f]
          <5>1. PICK f : f = [ctPc[u] EXCEPT !.at = "mark"] OBVIOUS
          <5>2. ctPc[u] \in CtPlace BY <2>2
          <5>3. f.at = "mark"
            <6> HIDE DEF CtReceipt
            <6>1. QED BY <5>1, <5>2 DEF CtPlace
          <5>4. ctPc' = [ctPc EXCEPT ![u] = f] BY <4>1, <5>1 DEF CtRunAdmitted
          <5>5. QED BY <5>3, <5>4
        <4>2. ASSUME NEW u \in CtThreads, CtRunRaises(u) \/ CtRefuse(u) \/ CtExpire(u) \/ CtResolve(u)
              PROVE  \E f : f.at # "run" /\ ctPc' = [ctPc EXCEPT ![u] = f]
          BY <3>1, <4>2 DEF CtRunRaises, CtRefuse, CtExpire, CtResolve, CtMarker
        <4>3. (\E id \in CtIds, b \in CtBasis : CtDefer(id, b)) \/ CtOther
              \/ (\E i \in DOMAIN ctLog : CtPrune(i)) => ctPc' = ctPc
          BY DEF CtDefer, CtOther, CtPrune
        <4>4. QED BY <2>1, <3>2, <4>1, <4>2, <4>3 DEF CtNext
      <3>4. ~CtCrash BY <2>1, <3>1 DEF CtCrash
      <3>5. ASSUME NEW f, f.at # "run", ctPc' = [ctPc EXCEPT ![u] = f] PROVE FALSE
        BY <2>1, <2>2, <3>5
      <3>6. PICK id \in CtIds : CtLookUp(u, id) BY <3>3, <3>4, <3>5
      <3>7. u = t
        <4>1. PICK f : ctPc' = [ctPc EXCEPT ![u] = f] BY <3>6 DEF CtLookUp
        <4>2. QED BY <2>1, <2>2, <4>1
      <3>8. QED BY <3>6, <3>7
    <2>4. PICK id \in CtIds : CtLookUp(t, id) BY <2>3
    <2>5. PICK rec : rec = CtFind(id) OBVIOUS
    <2>6. ctPc'[t].rec = rec /\ rec # CtPlain /\ rec.state = "HELD"
      BY <2>1, <2>2, <2>4, <2>5 DEF CtLookUp
    <2>7. PICK i \in DOMAIN ctLog : /\ rec = ctLog[i] /\ ctLog[i].id = id
                                    /\ \A j \in DOMAIN ctLog : ctLog[j].id = id => j <= i
      BY <1>1, <2>5, <2>6, CtFindLatest DEF CtInv
    <2>8. SUFFICES ASSUME id \in ctSettled PROVE FALSE BY <2>6, <2>7
    <2>9. PICK j \in DOMAIN ctLog : i < j /\ ctLog[j].id = id
      BY <1>1, <2>6, <2>7, <2>8, CtFacts DEF CtClosed
    <2>10. i \in Nat /\ j \in Nat /\ j <= i BY <1>1, <2>7, <2>9, CtFacts, LenProperties
    <2>11. QED BY <2>9, <2>10
  <1>2. QED BY <1>1, DeferredInvariance, PTL DEF CtSpec, CtSettledNotReentered
-----------------------------------------------------------------------------
(* The transport adapters.                                                 *)

TrCalling == {"exec", "outcome", "seam", "undone", "tip"}

TrAnswerSet == [call : 1..TrMaxCalls, kernel : 1..TrMaxKernels, tip : Nat, kind : TrKinds]

(* A thread in a call has a call number and a kernel; one that is not has no *)
(* nonce; whoever is founding the default kernel has one published.          *)
TrFrameOK(f, calls, kernels, default) ==
    /\ f.at \in TrCalling => f.call \in 1..calls /\ f.kernel \in 1..Len(kernels)
    /\ f.at \notin TrCalling => f.nonce = TrNoNonce
    /\ f.at \in {"ceremony", "session", "broker"} => default # 0

(* Two threads are in different calls, and in calls of different nonces. *)
TrApart(f, g) ==
    /\ f.at \in TrCalling /\ g.at \in TrCalling => f.call # g.call
    /\ f.nonce # TrNoNonce => f.nonce # g.nonce

(* A nonce in use is recorded, and what was executed under it is the call of *)
(* the thread that uses it.                                                  *)
TrNonceOK(f, seen, ran) ==
    f.nonce # TrNoNonce => f.nonce \in seen /\ \A x \in ran : x[1] = f.nonce => x[2] = f.call

TrHasReceipt(chain, call) == \E i \in DOMAIN chain : chain[i] = call

(* A call past its first receipt has it in its kernel's chain; one that is   *)
(* to be answered and was not stopped by an unexpected exception has one too.*)
TrReceipted(f, kernels) ==
    \/ f.at \in {"outcome", "seam", "undone"}
    \/ f.at = "tip" /\ f.kind # "error"
    => TrHasReceipt(kernels[f.kernel].chain, f.call)

(* An answered call is over ... *)
TrOver(a, f) == f.at \in TrCalling => f.call # a.call

(* ... and its answer covers all of its receipts. *)
TrCovered(a, kernels, calls) ==
    /\ a.call \in 1..calls /\ a.kernel \in 1..Len(kernels)
    /\ a.kind # "error" => TrHasReceipt(kernels[a.kernel].chain, a.call)
    /\ \A i \in DOMAIN kernels[a.kernel].chain : kernels[a.kernel].chain[i] = a.call => i <= a.tip

TrInv ==
    /\ TrTypeOK /\ trKernels # <<>>
    /\ \A t \in TrThreads :
        /\ TrFrameOK(trPc[t], trCalls, trKernels, trDefault)
        /\ TrNonceOK(trPc[t], trSeen, trRan)
        /\ TrReceipted(trPc[t], trKernels)
    /\ \A t, u \in TrThreads : t # u => TrApart(trPc[t], trPc[u])
    /\ \A x \in trRan : x[1] \in trSeen
    /\ TrNonceOnce
    /\ \A a \in trAnswers :
        TrCovered(a, trKernels, trCalls) /\ \A t \in TrThreads : TrOver(a, trPc[t])

(* The kernels go on from one state to the next: a chain is as before or has *)
(* one more receipt, of the given call.                                      *)
TrGrowsBy(c) ==
    /\ trKernels' \in Seq(TrKernel) /\ Len(trKernels) <= Len(trKernels') /\ Len(trKernels') <= TrMaxKernels
    /\ \A k \in 1..Len(trKernels) :
        trKernels'[k].chain \in {trKernels[k].chain, Append(trKernels[k].chain, c)}

(* A receipt at the end of a chain keeps the others, and keeps every answer  *)
(* about another call covered.                                               *)
LEMMA TrChainGrows ==
    ASSUME NEW S, NEW chain \in Seq(S), NEW c \in S
    PROVE  /\ \A call : TrHasReceipt(chain, call) => TrHasReceipt(Append(chain, c), call)
           /\ TrHasReceipt(Append(chain, c), c)
           /\ \A call, tip :
                call # c /\ (\A i \in DOMAIN chain : chain[i] = call => i <= tip) =>
                    \A i \in DOMAIN Append(chain, c) : Append(chain, c)[i] = call => i <= tip
  <1>1. PICK n, app : n = Len(chain) /\ app = Append(chain, c) OBVIOUS
  <1>2. /\ n \in Nat /\ DOMAIN chain = 1..n /\ DOMAIN app = 1..(n + 1) /\ app[n + 1] = c
        /\ \A i \in 1..n : app[i] = chain[i]
    BY <1>1
  <1>3. \A i \in DOMAIN app : i \in DOMAIN chain \/ i = n + 1 BY <1>2
  <1>4. \A i \in DOMAIN chain : i \in DOMAIN app BY <1>2
  <1>5. n + 1 \in DOMAIN app BY <1>2
  <1>6. \A call : TrHasReceipt(chain, call) => TrHasReceipt(app, call)
    BY <1>2, <1>4 DEF TrHasReceipt
  <1>7. TrHasReceipt(app, c) BY <1>2, <1>5 DEF TrHasReceipt
  <1>8. ASSUME NEW call, NEW tip, call # c, \A i \in DOMAIN chain : chain[i] = call => i <= tip,
               NEW i \in DOMAIN app, app[i] = call
        PROVE  i <= tip
    BY <1>2, <1>3, <1>8
  <1>9. QED BY <1>1, <1>6, <1>7, <1>8

(* What holds of a kernel's chain goes on to hold when the kernels grow. *)
LEMMA TrGrowthKeeps ==
    ASSUME trKernels \in Seq(TrKernel), trCalls \in Nat, trCalls' \in Nat, trCalls <= trCalls',
           NEW c \in 0..TrMaxCalls, TrGrowsBy(c)
    PROVE  /\ \A f : f.at \in TrCalling /\ f.kernel \in 1..Len(trKernels) /\ TrReceipted(f, trKernels)
                        => TrReceipted(f, trKernels')
           /\ \A a : TrCovered(a, trKernels, trCalls) /\ a.call # c => TrCovered(a, trKernels', trCalls')
  <1>1. PICK n, m : n = Len(trKernels) /\ m = Len(trKernels') OBVIOUS
  <1>2. n \in Nat /\ m \in Nat /\ n <= m BY <1>1, LenProperties DEF TrGrowsBy
  <1>3. \A k \in 1..n : trKernels[k].chain \in Seq(0..TrMaxCalls)
    <2> TAKE k \in 1..n
    <2>1. trKernels[k] \in TrKernel BY <1>1, ElementOfSeq
    <2>2. QED BY <2>1 DEF TrKernel
  <1>4. \A k \in 1..n : \A call :
            TrHasReceipt(trKernels[k].chain, call) => TrHasReceipt(trKernels'[k].chain, call)
    <2> TAKE k \in 1..n
    <2> TAKE call
    <2>1. trKernels'[k].chain \in {trKernels[k].chain, Append(trKernels[k].chain, c)}
      BY <1>1 DEF TrGrowsBy
    <2>2. PICK chain : chain = trKernels[k].chain OBVIOUS
    <2>3. chain \in Seq(0..TrMaxCalls) BY <1>3, <2>2
    <2>4. TrHasReceipt(chain, call) => TrHasReceipt(Append(chain, c), call) BY <2>3, TrChainGrows
    <2>5. QED BY <2>1, <2>2, <2>4
  <1>5. ASSUME NEW f, f.at \in TrCalling, f.kernel \in 1..Len(trKernels), TrReceipted(f, trKernels)
        PROVE  TrReceipted(f, trKernels')
    BY <1>1, <1>4, <1>5 DEF TrReceipted
  <1>6. ASSUME NEW a, TrCovered(a, trKernels, trCalls), a.call # c
        PROVE  TrCovered(a, trKernels', trCalls')
    <2>1. PICK k, call, tip : k = a.kernel /\ call = a.call /\ tip = a.tip OBVIOUS
    <2>2. /\ call \in 1..trCalls /\ k \in 1..n
          /\ a.kind # "error" => TrHasReceipt(trKernels[k].chain, call)
          /\ \A i \in DOMAIN trKernels[k].chain : trKernels[k].chain[i] = call => i <= tip
      BY <1>1, <1>6, <2>1 DEF TrCovered
    <2>3. call \in 1..trCalls' /\ k \in 1..m BY <1>2, <2>2
    <2>4. a.kind # "error" => TrHasReceipt(trKernels'[k].chain, call) BY <1>4, <2>2
    <2>5. \A i \in DOMAIN trKernels'[k].chain : trKernels'[k].chain[i] = call => i <= tip
      <3>1. trKernels'[k].chain \in {trKernels[k].chain, Append(trKernels[k].chain, c)}
        BY <1>1, <2>2 DEF TrGrowsBy
      <3>2. QED BY <1>3, <1>6, <2>1, <2>2, <3>1, TrChainGrows
    <2>6. QED BY <1>1, <2>1, <2>3, <2>4, <2>5 DEF TrCovered
  <1>7. QED BY <1>5, <1>6

(* The facts of the type invariant in the form the steps use them. *)
LEMMA TrFacts ==
    ASSUME TrInv
    PROVE  /\ trKernels \in Seq(TrKernel) /\ Len(trKernels) \in Nat /\ Len(trKernels) <= TrMaxKernels
           /\ 1 \in 1..Len(trKernels) /\ TrMaxKernels \in Nat /\ TrMaxCalls \in Nat
           /\ trDefault \in 0..Len(trKernels) /\ trBroker \in 0..Len(trKernels)
           /\ trSeen \subseteq TrNonces /\ trRan \subseteq TrNonces \X (1..TrMaxCalls)
           /\ trCalls \in Nat /\ trCalls <= TrMaxCalls
           /\ trPc \in [TrThreads -> TrFrame] /\ trAnswers \subseteq TrAnswerSet
           /\ \A k \in 1..Len(trKernels) : trKernels[k] \in TrKernel
  <1>1. TrTypeOK /\ trKernels # <<>> /\ TrMaxKernels \in Nat /\ TrMaxCalls \in Nat
    BY TrAssumption DEF TrInv
  <1>2. trKernels \in Seq(TrKernel) /\ Len(trKernels) <= TrMaxKernels BY <1>1 DEF TrTypeOK
  <1>3. Len(trKernels) \in Nat /\ Len(trKernels) # 0 BY <1>1, <1>2, LenProperties, EmptySeq
  <1>4. trCalls \in Nat /\ trCalls <= TrMaxCalls BY <1>1 DEF TrTypeOK
  <1>5. 1 \in 1..Len(trKernels) BY <1>3
  <1>6. \A k \in 1..Len(trKernels) : trKernels[k] \in TrKernel BY <1>2, ElementOfSeq
  <1>7. QED BY <1>1, <1>2, <1>3, <1>4, <1>5, <1>6 DEF TrTypeOK, TrAnswerSet

(* What thread t's new frame f has to be: of a call that is new or was the   *)
(* thread's already, with a nonce that is new or was the thread's already.   *)
TrFollows(t, f) ==
    /\ f.at \in TrCalling =>
        f.call = trCalls + 1 \/ (trPc[t].at \in TrCalling /\ f.call = trPc[t].call)
    /\ f.nonce # TrNoNonce =>
        \/ f.nonce \notin trSeen /\ f.nonce \in trSeen' /\ trRan' = trRan
        \/ f.nonce = trPc[t].nonce /\ f.call = trPc[t].call

(* What the state besides the threads has to be after a step of thread t. *)
TrRest(t, c) ==
    /\ trDefault' \in 0..Len(trKernels') /\ trBroker' \in 0..Len(trKernels')
    /\ trDefault # 0 => trDefault' # 0
    /\ trCalls' \in {trCalls, trCalls + 1} /\ trCalls' <= TrMaxCalls
    /\ trSeen \subseteq trSeen' /\ trSeen' \subseteq TrNonces
    /\ \/ trRan' = trRan
       \/ /\ trPc[t].at \in TrCalling /\ trPc[t].nonce # TrNoNonce
          /\ trRan' = trRan \cup {<<trPc[t].nonce, trPc[t].call>>}
    /\ c = 0 \/ c = trCalls + 1 \/ (trPc[t].at \in TrCalling /\ c = trPc[t].call)

(* A new answer: it covers its call, which no other thread is in and which   *)
(* thread t is no longer in.                                                 *)
TrGoodAnswer(t, f, a) ==
    /\ a \in TrAnswerSet /\ TrCovered(a, trKernels', trCalls') /\ TrOver(a, f)
    /\ \A u \in TrThreads \ {t} : TrOver(a, trPc[u])

(* The nonces after a step of thread t. *)
LEMMA TrNoncesKept ==
    ASSUME TrInv, NEW t \in TrThreads, NEW f, NEW c, TrFollows(t, f), TrRest(t, c)
    PROVE  /\ TrNonceOK(f, trSeen', trRan')
           /\ \A u \in TrThreads \ {t} : TrNonceOK(trPc[u], trSeen', trRan')
           /\ \A x \in trRan' : x[1] \in trSeen'
           /\ TrNonceOnce'
           /\ trRan' \subseteq TrNonces \X (1..TrMaxCalls)
  <1>1. PICK n, call : n = trPc[t].nonce /\ call = trPc[t].call OBVIOUS
  <1>2. /\ \A u \in TrThreads : TrNonceOK(trPc[u], trSeen, trRan)
        /\ \A u \in TrThreads \ {t} : TrApart(trPc[u], trPc[t])
        /\ \A x \in trRan : x[1] \in trSeen
        /\ TrNonceOnce
    BY DEF TrInv
  <1>3. trSeen \subseteq trSeen' /\ (trRan' = trRan \/ (n # TrNoNonce /\ trRan' = trRan \cup {<<n, call>>}))
    BY <1>1 DEF TrRest
  <1>4. n # TrNoNonce => n \in trSeen /\ \A x \in trRan : x[1] = n => x[2] = call
    BY <1>1, <1>2 DEF TrNonceOK
  <1>5. TrNonceOK(f, trSeen', trRan')
    BY <1>1, <1>2, <1>3, <1>4 DEF TrNonceOK, TrFollows
  <1>6. \A u \in TrThreads \ {t} : TrNonceOK(trPc[u], trSeen', trRan')
    BY <1>1, <1>2, <1>3 DEF TrNonceOK, TrApart
  <1>7. \A x \in trRan' : x[1] \in trSeen' BY <1>2, <1>3, <1>4
  <1>8. trRan' \subseteq TrNonces \X (1..TrMaxCalls)
    <2>1. trRan \subseteq TrNonces \X (1..TrMaxCalls) /\ trSeen \subseteq TrNonces /\ trCalls \in Nat
          /\ trCalls <= TrMaxCalls /\ TrMaxCalls \in Nat
      BY TrFacts
    <2>2. trPc[t].at \in TrCalling => call \in 1..trCalls BY <1>1 DEF TrInv, TrFrameOK
    <2>3. CASE trRan' = trRan BY <2>1, <2>3
    <2>4. CASE trRan' # trRan
      <3>1. trPc[t].at \in TrCalling /\ n # TrNoNonce /\ trRan' = trRan \cup {<<n, call>>}
        BY <1>1, <2>4 DEF TrRest
      <3>2. n \in TrNonces /\ call \in 1..TrMaxCalls BY <1>4, <2>1, <2>2, <3>1
      <3>3. QED BY <2>1, <3>1, <3>2
    <2>5. QED BY <2>3, <2>4
  <1>9. ASSUME NEW x \in trRan', NEW y \in trRan', x[1] = y[1] PROVE x = y
    <2>1. \A z \in trRan' : z = <<z[1], z[2]>> BY <1>8
    <2>2. CASE x \in trRan /\ y \in trRan BY <1>2, <1>9, <2>2 DEF TrNonceOnce
    <2>3. CASE x \notin trRan \/ y \notin trRan
      <3>1. n # TrNoNonce /\ trRan' = trRan \cup {<<n, call>>} BY <1>3, <2>3
      <3>2. \A z \in trRan' : z[1] = n => z[2] = call
        <4>1. <<n, call>>[2] = call OBVIOUS
        <4>2. QED BY <1>4, <3>1, <4>1
      <3>3. x[1] = n BY <1>9, <2>3, <3>1
      <3>4. x[2] = call /\ y[2] = call BY <1>9, <3>2, <3>3
      <3>5. QED BY <1>9, <2>1, <3>4
    <2>4. QED BY <2>2, <2>3
  <1>10. TrNonceOnce' BY <1>9 DEF TrNonceOnce
  <1>11. QED BY <1>5, <1>6, <1>7, <1>8, <1>10

(* A step of thread t: its frame becomes f, the chains grow by receipts of   *)
(* the call c, and the answers by the set A.                                 *)
LEMMA TrStepOf ==
    ASSUME TrInv, NEW t \in TrThreads, NEW f \in TrFrame, NEW c \in 0..TrMaxCalls, NEW A,
           trPc' = [trPc EXCEPT ![t] = f], TrGrowsBy(c), TrRest(t, c), TrFollows(t, f),
           TrFrameOK(f, trCalls', trKernels', trDefault'), TrReceipted(f, trKernels'),
           trAnswers' = trAnswers \cup A, \A a \in A : TrGoodAnswer(t, f, a)
    PROVE  TrInv'
  <1>1. /\ trKernels \in Seq(TrKernel) /\ Len(trKernels) \in Nat /\ 1 \in 1..Len(trKernels)
        /\ trCalls \in Nat /\ trCalls <= TrMaxCalls /\ TrMaxCalls \in Nat
        /\ trPc \in [TrThreads -> TrFrame] /\ trAnswers \subseteq TrAnswerSet
    BY TrFacts
  <1>2. /\ trCalls' \in Nat /\ trCalls <= trCalls' /\ trCalls' \in 0..TrMaxCalls
    BY <1>1 DEF TrRest
  <1>3. /\ trKernels' \in Seq(TrKernel) /\ Len(trKernels') \in Nat /\ Len(trKernels) <= Len(trKernels')
        /\ Len(trKernels') <= TrMaxKernels
    BY LenProperties DEF TrGrowsBy
  <1>4. trPc' \in [TrThreads -> TrFrame] /\ trPc'[t] = f /\ \A u \in TrThreads \ {t} : trPc'[u] = trPc[u]
    BY <1>1
  <1>5. /\ TrNonceOK(f, trSeen', trRan')
        /\ \A u \in TrThreads \ {t} : TrNonceOK(trPc[u], trSeen', trRan')
        /\ \A x \in trRan' : x[1] \in trSeen'
        /\ TrNonceOnce'
        /\ trRan' \subseteq TrNonces \X (1..TrMaxCalls)
    BY TrNoncesKept
  <1>6. \A u \in TrThreads \ {t} :
            /\ TrFrameOK(trPc[u], trCalls', trKernels', trDefault')
            /\ TrReceipted(trPc[u], trKernels')
    <2> TAKE u \in TrThreads \ {t}
    <2>1. TrFrameOK(trPc[u], trCalls, trKernels, trDefault) /\ TrReceipted(trPc[u], trKernels)
      BY DEF TrInv
    <2>2. trPc[u].at \in TrCalling =>
              /\ trPc[u].call \in 1..trCalls /\ trPc[u].kernel \in 1..Len(trKernels)
      BY <2>1 DEF TrFrameOK
    <2>3. trPc[u].at \in TrCalling =>
              /\ trPc[u].call \in 1..trCalls' /\ trPc[u].kernel \in 1..Len(trKernels')
      BY <1>1, <1>2, <1>3, <2>2
    <2>4. TrFrameOK(trPc[u], trCalls', trKernels', trDefault')
      BY <2>1, <2>3 DEF TrFrameOK, TrRest
    <2>5. TrReceipted(trPc[u], trKernels')
      <3>1. CASE trPc[u].at \in TrCalling BY <1>1, <1>2, <2>1, <2>2, <3>1, TrGrowthKeeps
      <3>2. CASE trPc[u].at \notin TrCalling BY <3>2 DEF TrReceipted, TrCalling
      <3>3. QED BY <3>1, <3>2
    <2>6. QED BY <2>4, <2>5
  <1>7. \A u \in TrThreads \ {t} : TrApart(f, trPc[u]) /\ TrApart(trPc[u], f)
    <2> TAKE u \in TrThreads \ {t}
    <2>1. TrApart(trPc[t], trPc[u]) /\ TrApart(trPc[u], trPc[t]) BY DEF TrInv
    <2>2. trPc[u].at \in TrCalling => trPc[u].call \in 1..trCalls BY DEF TrInv, TrFrameOK
    <2>3. trPc[u].nonce # TrNoNonce => trPc[u].nonce \in trSeen BY DEF TrInv, TrNonceOK
    <2>4. f.at \in TrCalling /\ trPc[u].at \in TrCalling => f.call # trPc[u].call
      BY <1>1, <2>1, <2>2 DEF TrFollows, TrApart
    <2>5. f.nonce # TrNoNonce => f.nonce # trPc[u].nonce
      BY <2>1, <2>3 DEF TrFollows, TrApart
    <2>6. QED BY <2>4, <2>5 DEF TrApart
  <1>8. \A a \in trAnswers' :
            /\ a \in TrAnswerSet /\ TrCovered(a, trKernels', trCalls')
            /\ TrOver(a, f) /\ \A u \in TrThreads \ {t} : TrOver(a, trPc[u])
    <2> TAKE a \in trAnswers'
    <2>1. CASE a \in A BY <2>1 DEF TrGoodAnswer
    <2>2. CASE a \in trAnswers
      <3>1. TrCovered(a, trKernels, trCalls) /\ \A u \in TrThreads : TrOver(a, trPc[u])
        BY <2>2 DEF TrInv
      <3>2. a.call \in 1..trCalls BY <3>1 DEF TrCovered
      <3>3. trPc[t].at \in TrCalling => trPc[t].call # a.call BY <3>1 DEF TrOver
      <3>4. a.call # c BY <1>1, <3>2, <3>3 DEF TrRest
      <3>5. TrCovered(a, trKernels', trCalls') BY <1>1, <1>2, <3>1, <3>4, TrGrowthKeeps
      <3>6. TrOver(a, f) BY <1>1, <3>2, <3>3 DEF TrOver, TrFollows
      <3>7. QED BY <1>1, <2>2, <3>1, <3>5, <3>6
    <2>3. QED BY <2>1, <2>2
  <1>9. TrTypeOK'
    BY <1>2, <1>3, <1>4, <1>5, <1>8 DEF TrTypeOK, TrRest, TrAnswerSet
  <1>10. trKernels' # <<>> BY <1>1, <1>3, EmptySeq
  <1>11. \A u \in TrThreads :
            /\ TrFrameOK(trPc'[u], trCalls', trKernels', trDefault')
            /\ TrNonceOK(trPc'[u], trSeen', trRan')
            /\ TrReceipted(trPc'[u], trKernels')
    BY <1>4, <1>5, <1>6
  <1>12. \A u, v \in TrThreads : u # v => TrApart(trPc'[u], trPc'[v])
    BY <1>4, <1>7 DEF TrInv
  <1>13. \A a \in trAnswers' :
            TrCovered(a, trKernels', trCalls') /\ \A u \in TrThreads : TrOver(a, trPc'[u])
    BY <1>4, <1>8
  <1>14. QED BY <1>5, <1>9, <1>10, <1>11, <1>12, <1>13 DEF TrInv

(* The same step when it answers nothing. *)
LEMMA TrSilentStep ==
    ASSUME TrInv, NEW t \in TrThreads, NEW f \in TrFrame, NEW c \in 0..TrMaxCalls,
           trPc' = [trPc EXCEPT ![t] = f], TrGrowsBy(c), TrRest(t, c), TrFollows(t, f),
           TrFrameOK(f, trCalls', trKernels', trDefault'), TrReceipted(f, trKernels'),
           trAnswers' = trAnswers
    PROVE  TrInv'
  <1>1. PICK A : A = {} OBVIOUS
  <1>2. trAnswers' = trAnswers \cup A BY <1>1
  <1>3. \A a \in A : TrGoodAnswer(t, f, a) BY <1>1
  <1>4. QED BY <1>2, <1>3, TrStepOf

(* A receipt of call c in kernel k's chain. *)
LEMMA TrReceiptGrows ==
    ASSUME TrInv, NEW k \in 1..Len(trKernels), NEW c \in 0..TrMaxCalls, TrAppend(k, c)
    PROVE  /\ TrGrowsBy(c) /\ Len(trKernels') = Len(trKernels)
           /\ trKernels'[k].chain = Append(trKernels[k].chain, c)
           /\ \A j \in 1..Len(trKernels) : j # k => trKernels'[j] = trKernels[j]
  <1>1. /\ trKernels \in Seq(TrKernel) /\ Len(trKernels) \in Nat /\ Len(trKernels) <= TrMaxKernels
        /\ trKernels[k] \in TrKernel
    BY TrFacts
  <1>2. PICK chain : chain = Append(trKernels[k].chain, c) OBVIOUS
  <1>3. PICK r : r = [trKernels[k] EXCEPT !.chain = chain] OBVIOUS
  <1>4. chain \in Seq(0..TrMaxCalls) BY <1>1, <1>2, AppendProperties DEF TrKernel
  <1>5. r \in TrKernel /\ r.chain = chain BY <1>1, <1>3, <1>4 DEF TrKernel
  <1>6. trKernels' = [trKernels EXCEPT ![k] = r] BY <1>2, <1>3 DEF TrAppend
  <1> HIDE DEF TrKernel
  <1>7. /\ trKernels' \in Seq(TrKernel) /\ Len(trKernels') = Len(trKernels) /\ trKernels'[k] = r
        /\ \A j \in 1..Len(trKernels) : j # k => trKernels'[j] = trKernels[j]
    BY <1>1, <1>5, <1>6, ExceptSeq
  <1>8. ASSUME NEW j \in 1..Len(trKernels)
        PROVE  trKernels'[j].chain \in {trKernels[j].chain, Append(trKernels[j].chain, c)}
    BY <1>2, <1>5, <1>7
  <1>9. QED BY <1>1, <1>2, <1>5, <1>7, <1>8 DEF TrGrowsBy

(* Kernels that stay as they are grow by nothing. *)
LEMMA TrNoReceipt == ASSUME TrInv, trKernels' = trKernels, NEW c PROVE TrGrowsBy(c)
  BY TrFacts DEF TrGrowsBy

(* A thread begins a call: with the next call number, on a kernel, and with  *)
(* a nonce nobody has sent before, or none.                                  *)
LEMMA TrNewCallStep ==
    ASSUME TrInv, NEW t \in TrThreads, NEW k \in 1..Len(trKernels), NEW nonce \in TrNonces \cup {TrNoNonce},
           trCalls < TrMaxCalls, trCalls' = trCalls + 1,
           trPc' = [trPc EXCEPT ![t] = TrCallFrame(k, nonce)],
           \/ nonce = TrNoNonce /\ trSeen' = trSeen
           \/ nonce \in TrNonces /\ nonce \notin trSeen /\ trSeen' = trSeen \cup {nonce},
           UNCHANGED <<trKernels, trDefault, trBroker, trRan, trAnswers>>
    PROVE  TrInv'
  <1>1. /\ Len(trKernels) \in Nat /\ Len(trKernels) <= TrMaxKernels /\ TrMaxKernels \in Nat
        /\ trCalls \in Nat /\ TrMaxCalls \in Nat
        /\ trDefault \in 0..Len(trKernels) /\ trBroker \in 0..Len(trKernels) /\ trSeen \subseteq TrNonces
    BY TrFacts
  <1>2. PICK f : f = TrCallFrame(k, nonce) OBVIOUS
  <1>3. f.at = "exec" /\ f.kernel = k /\ f.call = trCalls + 1 /\ f.nonce = nonce BY <1>2 DEF TrCallFrame
  <1>4. f \in TrFrame
    <2>1. k \in 0..TrMaxKernels /\ trCalls + 1 \in 0..TrMaxCalls BY <1>1
    <2>2. QED BY <1>2, <2>1 DEF TrCallFrame, TrFrame, TrPlaces, TrKinds
  <1>5. 0 \in 0..TrMaxCalls /\ TrGrowsBy(0) BY <1>1, TrNoReceipt
  <1>6. TrRest(t, 0) BY <1>1 DEF TrRest
  <1>7. TrFollows(t, f) BY <1>3 DEF TrFollows
  <1>8. trCalls + 1 \in 1..trCalls' BY <1>1
  <1>9. TrFrameOK(f, trCalls', trKernels', trDefault') /\ TrReceipted(f, trKernels')
    BY <1>3, <1>8 DEF TrFrameOK, TrReceipted, TrCalling
  <1>10. trPc' = [trPc EXCEPT ![t] = f] /\ trAnswers' = trAnswers BY <1>2
  <1>11. QED BY <1>4, <1>5, <1>6, <1>7, <1>9, <1>10, TrSilentStep

(* The three ways in: an RPC request, a broker call, an agent call. *)
LEMMA TrCallsBegin ==
    ASSUME TrInv, NEW t \in TrThreads,
           (\E n \in TrNonces : TrGovern(t, n)) \/ TrSubmit(t, 1) \/ TrAgentGovern(t)
    PROVE  TrInv'
  <1>1. 1 \in 1..Len(trKernels) /\ trBroker \in 0..Len(trKernels) /\ Len(trKernels) \in Nat BY TrFacts
  <1>2. ASSUME NEW n \in TrNonces, TrGovern(t, n) PROVE TrInv'
    BY <1>1, <1>2, TrNewCallStep DEF TrGovern
  <1>3. CASE TrSubmit(t, 1) BY <1>1, <1>3, TrNewCallStep DEF TrSubmit
  <1>4. CASE TrAgentGovern(t)
    <2>1. trBroker \in 1..Len(trKernels) BY <1>1, <1>4 DEF TrAgentGovern
    <2>2. QED BY <1>4, <2>1, TrNewCallStep DEF TrAgentGovern
  <1>5. QED BY <1>2, <1>3, <1>4

(* A thread outside a call goes to another place outside a call; the default *)
(* kernel, once published, stays so.                                         *)
LEMMA TrOutsideStep ==
    ASSUME TrInv, NEW t \in TrThreads, trPc[t].at \notin TrCalling, NEW f \in TrFrame,
           f.at \notin TrCalling, f.nonce = TrNoNonce,
           f.at \in {"ceremony", "session", "broker"} => trDefault' # 0,
           trPc' = [trPc EXCEPT ![t] = f], TrGrowsBy(0),
           trDefault' \in 0..Len(trKernels'), trBroker' \in 0..Len(trKernels'),
           trDefault # 0 => trDefault' # 0,
           UNCHANGED <<trSeen, trRan, trCalls, trAnswers>>
    PROVE  TrInv'
  <1>1. trCalls \in Nat /\ trCalls <= TrMaxCalls /\ TrMaxCalls \in Nat /\ trSeen \subseteq TrNonces
    BY TrFacts
  <1>2. TrRest(t, 0) BY <1>1 DEF TrRest
  <1>3. TrFollows(t, f) BY DEF TrFollows
  <1>4. TrFrameOK(f, trCalls', trKernels', trDefault') /\ TrReceipted(f, trKernels')
    BY DEF TrFrameOK, TrReceipted, TrCalling
  <1>5. trAnswers' = trAnswers /\ 0 \in 0..TrMaxCalls BY <1>1
  <1>6. QED BY <1>2, <1>3, <1>4, <1>5, TrSilentStep

(* The frames outside a call. *)
LEMMA TrOutsideFrames ==
    ASSUME TrInv, NEW t \in TrThreads
    PROVE  /\ TrFree \in TrFrame /\ TrFree.at = "idle" /\ TrFree.nonce = TrNoNonce
           /\ trPc[t] \in TrFrame
           /\ \A at \in TrPlaces :
                /\ [trPc[t] EXCEPT !.at = at] \in TrFrame
                /\ [trPc[t] EXCEPT !.at = at].at = at
                /\ [trPc[t] EXCEPT !.at = at].nonce = trPc[t].nonce
                /\ [trPc[t] EXCEPT !.at = at].call = trPc[t].call
                /\ [trPc[t] EXCEPT !.at = at].kernel = trPc[t].kernel
           /\ trPc[t].at \notin TrCalling => trPc[t].nonce = TrNoNonce
  <1>1. trPc[t] \in TrFrame /\ TrMaxCalls \in Nat /\ TrMaxKernels \in Nat BY TrFacts
  <1>2. TrFree \in TrFrame /\ TrFree.at = "idle" /\ TrFree.nonce = TrNoNonce
    BY <1>1 DEF TrFree, TrFrame, TrPlaces, TrKinds
  <1>3. ASSUME NEW at \in TrPlaces
        PROVE  /\ [trPc[t] EXCEPT !.at = at] \in TrFrame
               /\ [trPc[t] EXCEPT !.at = at].at = at
               /\ [trPc[t] EXCEPT !.at = at].nonce = trPc[t].nonce
               /\ [trPc[t] EXCEPT !.at = at].call = trPc[t].call
               /\ [trPc[t] EXCEPT !.at = at].kernel = trPc[t].kernel
    BY <1>1 DEF TrFrame
  <1>4. trPc[t].at \notin TrCalling => trPc[t].nonce = TrNoNonce BY DEF TrInv, TrFrameOK
  <1>5. QED BY <1>1, <1>2, <1>3, <1>4

(* What the steps to the default kernel do: missing, already there, broker   *)
(* published, or no broker to call.                                          *)
LEMMA TrDefaultQuiet ==
    ASSUME TrInv, NEW t \in TrThreads,
           TrDefaultMissing(t) \/ TrDefaultThere(t) \/ TrDefaultBroker(t) \/ TrAgentRaises(t)
    PROVE  TrInv'
  <1>1. trDefault \in 0..Len(trKernels) /\ trBroker \in 0..Len(trKernels) BY TrFacts
  <1>2. trKernels' = trKernels /\ TrGrowsBy(0)
    BY TrNoReceipt DEF TrDefaultMissing, TrDefaultThere, TrDefaultBroker, TrAgentRaises
  <1>3. PICK at : at = IF TrDefaultMissing(t) THEN "default" ELSE "got" OBVIOUS
  <1>4. PICK f : f = IF TrAgentRaises(t) THEN TrFree ELSE [trPc[t] EXCEPT !.at = at] OBVIOUS
  <1>5. at \in TrPlaces /\ at \notin TrCalling /\ at \notin {"ceremony", "session", "broker"}
    BY <1>3 DEF TrPlaces, TrCalling
  <1>6. trPc[t].at \notin TrCalling
    BY TrOutsideFrames DEF TrDefaultMissing, TrDefaultThere, TrDefaultBroker, TrAgentRaises, TrCalling
  <1>7. f \in TrFrame /\ f.nonce = TrNoNonce BY <1>4, <1>5, <1>6, TrOutsideFrames
  <1>8. f.at \notin TrCalling /\ f.at \notin {"ceremony", "session", "broker"}
    <2>1. "idle" \notin TrCalling /\ "idle" \notin {"ceremony", "session", "broker"} BY DEF TrCalling
    <2>2. QED BY <1>4, <1>5, <2>1, TrOutsideFrames
  <1>9. trPc' = [trPc EXCEPT ![t] = f]
    <2>1. CASE TrAgentRaises(t) BY <1>4, <2>1 DEF TrAgentRaises
    <2>2. CASE ~TrAgentRaises(t) /\ TrDefaultMissing(t)
      BY <1>3, <1>4, <2>2 DEF TrDefaultMissing
    <2>3. CASE ~TrAgentRaises(t) /\ ~TrDefaultMissing(t)
      BY <1>3, <1>4, <2>3 DEF TrDefaultThere, TrDefaultBroker, TrMove
    <2>4. QED BY <2>1, <2>2, <2>3
  <1>10. /\ trDefault' = trDefault /\ trBroker' \in {trBroker, trDefault}
         /\ UNCHANGED <<trSeen, trRan, trCalls, trAnswers>>
    BY DEF TrDefaultMissing, TrDefaultThere, TrDefaultBroker, TrAgentRaises
  <1>11. trDefault' \in 0..Len(trKernels') /\ trBroker' \in 0..Len(trKernels') BY <1>1, <1>2, <1>10
  <1>12. QED BY <1>2, <1>6, <1>7, <1>8, <1>9, <1>10, <1>11, TrOutsideStep

(* The default kernel is built, and published before it is founded. *)
LEMMA TrDefaultBuiltKeeps ==
    ASSUME TrInv, NEW t \in TrThreads, TrDefaultBuilt(t)
    PROVE  TrInv'
  <1>1. /\ trKernels \in Seq(TrKernel) /\ Len(trKernels) \in Nat /\ TrMaxKernels \in Nat
        /\ trBroker \in 0..Len(trKernels)
    BY TrFacts
  <1>2. Len(trKernels) < TrMaxKernels BY DEF TrDefaultBuilt
  <1>3. PICK n, new : n = Len(trKernels) /\ new = [founded |-> FALSE, chain |-> <<>>] OBVIOUS
  <1>4. new \in TrKernel
    <2>1. <<>> \in Seq(0..TrMaxCalls) BY EmptySeq
    <2>2. QED BY <1>3, <2>1 DEF TrKernel
  <1>5. trKernels' = Append(trKernels, new) BY <1>3 DEF TrDefaultBuilt
  <1>6. /\ trKernels' \in Seq(TrKernel) /\ Len(trKernels') = n + 1
        /\ \A k \in 1..n : trKernels'[k] = trKernels[k]
    BY <1>1, <1>3, <1>4, <1>5, AppendProperties
  <1>7. TrGrowsBy(0)
    <2>1. n <= n + 1 /\ n + 1 <= TrMaxKernels BY <1>1, <1>2, <1>3
    <2>2. QED BY <1>3, <1>6, <2>1 DEF TrGrowsBy
  <1>8. PICK f : f = [trPc[t] EXCEPT !.at = "ceremony"] OBVIOUS
  <1>9. trPc[t].at \notin TrCalling BY DEF TrDefaultBuilt, TrCalling
  <1>10. f \in TrFrame /\ f.at = "ceremony" /\ f.nonce = TrNoNonce
    <2>1. "ceremony" \in TrPlaces BY DEF TrPlaces
    <2>2. QED BY <1>8, <1>9, <2>1, TrOutsideFrames
  <1>11. f.at \notin TrCalling BY <1>10 DEF TrCalling
  <1>12. /\ trDefault' = n + 1 /\ trBroker' = trBroker /\ trPc' = [trPc EXCEPT ![t] = f]
         /\ UNCHANGED <<trSeen, trRan, trCalls, trAnswers>>
    BY <1>3, <1>8 DEF TrDefaultBuilt, TrMove
  <1>13. trDefault' \in 0..Len(trKernels') /\ trBroker' \in 0..Len(trKernels') /\ trDefault' # 0
    BY <1>1, <1>3, <1>6, <1>12
  <1>14. QED BY <1>7, <1>9, <1>10, <1>11, <1>12, <1>13, TrOutsideStep

(* The default kernel is founded, and its session opened: a receipt of its   *)
(* own each.                                                                 *)
LEMMA TrDefaultReceipts ==
    ASSUME TrInv, NEW t \in TrThreads, TrDefaultFounded(t) \/ TrDefaultSession(t)
    PROVE  TrInv'
  <1>1. /\ trKernels \in Seq(TrKernel) /\ Len(trKernels) \in Nat /\ TrMaxKernels \in Nat /\ TrMaxCalls \in Nat
        /\ trDefault \in 0..Len(trKernels) /\ trBroker \in 0..Len(trKernels)
        /\ Len(trKernels) <= TrMaxKernels
    BY TrFacts
  <1>2. trPc[t].at \in {"ceremony", "session"} BY DEF TrDefaultFounded, TrDefaultSession
  <1>3. trDefault # 0 BY <1>2 DEF TrInv, TrFrameOK
  <1>4. trDefault \in 1..Len(trKernels) /\ 0 \in 0..TrMaxCalls BY <1>1, <1>3
  <1>5. TrGrowsBy(0) /\ Len(trKernels') = Len(trKernels)
    <2>1. CASE TrDefaultSession(t)
      <3>1. TrAppend(trDefault, 0) BY <2>1 DEF TrDefaultSession, TrReceipt
      <3>2. QED BY <1>4, <3>1, TrReceiptGrows
    <2>2. CASE TrDefaultFounded(t)
      <3>1. PICK chain : chain = Append(trKernels[trDefault].chain, 0) OBVIOUS
      <3>2. PICK r1 : r1 = [trKernels[trDefault] EXCEPT !.founded = TRUE] OBVIOUS
      <3>3. PICK r : r = [r1 EXCEPT !.chain = chain] OBVIOUS
      <3>4. trKernels[trDefault] \in TrKernel BY <1>1, <1>4, ElementOfSeq
      <3>5. r1 \in TrKernel /\ trKernels[trDefault].chain \in Seq(0..TrMaxCalls) /\ r1.chain = trKernels[trDefault].chain
        BY <3>2, <3>4 DEF TrKernel
      <3>6. chain \in Seq(0..TrMaxCalls) BY <1>4, <3>1, <3>5, AppendProperties
      <3>7. r \in TrKernel /\ r.chain = chain BY <3>3, <3>5, <3>6 DEF TrKernel
      <3>8. PICK m : m = [trKernels EXCEPT ![trDefault] = r1] OBVIOUS
      <3> HIDE DEF TrKernel
      <3>9. m \in Seq(TrKernel) /\ Len(m) = Len(trKernels) BY <1>1, <1>4, <3>5, <3>8
      <3>10. m[trDefault] = r1 BY <1>1, <1>4, <3>8
      <3>11. \A j \in 1..Len(trKernels) : j # trDefault => m[j] = trKernels[j] BY <1>1, <1>4, <3>8
      <3>12. trKernels' = [m EXCEPT ![trDefault] = [m[trDefault] EXCEPT !.chain = Append(@, 0)]]
        BY <2>2, <3>2, <3>8 DEF TrDefaultFounded
      <3>13. trKernels' = [m EXCEPT ![trDefault] = r] BY <3>1, <3>3, <3>5, <3>10, <3>12
      <3>14. /\ trKernels' \in Seq(TrKernel) /\ Len(trKernels') = Len(trKernels) /\ trKernels'[trDefault] = r
             /\ \A j \in 1..Len(trKernels) : j # trDefault => trKernels'[j] = m[j]
        BY <1>1, <1>4, <3>7, <3>9, <3>13
      <3>15. QED BY <1>1, <3>1, <3>7, <3>11, <3>14 DEF TrGrowsBy
    <2>3. QED BY <2>1, <2>2
  <1>6. PICK at : at = IF TrDefaultFounded(t) THEN "session" ELSE "broker" OBVIOUS
  <1>7. PICK f : f = [trPc[t] EXCEPT !.at = at] OBVIOUS
  <1>8. trPc[t].at \notin TrCalling /\ at \in TrPlaces /\ at \notin TrCalling
    BY <1>2, <1>6 DEF TrCalling, TrPlaces
  <1>9. f \in TrFrame /\ f.at = at /\ f.nonce = TrNoNonce BY <1>7, <1>8, TrOutsideFrames
  <1>10. /\ trDefault' = trDefault /\ trBroker' = trBroker /\ trPc' = [trPc EXCEPT ![t] = f]
         /\ UNCHANGED <<trSeen, trRan, trCalls, trAnswers>>
    <2>1. CASE TrDefaultFounded(t) BY <1>6, <1>7, <2>1 DEF TrDefaultFounded, TrMove
    <2>2. CASE ~TrDefaultFounded(t) BY <1>6, <1>7, <2>2 DEF TrDefaultSession, TrMove
    <2>3. QED BY <2>1, <2>2
  <1>11. trDefault' \in 0..Len(trKernels') /\ trBroker' \in 0..Len(trKernels') /\ trDefault' # 0
    BY <1>1, <1>3, <1>5, <1>10
  <1>12. QED BY <1>5, <1>8, <1>9, <1>10, <1>11, TrOutsideStep

(* A step of execute(): the thread's call leaves a receipt or none, and goes *)
(* on or is over.                                                            *)
LEMMA TrCallStep ==
    ASSUME TrInv, NEW t \in TrThreads, trPc[t].at \in TrCalling, NEW f \in TrFrame,
           \/ f = TrFree
           \/ /\ f.at \in TrCalling /\ f.kernel = trPc[t].kernel
              /\ f.call = trPc[t].call /\ f.nonce = trPc[t].nonce,
           trPc' = [trPc EXCEPT ![t] = f],
           \/ TrAppend(trPc[t].kernel, trPc[t].call)
           \/ UNCHANGED trKernels /\ TrReceipted(f, trKernels),
           \/ trRan' = trRan
           \/ trPc[t].nonce # TrNoNonce /\ trRan' = trRan \cup {<<trPc[t].nonce, trPc[t].call>>},
           UNCHANGED <<trDefault, trBroker, trSeen, trCalls, trAnswers>>
    PROVE  TrInv'
  <1>1. /\ trCalls \in Nat /\ trCalls <= TrMaxCalls /\ TrMaxCalls \in Nat
        /\ trDefault \in 0..Len(trKernels) /\ trBroker \in 0..Len(trKernels) /\ trSeen \subseteq TrNonces
        /\ \A k \in 1..Len(trKernels) : trKernels[k] \in TrKernel
    BY TrFacts
  <1>2. PICK k, c : k = trPc[t].kernel /\ c = trPc[t].call OBVIOUS
  <1>3. k \in 1..Len(trKernels) /\ c \in 1..trCalls BY <1>2 DEF TrInv, TrFrameOK
  <1>4. c \in 0..TrMaxCalls BY <1>1, <1>3
  <1>5. TrFree.at = "idle" /\ TrFree.nonce = TrNoNonce BY TrOutsideFrames
  <1>6. TrGrowsBy(c) /\ Len(trKernels') = Len(trKernels) /\ TrReceipted(f, trKernels')
    <2>1. CASE UNCHANGED trKernels /\ TrReceipted(f, trKernels) BY <2>1, TrNoReceipt
    <2>2. CASE TrAppend(trPc[t].kernel, trPc[t].call)
      <3>1. /\ TrGrowsBy(c) /\ Len(trKernels') = Len(trKernels)
            /\ trKernels'[k].chain = Append(trKernels[k].chain, c)
        BY <1>2, <1>3, <1>4, <2>2, TrReceiptGrows
      <3>2. PICK chain : chain = trKernels[k].chain OBVIOUS
      <3>3. chain \in Seq(0..TrMaxCalls) BY <1>1, <1>3, <3>2 DEF TrKernel
      <3>4. TrHasReceipt(Append(chain, c), c) BY <1>4, <3>3, TrChainGrows
      <3>5. CASE f = TrFree BY <1>5, <3>1, <3>5 DEF TrReceipted
      <3>6. CASE f # TrFree BY <1>2, <3>1, <3>2, <3>4, <3>6 DEF TrReceipted
      <3>7. QED BY <3>1, <3>5, <3>6
    <2>3. QED BY <2>1, <2>2
  <1>7. TrFrameOK(f, trCalls', trKernels', trDefault')
    BY <1>2, <1>3, <1>5, <1>6 DEF TrFrameOK, TrCalling
  <1>8. TrFollows(t, f) BY <1>5 DEF TrFollows, TrCalling
  <1>9. TrRest(t, c) BY <1>1, <1>2, <1>6 DEF TrRest
  <1>10. QED BY <1>4, <1>6, <1>7, <1>8, <1>9, TrSilentStep

(* The receipts of a call: the admission, a phase, the outcome, in a seam or *)
(* not, the refusal.                                                         *)
LEMMA TrReceiptsKept ==
    ASSUME TrInv, NEW t \in TrThreads,
           TrAdmit(t) \/ TrPhase(t) \/ TrOutcome(t) \/ TrSeamCommits(t) \/ TrRefuse(t)
    PROVE  TrInv'
  <1>1. trPc[t] \in TrFrame /\ trPc \in [TrThreads -> TrFrame] BY TrFacts
  <1>2. trPc[t].at \in TrCalling
    BY DEF TrAdmit, TrPhase, TrOutcome, TrSeamCommits, TrRefuse, TrCalling
  <1>3. PICK f \in TrFrame :
            /\ f.at \in TrCalling /\ f.kernel = trPc[t].kernel /\ f.call = trPc[t].call
            /\ f.nonce = trPc[t].nonce /\ trPc' = [trPc EXCEPT ![t] = f]
    <2>1. {"outcome", "tip"} \subseteq TrPlaces /\ {"outcome", "tip"} \subseteq TrCalling
      BY DEF TrPlaces, TrCalling
    <2>2. CASE TrAdmit(t)
      <3>1. trPc' = [trPc EXCEPT ![t] = [trPc[t] EXCEPT !.at = "outcome"]] BY <2>2 DEF TrAdmit, TrMove
      <3>2. QED BY <2>1, <3>1, TrOutsideFrames
    <2>3. CASE TrPhase(t)
      <3>1. trPc' = [trPc EXCEPT ![t] = trPc[t]] BY <1>1, <2>3 DEF TrPhase
      <3>2. QED BY <1>1, <1>2, <3>1
    <2>4. CASE TrOutcome(t) \/ TrSeamCommits(t)
      <3>1. trPc' = [trPc EXCEPT ![t].at = "tip", ![t].kind = "admitted"]
        BY <2>4 DEF TrOutcome, TrSeamCommits
      <3>2. PICK f : f = [trPc[t] EXCEPT !.at = "tip", !.kind = "admitted"] OBVIOUS
      <3>3. /\ f \in TrFrame /\ f.at = "tip" /\ f.kernel = trPc[t].kernel /\ f.call = trPc[t].call
            /\ f.nonce = trPc[t].nonce
        BY <1>1, <3>2 DEF TrFrame, TrPlaces, TrKinds
      <3>4. trPc' = [trPc EXCEPT ![t] = f] BY <1>1, <3>1, <3>2
      <3>5. QED BY <2>1, <3>3, <3>4
    <2>5. CASE TrRefuse(t)
      <3>1. trPc' = [trPc EXCEPT ![t] = [trPc[t] EXCEPT !.at = "tip"]] BY <2>5 DEF TrRefuse, TrMove
      <3>2. QED BY <2>1, <3>1, TrOutsideFrames
    <2>6. QED BY <2>2, <2>3, <2>4, <2>5
  <1>4. TrAppend(trPc[t].kernel, trPc[t].call)
    BY DEF TrAdmit, TrPhase, TrOutcome, TrSeamCommits, TrRefuse, TrReceipt
  <1>5. \/ trRan' = trRan
        \/ trPc[t].nonce # TrNoNonce /\ trRan' = trRan \cup {<<trPc[t].nonce, trPc[t].call>>}
    BY DEF TrAdmit, TrPhase, TrOutcome, TrSeamCommits, TrRefuse, TrRuns
  <1>6. UNCHANGED <<trDefault, trBroker, trSeen, trCalls, trAnswers>>
    BY DEF TrAdmit, TrPhase, TrOutcome, TrSeamCommits, TrRefuse
  <1>7. QED BY <1>2, <1>3, <1>4, <1>5, <1>6, TrCallStep

(* A seam opens, or is taken back: the chain is as it was. *)
LEMMA TrSeamsKept ==
    ASSUME TrInv, NEW t \in TrThreads, TrSeam(t) \/ TrSeamRollsBack(t)
    PROVE  TrInv'
  <1>1. PICK at : at = IF TrSeam(t) THEN "seam" ELSE "undone" OBVIOUS
  <1>2. at \in TrPlaces /\ at \in TrCalling BY <1>1 DEF TrPlaces, TrCalling
  <1>3. PICK f : f = [trPc[t] EXCEPT !.at = at] OBVIOUS
  <1>4. /\ f \in TrFrame /\ f.at = at /\ f.kernel = trPc[t].kernel /\ f.call = trPc[t].call
        /\ f.nonce = trPc[t].nonce
    BY <1>2, <1>3, TrOutsideFrames
  <1>5. trPc[t].at \in {"outcome", "seam"} BY DEF TrSeam, TrSeamRollsBack
  <1>6. TrReceipted(trPc[t], trKernels) BY DEF TrInv
  <1>7. TrReceipted(f, trKernels) BY <1>4, <1>5, <1>6 DEF TrReceipted
  <1>8. trPc' = [trPc EXCEPT ![t] = f]
    BY <1>1, <1>3 DEF TrSeam, TrSeamRollsBack, TrMove
  <1>9. UNCHANGED <<trKernels, trDefault, trBroker, trSeen, trRan, trCalls, trAnswers>>
    BY DEF TrSeam, TrSeamRollsBack
  <1>10. trPc[t].at \in TrCalling BY <1>5 DEF TrCalling
  <1>11. QED BY <1>2, <1>4, <1>7, <1>8, <1>9, <1>10, TrCallStep

(* A call that raises: turned away without a hash, or to be answered with    *)
(* one; with one more receipt, or with none.                                 *)
LEMMA TrFailuresKept ==
    ASSUME TrInv, NEW t \in TrThreads, TrTurnAway(t) \/ TrRaise(t)
    PROVE  TrInv'
  <1>1. TrFails(t) BY DEF TrTurnAway, TrRaise
  <1>2. trPc[t].at \in TrCalling BY <1>1 DEF TrFails, TrCalling
  <1>3. /\ TrAppend(trPc[t].kernel, trPc[t].call) \/ UNCHANGED trKernels
        /\ UNCHANGED <<trDefault, trBroker, trSeen, trCalls, trAnswers>>
    BY <1>1 DEF TrFails, TrReceipt
  <1>4. \/ trRan' = trRan
        \/ trPc[t].nonce # TrNoNonce /\ trRan' = trRan \cup {<<trPc[t].nonce, trPc[t].call>>}
    BY <1>1 DEF TrFails, TrRuns
  <1>5. PICK f \in TrFrame :
            /\ \/ f = TrFree
               \/ /\ f.at \in TrCalling /\ f.kernel = trPc[t].kernel
                  /\ f.call = trPc[t].call /\ f.nonce = trPc[t].nonce
            /\ trPc' = [trPc EXCEPT ![t] = f]
            /\ TrReceipted(f, trKernels)
    <2>1. TrFree \in TrFrame /\ TrFree.at = "idle" BY TrOutsideFrames
    <2>2. CASE TrTurnAway(t)
      <3>1. TrReceipted(TrFree, trKernels) BY <2>1 DEF TrReceipted
      <3>2. QED BY <2>1, <2>2, <3>1 DEF TrTurnAway
    <2>3. CASE TrRaise(t)
      <3>1. "tip" \in TrCalling BY DEF TrCalling
      <3>2. PICK f : f = [trPc[t] EXCEPT !.at = "tip", !.kind = "error"] OBVIOUS
      <3>3. /\ f \in TrFrame /\ f.at = "tip" /\ f.kind = "error" /\ f.kernel = trPc[t].kernel
            /\ f.call = trPc[t].call /\ f.nonce = trPc[t].nonce
        BY <3>2, TrFacts DEF TrFrame, TrPlaces, TrKinds
      <3>4. TrReceipted(f, trKernels) BY <3>3 DEF TrReceipted
      <3>5. trPc' = [trPc EXCEPT ![t] = f] BY <2>3, <3>2, TrFacts DEF TrRaise
      <3>6. QED BY <3>1, <3>3, <3>4, <3>5
    <2>4. QED BY <2>2, <2>3
  <1>6. QED BY <1>2, <1>3, <1>4, <1>5, TrCallStep

(* A call that ends with an answer, or none: the tip of its kernel's chain   *)
(* covers every receipt there is.                                            *)
LEMMA TrCallsEnd ==
    ASSUME TrInv, NEW t \in TrThreads, TrAnswer(t)
    PROVE  TrInv'
  <1>1. /\ trCalls \in Nat /\ trCalls <= TrMaxCalls /\ TrMaxCalls \in Nat
        /\ trDefault \in 0..Len(trKernels) /\ trBroker \in 0..Len(trKernels) /\ trSeen \subseteq TrNonces
        /\ \A k \in 1..Len(trKernels) : trKernels[k] \in TrKernel
        /\ Len(trKernels) \in Nat /\ Len(trKernels) <= TrMaxKernels
    BY TrFacts
  <1>2. trPc[t].at \in TrCalling BY DEF TrAnswer, TrCalling
  <1>3. /\ trPc' = [trPc EXCEPT ![t] = TrFree]
        /\ UNCHANGED <<trKernels, trDefault, trBroker, trSeen, trRan, trCalls>>
    BY DEF TrAnswer
  <1>4. PICK f : f = TrFree OBVIOUS
  <1>5. f \in TrFrame /\ f.at = "idle" /\ f.nonce = TrNoNonce BY <1>4, TrOutsideFrames
  <1>6. TrGrowsBy(0) /\ 0 \in 0..TrMaxCalls BY <1>1, <1>3, TrNoReceipt
  <1>7. TrRest(t, 0) BY <1>1, <1>3 DEF TrRest
  <1>8. TrFollows(t, f) BY <1>5 DEF TrFollows, TrCalling
  <1>9. TrFrameOK(f, trCalls', trKernels', trDefault') /\ TrReceipted(f, trKernels')
    BY <1>5 DEF TrFrameOK, TrReceipted, TrCalling
  <1>10. trPc' = [trPc EXCEPT ![t] = f] BY <1>3, <1>4
  <1>11. CASE trAnswers' = trAnswers
    BY <1>5, <1>6, <1>7, <1>8, <1>9, <1>10, <1>11, TrSilentStep
  <1>12. CASE trAnswers' # trAnswers
    <2>1. PICK k, c, ok, tip : k = trPc[t].kernel /\ c = trPc[t].call /\ ok = trPc[t].kind /\ tip = TrTip(k)
      OBVIOUS
    <2>2. PICK a : a = [call |-> c, kernel |-> k, tip |-> tip, kind |-> ok] OBVIOUS
    <2>3. PICK A : A = {a} OBVIOUS
    <2>4. trPc[t].at = "tip" /\ trAnswers' = trAnswers \cup A
      BY <1>12, <2>1, <2>2, <2>3 DEF TrAnswer, TrAnswerTip
    <2>5. k \in 1..Len(trKernels) /\ c \in 1..trCalls BY <1>2, <2>1 DEF TrInv, TrFrameOK
    <2>6. ok # "error" => TrHasReceipt(trKernels[k].chain, c) BY <2>1, <2>4 DEF TrInv, TrReceipted
    <2>7. trKernels[k].chain \in Seq(0..TrMaxCalls) BY <1>1, <2>5 DEF TrKernel
    <2>8. tip \in Nat /\ DOMAIN trKernels[k].chain = 1..tip BY <2>1, <2>7, LenProperties DEF TrTip
    <2>9. \A i \in DOMAIN trKernels[k].chain : i <= tip BY <2>8
    <2>10. TrCovered(a, trKernels', trCalls') BY <1>3, <2>2, <2>5, <2>6, <2>9 DEF TrCovered
    <2>11. a \in TrAnswerSet
      <3>1. k \in 1..TrMaxKernels /\ c \in 1..TrMaxCalls
        <4>1. TrMaxKernels \in Nat BY TrFacts
        <4>2. QED BY <1>1, <2>5, <4>1
      <3>2. ok \in TrKinds
        <4>1. trPc[t] \in TrFrame BY TrOutsideFrames
        <4>2. QED BY <2>1, <4>1 DEF TrFrame
      <3>3. QED BY <2>2, <2>8, <3>1, <3>2 DEF TrAnswerSet
    <2>12. TrOver(a, f) BY <1>5 DEF TrOver, TrCalling
    <2>13. \A u \in TrThreads \ {t} : TrOver(a, trPc[u])
      <3> TAKE u \in TrThreads \ {t}
      <3>1. TrApart(trPc[t], trPc[u]) BY DEF TrInv
      <3>2. a.call = trPc[t].call BY <2>1, <2>2
      <3>3. QED BY <1>2, <3>1, <3>2 DEF TrApart, TrOver
    <2>14. \A b \in A : TrGoodAnswer(t, f, b)
      BY <2>3, <2>10, <2>11, <2>12, <2>13 DEF TrGoodAnswer
    <2>15. QED BY <1>5, <1>6, <1>7, <1>8, <1>9, <1>10, <2>4, <2>14, TrStepOf
  <1>13. QED BY <1>11, <1>12

(* The broker's own refusal of an undeclared effect: a receipt of the next   *)
(* call and its answer in one step, which leaves the thread where it was.    *)
LEMMA TrUndeclaredKept ==
    ASSUME TrInv, NEW t \in TrThreads, TrSubmitUndeclared(t, 1)
    PROVE  TrInv'
  <1>1. /\ trCalls \in Nat /\ TrMaxCalls \in Nat /\ TrMaxKernels \in Nat
        /\ trDefault \in 0..Len(trKernels) /\ trBroker \in 0..Len(trKernels) /\ trSeen \subseteq TrNonces
        /\ 1 \in 1..Len(trKernels) /\ Len(trKernels) \in Nat /\ Len(trKernels) <= TrMaxKernels
        /\ trPc \in [TrThreads -> TrFrame] /\ trKernels[1] \in TrKernel
    BY TrFacts
  <1>2. /\ trPc[t] = TrFree /\ trCalls < TrMaxCalls /\ trCalls' = trCalls + 1 /\ TrAppend(1, trCalls + 1)
        /\ UNCHANGED <<trDefault, trBroker, trSeen, trRan, trPc>>
    BY DEF TrSubmitUndeclared, TrReceipt
  <1>3. PICK c, tip, chain : c = trCalls + 1 /\ tip = TrTip(1) + 1 /\ chain = trKernels[1].chain OBVIOUS
  <1>4. c \in 0..TrMaxCalls /\ c \in 1..TrMaxCalls /\ c \in 1..trCalls' BY <1>1, <1>2, <1>3
  <1>5. /\ TrGrowsBy(c) /\ Len(trKernels') = Len(trKernels) /\ trKernels'[1].chain = Append(chain, c)
    BY <1>1, <1>2, <1>3, <1>4, TrReceiptGrows
  <1>6. PICK f : f = trPc[t] OBVIOUS
  <1>7. f \in TrFrame /\ f.at = "idle" /\ f.nonce = TrNoNonce /\ f.at \notin TrCalling
    BY <1>2, <1>6, TrOutsideFrames DEF TrCalling
  <1>8. trPc' = [trPc EXCEPT ![t] = f] BY <1>1, <1>2, <1>6
  <1>9. TrRest(t, c) BY <1>1, <1>2, <1>3, <1>5 DEF TrRest
  <1>10. TrFollows(t, f) BY <1>7 DEF TrFollows
  <1>11. TrFrameOK(f, trCalls', trKernels', trDefault') /\ TrReceipted(f, trKernels')
    BY <1>7 DEF TrFrameOK, TrReceipted, TrCalling
  <1>12. PICK a : a = [call |-> c, kernel |-> 1, tip |-> tip, kind |-> "refused"] OBVIOUS
  <1>13. PICK A : A = {a} OBVIOUS
  <1>14. trAnswers' = trAnswers \cup A BY <1>3, <1>12, <1>13 DEF TrSubmitUndeclared
  <1>15. chain \in Seq(0..TrMaxCalls) BY <1>1, <1>3 DEF TrKernel
  <1>16. Append(chain, c) \in Seq(0..TrMaxCalls) /\ tip = Len(Append(chain, c)) /\ tip \in Nat
    BY <1>3, <1>4, <1>15, AppendProperties, LenProperties DEF TrTip
  <1>17. \A i \in DOMAIN Append(chain, c) : i <= tip
    <2>1. DOMAIN Append(chain, c) = 1..tip BY <1>16, LenProperties
    <2>2. QED BY <1>16, <2>1
  <1>18. TrHasReceipt(Append(chain, c), c) BY <1>4, <1>15, TrChainGrows
  <1>19. TrCovered(a, trKernels', trCalls')
    BY <1>1, <1>4, <1>5, <1>12, <1>17, <1>18 DEF TrCovered
  <1>20. a \in TrAnswerSet
    <2>1. 1 \in 1..TrMaxKernels BY <1>1
    <2>2. QED BY <1>4, <1>12, <1>16, <2>1 DEF TrAnswerSet, TrKinds
  <1>21. \A u \in TrThreads : TrOver(a, trPc[u])
    <2> TAKE u \in TrThreads
    <2>1. trPc[u].at \in TrCalling => trPc[u].call \in 1..trCalls BY DEF TrInv, TrFrameOK
    <2>2. a.call = trCalls + 1 BY <1>3, <1>12
    <2>3. trPc[u].at \in TrCalling => trPc[u].call # a.call BY <1>1, <2>1, <2>2
    <2>4. QED BY <2>3 DEF TrOver
  <1>22. \A b \in A : TrGoodAnswer(t, f, b)
    BY <1>6, <1>13, <1>19, <1>20, <1>21 DEF TrGoodAnswer
  <1>23. QED BY <1>4, <1>5, <1>7, <1>8, <1>9, <1>10, <1>11, <1>14, <1>22, TrStepOf

(* A session receipt on the server's kernel belongs to no call. *)
LEMMA TrSessionKept ==
    ASSUME TrInv, TrSession(1)
    PROVE  TrInv'
  <1>1. /\ trKernels \in Seq(TrKernel) /\ trCalls \in Nat /\ TrMaxCalls \in Nat /\ 1 \in 1..Len(trKernels)
        /\ Len(trKernels) \in Nat
    BY TrFacts
  <1>2. TrAppend(1, 0) /\ UNCHANGED <<trDefault, trBroker, trSeen, trRan, trCalls, trPc, trAnswers>>
    BY DEF TrSession, TrReceipt
  <1>3. 0 \in 0..TrMaxCalls /\ trCalls' \in Nat /\ trCalls <= trCalls' BY <1>1, <1>2
  <1>4. TrGrowsBy(0) /\ Len(trKernels') = Len(trKernels) BY <1>1, <1>2, <1>3, TrReceiptGrows
  <1>5. /\ \A f : f.at \in TrCalling /\ f.kernel \in 1..Len(trKernels) /\ TrReceipted(f, trKernels)
                    => TrReceipted(f, trKernels')
        /\ \A a : TrCovered(a, trKernels, trCalls) /\ a.call # 0 => TrCovered(a, trKernels', trCalls')
    BY <1>1, <1>3, <1>4, TrGrowthKeeps
  <1>6. TrTypeOK' /\ trKernels' # <<>>
    <2>1. trKernels' \in Seq(TrKernel) /\ Len(trKernels') <= TrMaxKernels BY <1>4 DEF TrGrowsBy
    <2>2. TrTypeOK BY DEF TrInv
    <2>3. QED BY <1>1, <1>2, <1>4, <2>1, <2>2, EmptySeq DEF TrTypeOK
  <1>7. \A t \in TrThreads :
            /\ TrFrameOK(trPc'[t], trCalls', trKernels', trDefault')
            /\ TrNonceOK(trPc'[t], trSeen', trRan')
            /\ TrReceipted(trPc'[t], trKernels')
    <2> TAKE t \in TrThreads
    <2>1. /\ TrFrameOK(trPc[t], trCalls, trKernels, trDefault)
          /\ TrNonceOK(trPc[t], trSeen, trRan) /\ TrReceipted(trPc[t], trKernels)
      BY DEF TrInv
    <2>2. TrFrameOK(trPc[t], trCalls', trKernels', trDefault') BY <1>2, <1>4, <2>1 DEF TrFrameOK
    <2>3. TrReceipted(trPc[t], trKernels')
      <3>1. CASE trPc[t].at \in TrCalling
        <4>1. trPc[t].kernel \in 1..Len(trKernels) BY <2>1, <3>1 DEF TrFrameOK
        <4>2. QED BY <1>5, <2>1, <3>1, <4>1
      <3>2. CASE trPc[t].at \notin TrCalling BY <3>2 DEF TrReceipted, TrCalling
      <3>3. QED BY <3>1, <3>2
    <2>4. QED BY <1>2, <2>1, <2>2, <2>3
  <1>8. \A a \in trAnswers' :
            TrCovered(a, trKernels', trCalls') /\ \A t \in TrThreads : TrOver(a, trPc'[t])
    <2> TAKE a \in trAnswers'
    <2>1. TrCovered(a, trKernels, trCalls) /\ \A t \in TrThreads : TrOver(a, trPc[t]) BY <1>2 DEF TrInv
    <2>2. a.call \in 1..trCalls BY <2>1 DEF TrCovered
    <2>3. a.call # 0 BY <1>1, <2>2
    <2>4. QED BY <1>2, <1>5, <2>1, <2>3
  <1>9. /\ \A t, u \in TrThreads : t # u => TrApart(trPc'[t], trPc'[u])
        /\ \A x \in trRan' : x[1] \in trSeen'
        /\ TrNonceOnce'
    BY <1>2 DEF TrInv, TrNonceOnce
  <1>10. QED BY <1>6, <1>7, <1>8, <1>9 DEF TrInv

(* A restart of the server forgets the nonces, when no request is under way. *)
LEMMA TrRestartKept ==
    ASSUME TrInv, TrRestart
    PROVE  TrInv'
  <1>1. /\ \A t \in TrThreads : trPc[t].nonce = TrNoNonce
        /\ trSeen' = {} /\ trRan' = {}
        /\ UNCHANGED <<trKernels, trDefault, trBroker, trCalls, trPc, trAnswers>>
    BY DEF TrRestart
  <1>2. TrTypeOK' BY <1>1 DEF TrInv, TrTypeOK
  <1>3. TrNonceOnce' /\ \A x \in trRan' : x[1] \in trSeen' BY <1>1 DEF TrNonceOnce
  <1>4. \A t \in TrThreads : TrNonceOK(trPc'[t], trSeen', trRan') BY <1>1 DEF TrNonceOK
  <1>5. QED BY <1>1, <1>2, <1>3, <1>4 DEF TrInv

(* The nonces, the calls under way and the answers agree, at every moment. *)
THEOREM TransportInvariance == TrSpec => []TrInv
  <1>1. ASSUME TrInit PROVE TrInv
    <2>1. PICK k : k = [founded |-> TRUE, chain |-> <<0>>] OBVIOUS
    <2>2. TrMaxCalls \in Nat /\ TrMaxKernels \in Nat \ {0} BY TrAssumption
    <2>3. k \in TrKernel
      <3>1. 0 \in 0..TrMaxCalls BY <2>2
      <3>2. <<0>> \in Seq(0..TrMaxCalls) BY <3>1
      <3>3. QED BY <2>1, <3>2 DEF TrKernel
    <2>4. trKernels = <<k>> BY <1>1, <2>1 DEF TrInit
    <2> HIDE DEF TrKernel
    <2>5. trKernels \in Seq(TrKernel) /\ Len(trKernels) = 1 /\ trKernels # <<>> BY <2>3, <2>4
    <2>6. \A t \in TrThreads : trPc[t] = TrFree BY <1>1 DEF TrInit
    <2>7. TrFree \in TrFrame BY <2>2 DEF TrFree, TrFrame, TrPlaces, TrKinds
    <2>8. TrTypeOK
      BY <1>1, <2>2, <2>5, <2>7 DEF TrInit, TrTypeOK
    <2>9. TrFree.at = "idle" /\ TrFree.nonce = TrNoNonce /\ TrFree.at \notin TrCalling
      BY DEF TrFree, TrCalling
    <2>10. \A t \in TrThreads :
            /\ TrFrameOK(trPc[t], trCalls, trKernels, trDefault)
            /\ TrNonceOK(trPc[t], trSeen, trRan) /\ TrReceipted(trPc[t], trKernels)
      BY <2>6, <2>9 DEF TrFrameOK, TrNonceOK, TrReceipted
    <2>11. \A t, u \in TrThreads : TrApart(trPc[t], trPc[u]) BY <2>6, <2>9 DEF TrApart
    <2>12. trRan = {} /\ trAnswers = {} BY <1>1 DEF TrInit
    <2>13. QED BY <2>5, <2>8, <2>10, <2>11, <2>12 DEF TrInv, TrNonceOnce
  <1>2. ASSUME TrInv, [TrNext]_trVars PROVE TrInv'
    <2>1. ASSUME NEW t \in TrThreads,
                 (\E n \in TrNonces : TrGovern(t, n)) \/ TrSubmit(t, 1) \/ TrAgentGovern(t)
          PROVE  TrInv'
      BY <1>2, <2>1, TrCallsBegin
    <2>2. ASSUME NEW t \in TrThreads,
                 TrDefaultMissing(t) \/ TrDefaultThere(t) \/ TrDefaultBroker(t) \/ TrAgentRaises(t)
          PROVE  TrInv'
      BY <1>2, <2>2, TrDefaultQuiet
    <2>3. ASSUME NEW t \in TrThreads, TrDefaultBuilt(t) PROVE TrInv' BY <1>2, <2>3, TrDefaultBuiltKeeps
    <2>4. ASSUME NEW t \in TrThreads, TrDefaultFounded(t) \/ TrDefaultSession(t) PROVE TrInv'
      BY <1>2, <2>4, TrDefaultReceipts
    <2>5. ASSUME NEW t \in TrThreads,
                 TrAdmit(t) \/ TrPhase(t) \/ TrOutcome(t) \/ TrSeamCommits(t) \/ TrRefuse(t)
          PROVE  TrInv'
      BY <1>2, <2>5, TrReceiptsKept
    <2>6. ASSUME NEW t \in TrThreads, TrSeam(t) \/ TrSeamRollsBack(t) PROVE TrInv'
      BY <1>2, <2>6, TrSeamsKept
    <2>11. ASSUME NEW t \in TrThreads, TrTurnAway(t) \/ TrRaise(t) PROVE TrInv'
      BY <1>2, <2>11, TrFailuresKept
    <2>12. ASSUME NEW t \in TrThreads, TrAnswer(t) PROVE TrInv'
      BY <1>2, <2>12, TrCallsEnd
    <2>7. ASSUME NEW t \in TrThreads, TrSubmitUndeclared(t, 1) PROVE TrInv'
      BY <1>2, <2>7, TrUndeclaredKept
    <2>8. CASE TrSession(1) BY <1>2, <2>8, TrSessionKept
    <2>9. CASE TrRestart BY <1>2, <2>9, TrRestartKept
    <2>10. CASE UNCHANGED trVars
      BY <1>2, <2>10 DEF trVars, TrInv, TrTypeOK, TrNonceOnce
    <2>13. QED
      BY <1>2, <2>1, <2>2, <2>3, <2>4, <2>5, <2>6, <2>7, <2>8, <2>9, <2>10, <2>11, <2>12 DEF TrNext
  <1>3. QED BY <1>1, <1>2, PTL DEF TrSpec

(* TrNonceOnce is an invariant: the RPC server executes a nonce at most once *)
(* in its life, for any number of threads and nonces (_handle_govern()).     *)
THEOREM NoncesRunOnce == TrSpec => []TrNonceOnce
  <1>1. TrInv => TrNonceOnce BY DEF TrInv
  <1>2. QED BY <1>1, TransportInvariance, PTL

(* TrAnswerCovers is an invariant: no receipt of a call comes after its      *)
(* answer, and an admitted or refused call has one behind the answer's hash, *)
(* although the tip is read after execute() has returned and without a lock. *)
THEOREM AnswersCover == TrSpec => []TrAnswerCovers
  <1>1. ASSUME TrInv PROVE TrAnswerCovers
    <2>1. SUFFICES ASSUME NEW a \in trAnswers
                   PROVE  /\ a.kind # "error" =>
                                {i \in 1..TrTip(a.kernel) : trKernels[a.kernel].chain[i] = a.call} # {}
                          /\ \A i \in {j \in 1..TrTip(a.kernel) : trKernels[a.kernel].chain[j] = a.call} :
                                i <= a.tip
      BY DEF TrAnswerCovers
    <2>2. PICK k, call, tip : k = a.kernel /\ call = a.call /\ tip = a.tip OBVIOUS
    <2>3. TrCovered(a, trKernels, trCalls) BY <1>1 DEF TrInv
    <2>4. /\ k \in 1..Len(trKernels)
          /\ a.kind # "error" => TrHasReceipt(trKernels[k].chain, call)
          /\ \A i \in DOMAIN trKernels[k].chain : trKernels[k].chain[i] = call => i <= tip
      BY <2>2, <2>3 DEF TrCovered
    <2>5. trKernels[k] \in TrKernel BY <1>1, <2>4, TrFacts
    <2>6. trKernels[k].chain \in Seq(0..TrMaxCalls) BY <2>5 DEF TrKernel
    <2>7. DOMAIN trKernels[k].chain = 1..TrTip(k) BY <2>6, LenProperties DEF TrTip
    <2>8. QED BY <2>2, <2>4, <2>7 DEF TrHasReceipt
  <1>2. QED BY <1>1, TransportInvariance, PTL
=============================================================================

---------------------------- MODULE ScaleProofs -----------------------------
(***************************************************************************)
(* Theorems about the scheduler of module Scale, for every set of          *)
(* candidates, every batch, capacity and seed chain, and whatever the lane *)
(* refuses, commits or fails to fire: it never reorders dependent          *)
(* candidates, and its bound on the passes never cuts the sort short.      *)
(*                                                                         *)
(* The first rests on two facts: a swap exchanges neighbours, so the only  *)
(* new inversion it makes is the pair the oracle just called independent;  *)
(* and a verdict of independence survives every step of the lane, because  *)
(* what the chain can verify only grows.  The argument for the second is   *)
(* before ScMayPass.                                                       *)
(***************************************************************************)
EXTENDS Scale, TLAPS

(* The typing that the argument needs: the order is a permutation. *)
ScPermutes ==
    /\ scChain \in Seq(ScReceipt)
    /\ scBatch \in Seq(ScCands)
    /\ scOrder \in [1..Len(scBatch) -> 1..Len(scBatch)]
    /\ \A p, q \in 1..Len(scBatch) : scOrder[p] = scOrder[q] => p = q
    /\ scAt \in Nat \ {0}

ScInductive == ScPermutes /\ ScDependentOrderKept

(* independent() does not depend on the order of its arguments. *)
LEMMA ScIndependentSymmetric ==
    ASSUME NEW c, NEW d, ScIndependent(c, d)
    PROVE  ScIndependent(d, c)
  BY DEF ScIndependent

(* A verdict of independence survives a step that only adds to what the     *)
(* chain can verify.                                                        *)
LEMMA ScVerdictStable ==
    ASSUME NEW CONSTANT c, NEW CONSTANT d,
           ScKnown \subseteq ScKnown', ScGrants \subseteq ScGrants',
           ScIndependent(c, d)
    PROVE  ScIndependent(c, d)'
  BY DEF ScIndependent, ScDeclared, ScApart, ScBarrier

(* The chain keeps every receipt's hash, effects and grant. *)
ScKeeps ==
    /\ DOMAIN scChain \subseteq DOMAIN scChain'
    /\ \A i \in DOMAIN scChain :
        /\ scChain'[i].hash = scChain[i].hash
        /\ scChain'[i].effects = scChain[i].effects
        /\ scChain'[i].grant = scChain[i].grant

(* What the chain can verify only grows. *)
LEMMA ScKnownGrows ==
    ASSUME ScKeeps
    PROVE  ScKnown \subseteq ScKnown' /\ ScGrants \subseteq ScGrants'
  BY DEF ScKeeps, ScKnown, ScGrants

(* A step that leaves the batch and the order alone and keeps the chain's    *)
(* receipts preserves the property.                                          *)
LEMMA ScKeptByGrowth ==
    ASSUME ScInductive, ScKeeps, scBatch' = scBatch, scOrder' = scOrder
    PROVE  ScDependentOrderKept'
<1>1. ScKnown \subseteq ScKnown' /\ ScGrants \subseteq ScGrants'
  BY ScKnownGrows
<1>2. SUFFICES ASSUME NEW p \in 1..Len(scBatch), NEW q \in 1..Len(scBatch),
                      p < q, scOrder[q] < scOrder[p]
               PROVE  ScIndependent(scBatch[scOrder[p]], scBatch[scOrder[q]])'
  BY DEF ScDependentOrderKept
<1>3. ScIndependent(scBatch[scOrder[p]], scBatch[scOrder[q]])
  BY <1>2 DEF ScInductive, ScDependentOrderKept
<1>4. PICK c, d : c = scBatch[scOrder[p]] /\ d = scBatch[scOrder[q]]
  OBVIOUS
<1>5. ScIndependent(c, d)
  BY <1>3, <1>4
<1>6. (c = scBatch[scOrder[p]] /\ d = scBatch[scOrder[q]])'
  BY <1>4
<1>7. ScIndependent(c, d)'
  BY <1>1, <1>5, ScVerdictStable
<1> QED BY <1>6, <1>7

(* The property holds initially: there is no batch. *)
LEMMA ScInductiveInit == ScInit => ScInductive
<1> SUFFICES ASSUME ScInit PROVE ScInductive
  OBVIOUS
<1>1. scBatch = <<>> /\ scOrder = <<>> /\ scAt = 1 /\ scChain \in Seq(ScReceipt)
  BY ScAssumption DEF ScInit
<1>2. 1..Len(scBatch) = {}
  BY <1>1
<1>3. scOrder \in [1..Len(scBatch) -> 1..Len(scBatch)]
  BY <1>1
<1>4. ScDependentOrderKept
  BY <1>2 DEF ScDependentOrderKept
<1> QED BY <1>1, <1>2, <1>3, <1>4 DEF ScInductive, ScPermutes

(* A comparison, and the swap it may make. *)
LEMMA ScCompareKeeps ==
    ASSUME ScInductive, ScCompare
    PROVE  ScInductive'
<1> DEFINE k == scAt - 1
           n == Len(scBatch)
           swap == /\ ScPriority(scBatch[scOrder[k + 1]]) < ScPriority(scBatch[scOrder[k]])
                   /\ ScIndependent(scBatch[scOrder[k]], scBatch[scOrder[k + 1]])
<1>1. /\ n \in Nat /\ k \in 1..n /\ k + 1 \in 1..n
      /\ scOrder \in [1..n -> 1..n]
      /\ \A p, q \in 1..n : scOrder[p] = scOrder[q] => p = q
      /\ \A p \in 1..n : scOrder[p] \in 1..n
  <2>1. scBatch \in Seq(ScCands) /\ scAt \in Nat /\ scAt > 1 /\ scAt - 1 <= Len(scBatch) - 1
    BY DEF ScInductive, ScPermutes, ScCompare, ScPassLength
  <2>2. n \in Nat /\ k \in 1..n /\ k + 1 \in 1..n
    <3>1. Len(scBatch) \in Nat
      BY <2>1
    <3> QED BY <2>1, <3>1
  <2>3. /\ scOrder \in [1..n -> 1..n]
        /\ \A p, q \in 1..n : scOrder[p] = scOrder[q] => p = q
    BY DEF ScInductive, ScPermutes
  <2> QED BY <2>2, <2>3
<1>2. scBatch' = scBatch /\ scChain' = scChain /\ scAt' \in Nat \ {0}
  BY DEF ScCompare, ScInductive, ScPermutes
<1>3. CASE ~swap
  <2>1. scOrder' = scOrder
    BY <1>3 DEF ScCompare
  <2>2. ScKeeps
    BY <1>2 DEF ScKeeps
  <2>3. ScDependentOrderKept'
    BY <1>2, <2>1, <2>2, ScKeptByGrowth
  <2> QED BY <1>2, <2>1, <2>3 DEF ScInductive, ScPermutes
<1>4. CASE swap
  <2>1. scOrder' = [scOrder EXCEPT ![k] = scOrder[k + 1], ![k + 1] = scOrder[k]]
    BY <1>4 DEF ScCompare
  <2>2. \A p \in 1..n : scOrder'[p] = IF p = k THEN scOrder[k + 1]
                                      ELSE IF p = k + 1 THEN scOrder[k] ELSE scOrder[p]
    <3>1. k # k + 1
      BY <1>1
    <3> HIDE DEF k
    <3> QED BY <1>1, <2>1, <3>1
  <2>3. scOrder' \in [1..n -> 1..n]
    BY <1>1, <2>1
  <2>4. \A p, q \in 1..n : scOrder'[p] = scOrder'[q] => p = q
    <3> HIDE DEF k
    <3> QED BY <1>1, <2>2
  <2>5. ASSUME NEW p \in 1..n, NEW q \in 1..n, p < q, scOrder'[q] < scOrder'[p]
        PROVE  ScIndependent(scBatch[scOrder'[p]], scBatch[scOrder'[q]])
    <3>1. \A i, j \in 1..n : i < j /\ scOrder[j] < scOrder[i]
                => ScIndependent(scBatch[scOrder[i]], scBatch[scOrder[j]])
      BY DEF ScInductive, ScDependentOrderKept
    <3>2. ScIndependent(scBatch[scOrder[k + 1]], scBatch[scOrder[k]])
      BY <1>4, ScIndependentSymmetric
    <3>0. k \in Int /\ p \in Int /\ q \in Int /\ p < q /\ k # k + 1
      BY <1>1, <2>5
    <3> HIDE DEF k
    <3>3. CASE p = k /\ q = k + 1
      BY <1>1, <2>2, <3>2, <3>3
    <3>4. CASE p = k /\ q # k + 1
      <4>1. scOrder'[p] = scOrder[k + 1] /\ scOrder'[q] = scOrder[q] /\ k + 1 < q
        BY <1>1, <2>2, <2>5, <3>0, <3>4, SMTT(30)
      <4> QED BY <1>1, <2>5, <3>1, <4>1
    <3>5. CASE p = k + 1
      <4>1. scOrder'[p] = scOrder[k] /\ scOrder'[q] = scOrder[q] /\ k < q
        BY <1>1, <2>2, <2>5, <3>0, <3>5, SMTT(30)
      <4> QED BY <1>1, <2>5, <3>1, <4>1
    <3>6. CASE p \notin {k, k + 1} /\ q = k
      <4>1. scOrder'[p] = scOrder[p] /\ scOrder'[q] = scOrder[k + 1] /\ p < k + 1
        BY <1>1, <2>2, <2>5, <3>0, <3>6, SMTT(30)
      <4> QED BY <1>1, <2>5, <3>1, <4>1
    <3>7. CASE p \notin {k, k + 1} /\ q = k + 1
      <4>1. scOrder'[p] = scOrder[p] /\ scOrder'[q] = scOrder[k] /\ p < k
        BY <1>1, <2>2, <2>5, <3>0, <3>7, SMTT(30)
      <4> QED BY <1>1, <2>5, <3>1, <4>1
    <3>8. CASE p \notin {k, k + 1} /\ q \notin {k, k + 1}
      <4>1. scOrder'[p] = scOrder[p] /\ scOrder'[q] = scOrder[q]
        BY <1>1, <2>2, <2>5, <3>0, <3>8
      <4> QED BY <1>1, <2>5, <3>1, <4>1
    <3> QED BY <3>3, <3>4, <3>5, <3>6, <3>7, <3>8
  <2>6. \A c, d : ScIndependent(c, d)' <=> ScIndependent(c, d)
    BY <1>2 DEF ScIndependent, ScDeclared, ScApart, ScBarrier, ScKnown, ScGrants
  <2>7. ScDependentOrderKept'
    BY <1>2, <2>5, <2>6 DEF ScDependentOrderKept
  <2> QED BY <1>2, <2>3, <2>4, <2>7 DEF ScInductive, ScPermutes
<1> QED BY <1>3, <1>4

(* The start of a batch: the order is the submitted one. *)
LEMMA ScScheduleKeeps ==
    ASSUME ScInductive, NEW b \in ScBatches, ScSchedule(b)
    PROVE  ScInductive'
<1>1. b \in Seq(ScCands) /\ ScCapacity \in Nat
  BY ScAssumption
<1>2. scBatch' \in Seq(ScCands)
  <2>1. CASE Len(b) > ScCapacity
    <3>1. scBatch' = SubSeq(b, 1, ScCapacity)
      BY <2>1 DEF ScSchedule
    <3>2. \A i \in 1..ScCapacity : b[i] \in ScCands
      BY <1>1, <2>1
    <3> QED BY <1>1, <2>1, <3>1, <3>2
  <2>2. CASE ~(Len(b) > ScCapacity)
    BY <1>1, <2>2 DEF ScSchedule
  <2> QED BY <2>1, <2>2
<1>3. scOrder' = [p \in 1..Len(scBatch') |-> p] /\ scAt' = 1 /\ scChain' = scChain
  BY DEF ScSchedule
<1>4. Len(scBatch') \in Nat
  BY <1>2
<1>5. ScPermutes'
  BY <1>2, <1>3, <1>4 DEF ScPermutes, ScInductive
<1>6. \A p, q \in 1..Len(scBatch') : p < q => ~(scOrder'[q] < scOrder'[p])
  BY <1>3, <1>4
<1> QED BY <1>5, <1>6 DEF ScInductive, ScDependentOrderKept

(* Every step preserves the invariant. *)
LEMMA ScInductiveNext == ScInductive /\ [ScNext]_scVars => ScInductive'
<1> SUFFICES ASSUME ScInductive, [ScNext]_scVars PROVE ScInductive'
  OBVIOUS
<1>1. ASSUME scBatch' = scBatch, scOrder' = scOrder, scAt' \in Nat \ {0},
             scChain' \in Seq(ScReceipt), ScKeeps
      PROVE  ScInductive'
  BY <1>1, ScKeptByGrowth DEF ScInductive, ScPermutes
<1>2. ASSUME scBatch' = scBatch, scOrder' = scOrder, scAt' \in Nat \ {0}, scChain' = scChain
      PROVE  ScInductive'
  BY <1>1, <1>2 DEF ScInductive, ScPermutes, ScKeeps
<1>3. ASSUME scBatch' = <<>>, scOrder' = <<>>, scAt' = 1, scChain' = scChain
      PROVE  ScInductive'
  <2>1. 1..Len(scBatch') = {}
    BY <1>3
  <2>2. scOrder' \in [1..Len(scBatch') -> 1..Len(scBatch')]
    BY <1>3
  <2> QED BY <1>3, <2>1, <2>2 DEF ScInductive, ScPermutes, ScDependentOrderKept
<1>4. ASSUME NEW b \in ScBatches, ScSchedule(b) PROVE ScInductive'
  BY <1>4, ScScheduleKeeps
<1>5. CASE ScBeginPass
  BY <1>2, <1>5 DEF ScBeginPass
<1>6. CASE ScCompare
  BY <1>6, ScCompareKeeps
<1>7. CASE ScEndPass
  BY <1>2, <1>7 DEF ScEndPass, scSort
<1>8. CASE ScSorted
  BY <1>2, <1>8 DEF ScSorted, scSort, ScInductive, ScPermutes
<1>9. CASE ScRefuse
  <2>1. scAt' \in Nat \ {0}
    BY <1>9 DEF ScRefuse, ScInductive, ScPermutes
  <2> QED BY <1>2, <1>9, <2>1 DEF ScRefuse, scSort
<1>10. CASE ScCommit
  <2> DEFINE new == [hash |-> ScCurrent.id, effects |-> ScCurrent.effects,
                     grant |-> ScCurrent.grant, fired |-> FALSE]
  <2>1. /\ scChain \in Seq(ScReceipt) /\ scChain' = Append(scChain, new)
        /\ scBatch' = scBatch /\ scOrder' = scOrder /\ scAt' = scAt
    BY <1>10 DEF ScCommit, scSort, ScInductive, ScPermutes
  <2>2. ScCurrent \in ScCandidate
    <3>1. scAt \in 1..Len(scBatch) /\ scBatch \in Seq(ScCands)
      BY <1>10 DEF ScCommit, ScInductive, ScPermutes
    <3>2. scOrder[scAt] \in 1..Len(scBatch)
      BY <3>1 DEF ScInductive, ScPermutes
    <3> QED BY <3>1, <3>2, ScAssumption DEF ScCurrent
  <2>3. new \in ScReceipt
    BY <2>2 DEF ScCandidate, ScReceipt
  <2>4. scChain' \in Seq(ScReceipt)
    BY <2>1, <2>3
  <2>5. DOMAIN scChain \subseteq DOMAIN scChain' /\ \A i \in DOMAIN scChain : scChain'[i] = scChain[i]
    <3> HIDE DEF new
    <3> QED BY <2>1, <2>3
  <2>6. ScKeeps
    BY <2>5 DEF ScKeeps
  <2> QED BY <1>1, <2>1, <2>4, <2>6 DEF ScInductive, ScPermutes
<1>11. CASE ScEffect
  <2>1. /\ scChain \in Seq(ScReceipt) /\ scAt \in Nat
        /\ scChain' = [scChain EXCEPT ![Len(scChain)].fired = TRUE]
        /\ scBatch' = scBatch /\ scOrder' = scOrder /\ scAt' = scAt + 1
    BY <1>11 DEF ScEffect, scSort, ScInductive, ScPermutes
  <2>2. /\ Len(scChain) \in Nat /\ DOMAIN scChain = 1..Len(scChain)
        /\ \A i \in DOMAIN scChain : scChain[i] \in ScReceipt
    BY <2>1
  <2>3. /\ DOMAIN scChain' = DOMAIN scChain
        /\ \A i \in DOMAIN scChain : scChain'[i] =
                IF i = Len(scChain) THEN [scChain[i] EXCEPT !.fired = TRUE] ELSE scChain[i]
    BY <2>1, <2>2
  <2>4. \A i \in DOMAIN scChain : scChain'[i] \in ScReceipt
    BY <2>2, <2>3 DEF ScReceipt
  <2>5. scChain' \in [1..Len(scChain) -> ScReceipt]
    BY <2>1, <2>2, <2>3, <2>4
  <2>6. scChain' \in Seq(ScReceipt)
    BY <2>2, <2>5
  <2>7. ScKeeps
    BY <2>2, <2>3 DEF ScKeeps, ScReceipt
  <2> QED BY <1>1, <2>1, <2>6, <2>7
<1>12. CASE ScDone
  BY <1>3, <1>12 DEF ScDone, ScIdle
<1>13. CASE ScAdmitRaises \/ ScEffectRaises
  BY <1>3, <1>13 DEF ScAdmitRaises, ScEffectRaises, ScIdle
<1>17. CASE ScEffectRefuses
  <2>1. scAt' \in Nat \ {0}
    BY <1>17 DEF ScEffectRefuses, ScInductive, ScPermutes
  <2> QED BY <1>2, <1>17, <2>1 DEF ScEffectRefuses, scSort
<1>14. CASE ScEnqueue
  BY <1>2, <1>14 DEF ScEnqueue, scSort, ScInductive, ScPermutes
<1>15. CASE ScRecover
  BY <1>2, <1>15 DEF ScRecover, scSort, ScInductive, ScPermutes
<1>16. CASE UNCHANGED scVars
  BY <1>2, <1>16 DEF scVars, scSort, ScInductive, ScPermutes
<1> QED
  BY <1>4, <1>5, <1>6, <1>7, <1>8, <1>9, <1>10, <1>11, <1>12, <1>13, <1>14, <1>15, <1>16,
     <1>17
  DEF ScNext

(* The scheduler never reorders a dependent pair: for every batch, two       *)
(* candidates that change places relative to the submitted order are         *)
(* independent by the chain as it stands (_safe_priority_order: "a dependent *)
(* pair is never swapped").                                                  *)
THEOREM ScDependentOrderHolds == ScSpec => []ScDependentOrderKept
<1>1. ScInductive => ScDependentOrderKept
  BY DEF ScInductive
<1> QED BY <1>1, ScInductiveInit, ScInductiveNext, PTL DEF ScSpec
-----------------------------------------------------------------------------
(* The bound on the passes.  In a pass each candidate is compared once with  *)
(* the one before it, so it is promoted by at most one place.  A candidate   *)
(* that a pass did not promote is late: it stands behind one it may not      *)
(* pass, which was not promoted either, and neither will be promoted again.  *)
(* After n passes all are late, for none can have gone forward n places.     *)

(* <<i, j>>: the j-th candidate of the batch may be promoted past the i-th. *)
ScMayPass ==
    {x \in (1..Len(scBatch)) \X (1..Len(scBatch)) :
        /\ ScPriority(scBatch[x[2]]) < ScPriority(scBatch[x[1]])
        /\ ScIndependent(scBatch[x[1]], scBatch[x[2]])}

(* The places by which the candidate at p can have been promoted: one for    *)
(* each pass that has reached it.                                            *)
ScDue(at, pass, p) == IF at > 1 /\ p >= at THEN pass - 1 ELSE pass

ScLate(order, at, pass, p) == order[p] - p < ScDue(at, pass, p)

(* Between a late candidate and any that it may pass stands a late one that  *)
(* it may not.                                                               *)
ScHeldUp(n, order, at, pass, may) ==
    \A p, q \in 1..n : p < q /\ ScLate(order, at, pass, q) /\ <<order[p], order[q]>> \in may =>
        \E y \in 1..n : /\ p < y /\ y < q /\ ScLate(order, at, pass, y)
                        /\ <<order[y], order[q]>> \notin may

(* What the pairs compared in the present pass, or in a whole one, allow. *)
ScCompared(n, order, at, may) ==
    \A k \in 1..(n - 1) : at = 1 \/ k < at - 1 => <<order[k], order[k + 1]>> \notin may

ScSettling(n, order, at, pass, swapped, may) ==
    /\ at > 1 => at - 1 <= n /\ order[at - 1] - (at - 1) < pass
    /\ \A p \in 1..n : order[p] - p <= ScDue(at, pass, p)
    /\ ScHeldUp(n, order, at, pass, may)
    /\ ~swapped => ScCompared(n, order, at, may)

ScSortInv ==
    /\ scPass \in Nat
    /\ scPc = "sort" => ScSettling(Len(scBatch), scOrder, scAt, scPass, scSwapped, ScMayPass)
    /\ ScPrioritySettled
(* What the argument uses of the batch: may is asymmetric. *)
ScAsymmetric(may) == \A i, j : <<i, j>> \in may => <<j, i>> \notin may

(* Before the first pass none is late. *)
LEMMA ScSettlingStarts ==
    ASSUME NEW n \in Nat, NEW order, \A p \in 1..n : order[p] = p, NEW may
    PROVE  ScSettling(n, order, 1, 0, TRUE, may)
  <1>1. \A p \in 1..n : order[p] - p = 0 BY SMT
  <1>2. \A p \in 1..n : ScDue(1, 0, p) = 0 BY DEF ScDue
  <1>3. ScHeldUp(n, order, 1, 0, may) BY <1>1, <1>2 DEF ScHeldUp, ScLate
  <1>4. QED BY <1>1, <1>2, <1>3 DEF ScSettling

(* A pass begins: the first candidate is the one carried along. *)
LEMMA ScSettlingBegins ==
    ASSUME NEW n \in Nat, NEW pass \in Nat, pass < n, NEW order \in [1..n -> 1..n], NEW may,
           ScSettling(n, order, 1, pass, TRUE, may)
    PROVE  ScSettling(n, order, 2, pass + 1, FALSE, may)
  <1>1. /\ \A p \in 1..n : order[p] - p <= pass
        /\ ScHeldUp(n, order, 1, pass, may)
    BY DEF ScSettling, ScDue
  <1>2. /\ \A p \in 1..n : p >= 2 => ScDue(2, pass + 1, p) = pass
        /\ ScDue(2, pass + 1, 1) = pass + 1
        /\ \A p \in 1..n : ScDue(1, pass, p) = pass
    BY DEF ScDue
  <1>3. n >= 1 /\ 1 \in 1..n /\ order[1] \in 1..n /\ \A p \in 1..n : order[p] \in Int /\ p \in Int
    OBVIOUS
  <1>4. \A p \in 1..n : p >= 2 => (ScLate(order, 2, pass + 1, p) <=> ScLate(order, 1, pass, p))
    BY <1>2 DEF ScLate
  <1>5. ASSUME NEW p \in 1..n, NEW q \in 1..n, p < q, ScLate(order, 2, pass + 1, q),
               <<order[p], order[q]>> \in may
        PROVE  \E y \in 1..n : /\ p < y /\ y < q /\ ScLate(order, 2, pass + 1, y)
                               /\ <<order[y], order[q]>> \notin may
    <2>1. q >= 2 BY <1>5
    <2>2. ScLate(order, 1, pass, q) BY <1>4, <1>5, <2>1
    <2>3. PICK y \in 1..n : /\ p < y /\ y < q /\ ScLate(order, 1, pass, y)
                            /\ <<order[y], order[q]>> \notin may
      BY <1>1, <1>5, <2>2 DEF ScHeldUp
    <2>4. y >= 2 BY <2>3
    <2>5. QED BY <1>4, <2>3, <2>4
  <1>6. ScHeldUp(n, order, 2, pass + 1, may) BY <1>5 DEF ScHeldUp
  <1>7. order[1] - 1 < pass + 1 BY <1>1, <1>3
  <1>8. \A p \in 1..n : order[p] - p <= ScDue(2, pass + 1, p)
    <2>1. ASSUME NEW p \in 1..n PROVE order[p] - p <= ScDue(2, pass + 1, p)
      <3>1. CASE p = 1 BY <1>2, <1>3, <1>7, <3>1
      <3>2. CASE p # 1 BY <1>1, <1>2, <3>2
      <3>3. QED BY <3>1, <3>2
    <2>2. QED BY <2>1
  <1>9. ScCompared(n, order, 2, may) BY DEF ScCompared
  <1>10. QED BY <1>3, <1>6, <1>7, <1>8, <1>9 DEF ScSettling

(* One comparison on, only what is due at the place compared changes. *)
LEMMA ScDueMoves ==
    ASSUME NEW n \in Nat, NEW pass \in Nat, NEW at \in Nat, at > 1
    PROVE  /\ \A p \in 1..n : p # at => ScDue(at + 1, pass, p) = ScDue(at, pass, p)
           /\ ScDue(at + 1, pass, at) = pass /\ ScDue(at, pass, at) = pass - 1
           /\ ScDue(at, pass, at - 1) = pass
  <1>1. at + 1 > 1 /\ ~(at >= at + 1) /\ at >= at /\ ~(at - 1 >= at) OBVIOUS
  <1>2. ASSUME NEW p \in 1..n, p # at PROVE ScDue(at + 1, pass, p) = ScDue(at, pass, p)
    <2>1. p >= at + 1 <=> p >= at BY <1>2
    <2>2. QED BY <1>1, <2>1 DEF ScDue
  <1>3. QED BY <1>1, <1>2 DEF ScDue

(* A comparison without a swap: the next candidate is late now, behind the   *)
(* one carried so far, and is the one carried.                               *)
LEMMA ScSettlingHolds ==
    ASSUME NEW n \in Nat, NEW pass \in Nat, NEW at \in Nat, at > 1, at <= n,
           NEW order \in [1..n -> 1..n], NEW may, NEW swapped,
           ScSettling(n, order, at, pass, swapped, may), <<order[at - 1], order[at]>> \notin may
    PROVE  ScSettling(n, order, at + 1, pass, swapped, may)
  <1>1. PICK k : k = at - 1 OBVIOUS
  <1>2. k \in 1..n /\ at \in 1..n /\ at = k + 1 /\ k < at BY <1>1
  <1>3. \A p \in 1..n : order[p] \in Int /\ p \in Int OBVIOUS
  <1>4. /\ order[k] - k < pass
        /\ \A p \in 1..n : order[p] - p <= ScDue(at, pass, p)
        /\ ScHeldUp(n, order, at, pass, may)
        /\ ~swapped => ScCompared(n, order, at, may)
    BY <1>1 DEF ScSettling
  <1>5. /\ \A p \in 1..n : p # at => ScDue(at + 1, pass, p) = ScDue(at, pass, p)
        /\ ScDue(at + 1, pass, at) = pass /\ ScDue(at, pass, at) = pass - 1
        /\ ScDue(at, pass, k) = pass
    <2>1. /\ \A p \in 1..n : p # at => ScDue(at + 1, pass, p) = ScDue(at, pass, p)
          /\ ScDue(at + 1, pass, at) = pass /\ ScDue(at, pass, at) = pass - 1
          /\ ScDue(at, pass, at - 1) = pass
      BY ScDueMoves, ZenonT(30)
    <2>2. QED BY <1>1, <2>1
  <1>6. order[at] - at < pass BY <1>2, <1>3, <1>4, <1>5
  <1>7. ScLate(order, at, pass, k) BY <1>4, <1>5 DEF ScLate
  <1>8. /\ \A p \in 1..n : p # at => (ScLate(order, at + 1, pass, p) <=> ScLate(order, at, pass, p))
        /\ ScLate(order, at + 1, pass, at)
    BY <1>5, <1>6 DEF ScLate
  <1>9. ASSUME NEW p \in 1..n, NEW q \in 1..n, p < q, ScLate(order, at + 1, pass, q),
               <<order[p], order[q]>> \in may
        PROVE  \E y \in 1..n : /\ p < y /\ y < q /\ ScLate(order, at + 1, pass, y)
                               /\ <<order[y], order[q]>> \notin may
    <2>1. CASE q = at
      <3>1. <<order[k], order[q]>> \notin may BY <1>1, <2>1
      <3>2. p # k BY <1>9, <3>1
      <3>3. p < k /\ k < q BY <1>2, <1>9, <2>1, <3>2
      <3>4. ScLate(order, at + 1, pass, k) BY <1>2, <1>7, <1>8
      <3>5. QED BY <1>2, <3>1, <3>3, <3>4
    <2>2. CASE q # at
      <3>1. ScLate(order, at, pass, q) BY <1>8, <1>9, <2>2
      <3>2. PICK y \in 1..n : /\ p < y /\ y < q /\ ScLate(order, at, pass, y)
                              /\ <<order[y], order[q]>> \notin may
        BY <1>4, <1>9, <3>1 DEF ScHeldUp
      <3>3. ScLate(order, at + 1, pass, y) BY <1>8, <3>2
      <3>4. QED BY <3>2, <3>3
    <2>3. QED BY <2>1, <2>2
  <1>10. ScHeldUp(n, order, at + 1, pass, may) BY <1>9 DEF ScHeldUp
  <1>11. \A p \in 1..n : order[p] - p <= ScDue(at + 1, pass, p)
    <2>1. ASSUME NEW p \in 1..n PROVE order[p] - p <= ScDue(at + 1, pass, p)
      <3>1. CASE p = at BY <1>2, <1>3, <1>5, <1>6, <3>1
      <3>2. CASE p # at BY <1>4, <1>5, <3>2
      <3>3. QED BY <3>1, <3>2
    <2>2. QED BY <2>1
  <1>12. ~swapped => ScCompared(n, order, at + 1, may)
    <2>1. SUFFICES ASSUME ~swapped, NEW j \in 1..(n - 1), j < (at + 1) - 1
                   PROVE  <<order[j], order[j + 1]>> \notin may
      <3>1. at + 1 # 1 BY <1>2
      <3>2. QED BY <3>1 DEF ScCompared
    <2>2. CASE j = k BY <1>1, <1>2, <2>2
    <2>3. CASE j # k
      <3>1. j < at - 1 BY <1>1, <1>2, <2>1, <2>3
      <3>2. QED BY <1>4, <2>1, <3>1 DEF ScCompared
    <2>4. QED BY <2>2, <2>3
  <1>13. /\ (at + 1) - 1 = at /\ at <= n BY <1>2
  <1>14. QED BY <1>6, <1>10, <1>11, <1>12, <1>13 DEF ScSettling

(* A swap: the candidate promoted was not late and is not; the one carried   *)
(* stays late.                                                               *)
LEMMA ScSettlingSwaps ==
    ASSUME NEW n \in Nat, NEW pass \in Nat, NEW at \in Nat, at > 1, at <= n,
           NEW order \in [1..n -> 1..n], NEW may, ScAsymmetric(may), NEW swapped,
           ScSettling(n, order, at, pass, swapped, may), <<order[at - 1], order[at]>> \in may,
           NEW next \in [1..n -> 1..n],
           \A p \in 1..n : next[p] = IF p = at - 1 THEN order[at]
                                     ELSE IF p = at THEN order[at - 1] ELSE order[p]
    PROVE  ScSettling(n, next, at + 1, pass, TRUE, may)
  <1>1. PICK k : k = at - 1 OBVIOUS
  <1>2. k \in 1..n /\ at \in 1..n /\ at = k + 1 /\ k < at /\ k # at BY <1>1
  <1>3. \A p \in 1..n : order[p] \in Int /\ p \in Int OBVIOUS
  <1>4. /\ order[k] - k < pass
        /\ \A p \in 1..n : order[p] - p <= ScDue(at, pass, p)
        /\ ScHeldUp(n, order, at, pass, may)
    BY <1>1 DEF ScSettling
  <1>5. /\ \A p \in 1..n : p # at => ScDue(at + 1, pass, p) = ScDue(at, pass, p)
        /\ ScDue(at + 1, pass, at) = pass /\ ScDue(at, pass, at) = pass - 1
        /\ ScDue(at, pass, k) = pass
    <2>1. /\ \A p \in 1..n : p # at => ScDue(at + 1, pass, p) = ScDue(at, pass, p)
          /\ ScDue(at + 1, pass, at) = pass /\ ScDue(at, pass, at) = pass - 1
          /\ ScDue(at, pass, at - 1) = pass
      BY ScDueMoves, ZenonT(30)
    <2>2. QED BY <1>1, <2>1
  <1>6. /\ next[k] = order[at] /\ next[at] = order[k]
        /\ \A p \in 1..n : p # k /\ p # at => next[p] = order[p]
    BY <1>1, <1>2
  <1>7. <<order[k], order[at]>> \in may /\ <<order[at], order[k]>> \notin may
    BY <1>1 DEF ScAsymmetric
  <1>8. ~ScLate(order, at, pass, at)
    <2>1. SUFFICES ASSUME ScLate(order, at, pass, at) PROVE FALSE OBVIOUS
    <2>2. PICK y \in 1..n : k < y /\ y < at BY <1>2, <1>4, <1>7, <2>1 DEF ScHeldUp
    <2>3. QED BY <1>2, <2>2
  <1>9. order[at] - at = pass - 1
    <2>1. order[at] - at <= pass - 1 /\ ~(order[at] - at < pass - 1) /\ order[at] \in Int
      BY <1>2, <1>3, <1>4, <1>5, <1>8 DEF ScLate
    <2>2. PICK d : d = order[at] OBVIOUS
    <2>3. d \in Int /\ d - at <= pass - 1 /\ ~(d - at < pass - 1) BY <2>1, <2>2
    <2>4. d - at = pass - 1 BY <2>3
    <2>5. QED BY <2>2, <2>4
  <1>10. next[k] - k = pass /\ next[at] - at < pass
    <2>1. PICK i, j : i = order[k] /\ j = order[at] OBVIOUS
    <2>2. /\ i \in Int /\ j \in Int /\ k \in Int /\ at = k + 1
          /\ i - k < pass /\ j - at = pass - 1
      BY <1>2, <1>3, <1>4, <1>9, <2>1
    <2>3. j - k = pass /\ i - at < pass BY <2>2
    <2>4. QED BY <1>6, <2>1, <2>3
  <1>11. /\ ~ScLate(next, at + 1, pass, k) /\ ScLate(next, at + 1, pass, at)
         /\ ScLate(order, at, pass, k)
    BY <1>2, <1>4, <1>5, <1>10 DEF ScLate
  <1>12. \A p \in 1..n : p # k /\ p # at => (ScLate(next, at + 1, pass, p) <=> ScLate(order, at, pass, p))
    BY <1>5, <1>6 DEF ScLate
  <1>13. ASSUME NEW p \in 1..n, NEW q \in 1..n, p < q, ScLate(next, at + 1, pass, q),
                <<next[p], next[q]>> \in may
         PROVE  \E y \in 1..n : /\ p < y /\ y < q /\ ScLate(next, at + 1, pass, y)
                                /\ <<next[y], next[q]>> \notin may
    <2>1. q # k BY <1>11, <1>13
    <2>2. PICK u : u = IF q = at THEN k ELSE q OBVIOUS
    <2>3. PICK v : v = IF p = k THEN at ELSE IF p = at THEN k ELSE p OBVIOUS
    <2>4. u \in 1..n /\ v \in 1..n /\ next[q] = order[u] /\ next[p] = order[v]
      BY <1>2, <1>6, <2>1, <2>2, <2>3
    <2>5. ScLate(order, at, pass, u) BY <1>11, <1>12, <1>13, <2>1, <2>2
    <2>6. ~(p = k /\ q = at) BY <1>6, <1>7, <1>13
    <2>7. v < u
      <3>1. k \in Int /\ p \in Int /\ q \in Int /\ at = k + 1 /\ p < q BY <1>2, <1>13
      <3>2. CASE q = at BY <2>2, <2>3, <2>6, <3>1, <3>2
      <3>3. CASE q # at /\ p = k BY <2>2, <2>3, <3>1, <3>3
      <3>4. CASE q # at /\ p # k BY <2>2, <2>3, <3>1, <3>4
      <3>5. QED BY <3>2, <3>3, <3>4
    <2>8. PICK z \in 1..n : /\ v < z /\ z < u /\ ScLate(order, at, pass, z)
                            /\ <<order[z], order[u]>> \notin may
      BY <1>4, <1>13, <2>4, <2>5, <2>7 DEF ScHeldUp
    <2>9. z # at BY <1>8, <2>8
    <2>10. PICK y : y = IF z = k THEN at ELSE z OBVIOUS
    <2>11. y \in 1..n /\ next[y] = order[z] BY <1>2, <1>6, <2>9, <2>10
    <2>12. ScLate(next, at + 1, pass, y) BY <1>11, <1>12, <2>8, <2>9, <2>10
    <2>13. p < y /\ y < q
      <3>1. /\ k \in Int /\ p \in Int /\ q \in Int /\ z \in Int /\ at = k + 1 /\ p < q
            /\ v < z /\ z < u /\ z # at /\ q # k
        BY <1>2, <1>13, <2>1, <2>8, <2>9
      <3>2. CASE z = k BY <2>2, <2>3, <2>10, <3>1, <3>2
      <3>3. CASE z # k
        <4>1. y = z /\ p < z
          <5>1. CASE p = k BY <2>3, <2>10, <3>1, <3>3, <5>1
          <5>2. CASE p = at BY <2>3, <2>10, <3>1, <3>3, <5>2
          <5>3. CASE p # k /\ p # at BY <2>3, <2>10, <3>1, <3>3, <5>3
          <5>4. QED BY <5>1, <5>2, <5>3
        <4>2. z < q BY <2>2, <3>1
        <4>3. QED BY <4>1, <4>2
      <3>4. QED BY <3>2, <3>3
    <2>14. QED BY <2>4, <2>8, <2>11, <2>12, <2>13
  <1>14. ScHeldUp(n, next, at + 1, pass, may) BY <1>13 DEF ScHeldUp
  <1>15. \A p \in 1..n : next[p] - p <= ScDue(at + 1, pass, p)
    <2>1. ASSUME NEW p \in 1..n PROVE next[p] - p <= ScDue(at + 1, pass, p)
      <3>1. next[p] \in Int /\ p \in Int OBVIOUS
      <3>2. CASE p = at BY <1>5, <1>10, <3>1, <3>2
      <3>3. CASE p = k BY <1>2, <1>5, <1>10, <3>1, <3>3
      <3>4. CASE p # at /\ p # k BY <1>4, <1>5, <1>6, <3>4
      <3>5. QED BY <3>2, <3>3, <3>4
    <2>2. QED BY <2>1
  <1>16. (at + 1) - 1 = at /\ at <= n BY <1>2
  <1>17. QED BY <1>10, <1>14, <1>15, <1>16 DEF ScSettling

(* A pass ends. *)
LEMMA ScSettlingEnds ==
    ASSUME NEW n \in Nat, NEW pass \in Nat, NEW at \in Nat, at > 1, at - 1 > n - 1,
           NEW order \in [1..n -> 1..n], NEW may, NEW swapped,
           ScSettling(n, order, at, pass, swapped, may)
    PROVE  ScSettling(n, order, 1, pass, swapped, may)
  <1>1. at - 1 = n BY DEF ScSettling
  <1>2. \A p \in 1..n : ScDue(at, pass, p) = pass /\ ScDue(1, pass, p) = pass BY <1>1 DEF ScDue
  <1>3. \A p \in 1..n : ScLate(order, at, pass, p) <=> ScLate(order, 1, pass, p) BY <1>2 DEF ScLate
  <1>4. ScHeldUp(n, order, 1, pass, may)
    <2>1. ScHeldUp(n, order, at, pass, may) BY DEF ScSettling
    <2>2. QED BY <1>3, <2>1 DEF ScHeldUp
  <1>5. ~swapped => ScCompared(n, order, 1, may)
    <2>1. ~swapped => ScCompared(n, order, at, may) BY DEF ScSettling
    <2>2. \A j \in 1..(n - 1) : j < at - 1 BY <1>1
    <2>3. QED BY <2>1, <2>2 DEF ScCompared
  <1>6. QED BY <1>2, <1>4, <1>5 DEF ScSettling

(* The sort ends, by a pass without a swap or by the bound on the passes. *)
LEMMA ScSettlingDone ==
    ASSUME NEW n \in Nat, NEW pass \in Nat, NEW order \in [1..n -> 1..n], NEW may, NEW swapped,
           ScSettling(n, order, 1, pass, swapped, may), ~(swapped /\ pass < n)
    PROVE  \A k \in 1..(n - 1) : <<order[k], order[k + 1]>> \notin may
  <1>1. CASE ~swapped BY <1>1 DEF ScSettling, ScCompared
  <1>2. CASE ~(pass < n)
    <2>1. SUFFICES ASSUME NEW k \in 1..(n - 1), <<order[k], order[k + 1]>> \in may PROVE FALSE
      OBVIOUS
    <2>2. k \in 1..n /\ k + 1 \in 1..n /\ k < k + 1 BY <2>1
    <2>3. order[k + 1] \in 1..n BY <2>2
    <2>4. ScLate(order, 1, pass, k + 1) BY <1>2, <2>2, <2>3 DEF ScLate, ScDue
    <2>5. ScHeldUp(n, order, 1, pass, may) BY DEF ScSettling
    <2>6. PICK y \in 1..n : k < y /\ y < k + 1
      <3>1. PICK j : j = k + 1 OBVIOUS
      <3>2. j \in 1..n /\ k < j /\ ScLate(order, 1, pass, j) /\ <<order[k], order[j]>> \in may
        BY <2>1, <2>2, <2>4, <3>1
      <3>3. QED BY <2>2, <2>5, <3>1, <3>2 DEF ScHeldUp
    <2>7. QED BY <2>2, <2>6
  <1>3. QED BY <1>1, <1>2
(* What the sort's steps use of the state. *)
LEMMA ScSortShape ==
    ASSUME ScInductive, ScSortInv
    PROVE  /\ Len(scBatch) \in Nat /\ scOrder \in [1..Len(scBatch) -> 1..Len(scBatch)]
           /\ scAt \in Nat \ {0} /\ scPass \in Nat /\ ScAsymmetric(ScMayPass)
  <1>1. \A c : ScPriority(c) \in Int BY DEF ScPriority
  <1>2. ScAsymmetric(ScMayPass) BY <1>1 DEF ScAsymmetric, ScMayPass
  <1>3. Len(scBatch) \in Nat
    <2>1. scBatch \in Seq(ScCands) BY DEF ScInductive, ScPermutes
    <2>2. QED BY <2>1
  <1>4. QED BY <1>2, <1>3 DEF ScInductive, ScPermutes, ScSortInv

(* The sort changes neither the batch nor the chain that the oracle reads. *)
LEMMA ScMayPassKept ==
    ASSUME scBatch' = scBatch, scChain' = scChain
    PROVE  ScMayPass' = ScMayPass
  BY DEF ScMayPass, ScIndependent, ScDeclared, ScApart, ScBarrier, ScKnown, ScGrants

(* A comparison of the sort. *)
LEMMA ScCompareSettles ==
    ASSUME ScInductive, ScSortInv, ScCompare
    PROVE  ScSortInv'
  <1>1. PICK n, at, pass, order, next, swapped, may :
            /\ n = Len(scBatch) /\ at = scAt /\ pass = scPass /\ order = scOrder /\ next = scOrder'
            /\ swapped = scSwapped /\ may = ScMayPass
    OBVIOUS
  <1>2. /\ n \in Nat /\ order \in [1..n -> 1..n] /\ at \in Nat /\ pass \in Nat /\ ScAsymmetric(may)
    BY <1>1, ScSortShape
  <1>3. /\ scPc = "sort" /\ at > 1 /\ at - 1 <= n - 1 /\ at <= n
        /\ scBatch' = scBatch /\ scChain' = scChain /\ scPc' = "sort" /\ scPass' = pass /\ scAt' = at + 1
    BY <1>1, <1>2 DEF ScCompare, ScPassLength
  <1>4. ScSettling(n, order, at, pass, swapped, may) BY <1>1, <1>3 DEF ScSortInv
  <1>5. may = ScMayPass' BY <1>1, <1>3, ScMayPassKept
  <1>6. at - 1 \in 1..n /\ at \in 1..n /\ (at - 1) + 1 = at BY <1>2, <1>3
  <1>7. PICK swap : swap = (<<order[at - 1], order[at]>> \in may) OBVIOUS
  <1>8. order[at - 1] \in 1..n /\ order[at] \in 1..n BY <1>2, <1>6
  <1>9. swap <=> /\ ScPriority(scBatch[order[at]]) < ScPriority(scBatch[order[at - 1]])
                 /\ ScIndependent(scBatch[order[at - 1]], scBatch[order[at]])
    BY <1>1, <1>7, <1>8 DEF ScMayPass
  <1>10. /\ swap => next = [order EXCEPT ![at - 1] = order[at], ![at] = order[at - 1]]
         /\ ~swap => next = order
         /\ scSwapped' <=> (swapped \/ swap)
    BY <1>1, <1>6, <1>9 DEF ScCompare
  <1>11. CASE swap
    <2>1. next \in [1..n -> 1..n] BY <1>2, <1>8, <1>10, <1>11
    <2>2. \A p \in 1..n : next[p] = IF p = at - 1 THEN order[at]
                                    ELSE IF p = at THEN order[at - 1] ELSE order[p]
      <3>1. PICK k : k = at - 1 OBVIOUS
      <3>2. k \in 1..n /\ k # at BY <1>3, <1>6, <3>1
      <3>3. next = [order EXCEPT ![k] = order[at], ![at] = order[k]] BY <1>10, <1>11, <3>1
      <3>4. \A p \in 1..n : next[p] = IF p = k THEN order[at] ELSE IF p = at THEN order[k] ELSE order[p]
        BY <1>2, <1>6, <3>2, <3>3
      <3>5. QED BY <3>1, <3>4
    <2>3. <<order[at - 1], order[at]>> \in may BY <1>7, <1>11
    <2>4. ScSettling(n, next, at + 1, pass, TRUE, may)
      BY <1>2, <1>3, <1>4, <2>1, <2>2, <2>3, ScSettlingSwaps
    <2>5. scSwapped' BY <1>10, <1>11
    <2>6. ScSettling(n, next, at + 1, pass, scSwapped', may) BY <2>4, <2>5 DEF ScSettling
    <2>7. QED BY <1>1, <1>2, <1>3, <1>5, <2>6 DEF ScSortInv, ScPrioritySettled
  <1>12. CASE ~swap
    <2>1. ScSettling(n, next, at + 1, pass, swapped, may)
      BY <1>2, <1>3, <1>4, <1>7, <1>10, <1>12, ScSettlingHolds
    <2>2. scSwapped' <=> swapped BY <1>10, <1>12
    <2>3. ScSettling(n, next, at + 1, pass, scSwapped', may) BY <2>1, <2>2 DEF ScSettling
    <2>4. QED BY <1>1, <1>2, <1>3, <1>5, <2>3 DEF ScSortInv, ScPrioritySettled
  <1>13. QED BY <1>11, <1>12

(* The sort begins, and a pass begins or ends. *)
LEMMA ScPassSettles ==
    ASSUME ScInductive, ScInductive', ScSortInv,
           (\E b \in ScBatches : ScSchedule(b)) \/ ScBeginPass \/ ScEndPass
    PROVE  ScSortInv'
  <1>1. PICK n, at, pass, order, swapped, may :
            /\ n = Len(scBatch) /\ at = scAt /\ pass = scPass /\ order = scOrder
            /\ swapped = scSwapped /\ may = ScMayPass
    OBVIOUS
  <1>2. n \in Nat /\ order \in [1..n -> 1..n] /\ at \in Nat \ {0} /\ pass \in Nat
    BY <1>1, ScSortShape
  <1>3. ASSUME NEW b \in ScBatches, ScSchedule(b) PROVE ScSortInv'
    <2>1. PICK m, next, able : m = Len(scBatch') /\ next = scOrder' /\ able = ScMayPass' OBVIOUS
    <2>2. /\ next = [p \in 1..m |-> p] /\ scPc' = "sort" /\ scAt' = 1 /\ scPass' = 0 /\ scSwapped' = TRUE
      BY <1>3, <2>1 DEF ScSchedule
    <2>3. m \in Nat
      <3>1. scBatch' \in Seq(ScCands) BY DEF ScInductive, ScPermutes
      <3>2. QED BY <2>1, <3>1
    <2>4. \A p \in 1..m : next[p] = p BY <2>2
    <2>5. ScSettling(m, next, 1, 0, TRUE, able) BY <2>3, <2>4, ScSettlingStarts
    <2>6. QED BY <2>1, <2>2, <2>5 DEF ScSortInv, ScPrioritySettled
  <1>4. CASE ScBeginPass
    <2>1. /\ scPc = "sort" /\ at = 1 /\ swapped /\ pass < n /\ scPc' = "sort"
          /\ scAt' = 2 /\ scPass' = pass + 1 /\ scSwapped' = FALSE
          /\ scBatch' = scBatch /\ scChain' = scChain /\ scOrder' = order
      BY <1>1, <1>4 DEF ScBeginPass
    <2>2. ScSettling(n, order, 1, pass, swapped, may) BY <1>1, <2>1 DEF ScSortInv
    <2>3. ScSettling(n, order, 1, pass, TRUE, may) BY <2>1, <2>2 DEF ScSettling
    <2>4. ScSettling(n, order, 2, pass + 1, FALSE, may) BY <1>2, <2>1, <2>3, ScSettlingBegins
    <2>5. may = ScMayPass' BY <1>1, <2>1, ScMayPassKept
    <2>6. ScSettling(n, order, 2, pass + 1, scSwapped', may) BY <2>1, <2>4 DEF ScSettling
    <2>7. pass + 1 \in Nat BY <1>2
    <2>8. QED BY <1>1, <2>1, <2>5, <2>6, <2>7 DEF ScSortInv, ScPrioritySettled
  <1>5. CASE ScEndPass
    <2>1. /\ scPc = "sort" /\ at > 1 /\ at - 1 > n - 1 /\ scPc' = "sort" /\ scAt' = 1
          /\ scPass' = pass /\ scSwapped' = swapped /\ scBatch' = scBatch /\ scChain' = scChain
          /\ scOrder' = order
      BY <1>1, <1>5 DEF ScEndPass, ScPassLength, scSort
    <2>2. ScSettling(n, order, at, pass, swapped, may) BY <1>1, <2>1 DEF ScSortInv
    <2>3. ScSettling(n, order, 1, pass, swapped, may) BY <1>2, <2>1, <2>2, ScSettlingEnds
    <2>4. may = ScMayPass' BY <1>1, <2>1, ScMayPassKept
    <2>5. QED BY <1>1, <1>2, <2>1, <2>3, <2>4 DEF ScSortInv, ScPrioritySettled
  <1>6. QED BY <1>3, <1>4, <1>5

(* The sort ends. *)
LEMMA ScSortedSettles ==
    ASSUME ScInductive, ScSortInv, ScSorted
    PROVE  ScSortInv'
  <1>1. PICK n, pass, order, swapped, may :
            n = Len(scBatch) /\ pass = scPass /\ order = scOrder /\ swapped = scSwapped /\ may = ScMayPass
    OBVIOUS
  <1>2. n \in Nat /\ order \in [1..n -> 1..n] /\ pass \in Nat BY <1>1, ScSortShape
  <1>3. /\ scPc = "sort" /\ scAt = 1 /\ ~(swapped /\ pass < n) /\ scPc' = "commit"
        /\ scPass' = pass /\ scBatch' = scBatch /\ scChain' = scChain /\ scOrder' = order
    BY <1>1 DEF ScSorted, scSort
  <1>4. ScSettling(n, order, 1, pass, swapped, may) BY <1>1, <1>3 DEF ScSortInv
  <1>5. \A k \in 1..(n - 1) : <<order[k], order[k + 1]>> \notin may BY <1>2, <1>3, <1>4, ScSettlingDone
  <1>6. may = ScMayPass' BY <1>1, <1>3, ScMayPassKept
  <1>7. ASSUME NEW k \in 1..(n - 1),
               ScPriority(scBatch[order[k + 1]]) < ScPriority(scBatch[order[k]])
        PROVE  ~ScIndependent(scBatch[order[k]], scBatch[order[k + 1]])'
    <2>1. k \in 1..n /\ k + 1 \in 1..n BY <1>2
    <2>2. PICK i, j : i = order[k] /\ j = order[k + 1] OBVIOUS
    <2>3. i \in 1..n /\ j \in 1..n /\ <<i, j>> \notin ScMayPass' BY <1>2, <1>5, <1>6, <2>1, <2>2
    <2>4. ScPriority(scBatch'[j]) < ScPriority(scBatch'[i]) BY <1>3, <1>7, <2>2
    <2>5. ~ScIndependent(scBatch[i], scBatch[j])' BY <1>1, <1>3, <2>3, <2>4 DEF ScMayPass
    <2>6. QED BY <2>2, <2>5
  <1>8. ScPrioritySettled' BY <1>1, <1>3, <1>7 DEF ScPrioritySettled
  <1>9. QED BY <1>2, <1>3, <1>8 DEF ScSortInv

(* Every step keeps the sort settling. *)
LEMMA ScSortInvNext ==
    ASSUME ScInductive, ScInductive', ScSortInv, [ScNext]_scVars
    PROVE  ScSortInv'
  <1>1. ASSUME scPass' = scPass, scPc' # "sort", scPc' = "commit" => scAt' # 1 PROVE ScSortInv'
    BY <1>1 DEF ScSortInv, ScPrioritySettled
  <1>2. scAt \in Nat /\ scAt # 0 BY DEF ScInductive, ScPermutes
  <1>3. scAt + 1 # 1 BY <1>2
  <1>4. CASE ScRefuse BY <1>1, <1>3, <1>4 DEF ScRefuse, scSort
  <1>5. CASE ScCommit BY <1>1, <1>5 DEF ScCommit, scSort
  <1>6. CASE ScEffect BY <1>1, <1>3, <1>6 DEF ScEffect, scSort
  <1>7. CASE ScDone \/ ScAdmitRaises \/ ScEffectRaises
    BY <1>7 DEF ScDone, ScAdmitRaises, ScEffectRaises, ScIdle, ScSortInv, ScPrioritySettled
  <1>11. CASE ScEffectRefuses BY <1>1, <1>3, <1>11 DEF ScEffectRefuses, scSort
  <1>8. CASE ScEnqueue \/ ScRecover BY <1>1, <1>8 DEF ScEnqueue, ScRecover, scSort
  <1>9. CASE UNCHANGED scVars
    <2>1. UNCHANGED <<scChain, scPc, scBatch, scOrder, scAt, scPass, scSwapped>>
      BY <1>9 DEF scVars, scSort
    <2>2. ScMayPass' = ScMayPass BY <2>1, ScMayPassKept
    <2>3. ScPrioritySettled' <=> ScPrioritySettled
      BY <2>1 DEF ScPrioritySettled, ScIndependent, ScDeclared, ScApart, ScBarrier, ScKnown, ScGrants
    <2>4. QED BY <2>1, <2>2, <2>3 DEF ScSortInv
  <1>10. QED
    BY <1>4, <1>5, <1>6, <1>7, <1>8, <1>9, <1>11, ScCompareSettles, ScPassSettles, ScSortedSettles DEF ScNext

(* The bound on the passes never cuts the sort short: for every batch, and   *)
(* however its dependencies hold candidates up, no candidate could still be  *)
(* promoted past its neighbour when _safe_priority_order() returns.          *)
THEOREM SortSettles == ScSpec => []ScPrioritySettled
  <1>1. ScInit => ScSortInv
    <2>1. ScInit => scPass = 0 /\ scPc = "idle" BY DEF ScInit
    <2>2. QED BY <2>1 DEF ScSortInv, ScPrioritySettled
  <1>2. ScInductive /\ ScInductive' /\ ScSortInv /\ [ScNext]_scVars => ScSortInv' BY ScSortInvNext
  <1>3. ScSortInv => ScPrioritySettled BY DEF ScSortInv
  <1>4. QED BY <1>1, <1>2, <1>3, ScInductiveInit, ScInductiveNext, PTL DEF ScSpec
=============================================================================
